--------------------------- MODULE ApiClientProofs ---------------------------
(***************************************************************************)
(* Theorems about ApiClient, for any number of funding sources, keys and   *)
(* cards and whatever data the providers issue.                            *)
(***************************************************************************)
EXTENDS ApiClient, TLAPS

-----------------------------------------------------------------------------
(* Outcomes.                                                               *)

\* What a call that has reached the service may end with, unless it was refused.
Undocumented == {"result", "broken", "FatalError", "KeyNotFoundError",
                 "RequestFailedError", "UnknownGraphQLError"}

\* Calls that change the service's records.
Acting == {"setupFundingSource", "cancelProvisionalFundingSource",
           "completeFundingSource", "refreshFundingSource",
           "provisionVirtualCard"} \cup ByIdAlone

LEMMA UndocumentedOutcomes ==
  ASSUME NEW op \in Acting, NEW o \in Undocumented
  PROVE  o \notin DocumentedErrors(op)
  BY DEF Acting, Undocumented, ByIdAlone, DocumentedErrors, Documented,
         AnyDocumented, Interaction

LEMMA LostOutcomes ==
  ASSUME NEW r \in Losses
  PROVE  MapGraphQLCallError(r) \in Undocumented
  BY DEF Losses, Unanswered, MapGraphQLCallError, UnansweredClass, Plain, Reply,
         Undocumented

\* What an unsealing or decoding ends with.
LEMMA ReadOutcomes ==
  ASSUME NEW s
  PROVE  /\ \A k : FundingSourceOutcome(s, k)
                    \in {"result", "FatalError", "KeyNotFoundError"}
         /\ ProvisionalOutcome(s) \in {"result", "FatalError"}
  BY DEF FundingSourceOutcome, ProvisionalOutcome

\* The operation and outcome of a call that was answered, refused or lost.
LEMMA Ends ==
  ASSUME NEW op, NEW fits
  PROVE  /\ \A n, o : Succeeds(op, n, o, fits) =>
              /\ last'.op = op /\ last'.fits = fits /\ last'.reply = Answered
              /\ last'.outcome \in {o, "broken"}
         /\ \A g, r : Fails(op, g, r, fits) =>
              /\ last'.op = op /\ last'.fits = fits /\ last'.reply = r
              /\ last'.outcome = MapGraphQLCallError(r)
         /\ \A e : NotSent(op, e, fits) =>
              /\ last'.op = op /\ last'.fits = fits
              /\ last'.outcome = IF e = Undecodable THEN "FatalError"
                                 ELSE "KeyNotFoundError"
  BY DEF Succeeds, Fails, NotSent, Call

\* What an answer about one funding source, or its loss, leaves.
LEMMA Telling ==
  ASSUME NEW op, NEW i, NEW s, NEW fits, Tells(op, i, s, fits)
  PROVE  /\ last'.op = op /\ last'.fits = fits /\ last'.outcome \in Undocumented
         /\ held' \in Meanwhile /\ known' \in {known, known \cup {i}}
         /\ op # "completeFundingSource" => lost' = lost
         /\ \/ /\ lost' = lost /\ held' = {key}
               /\ known' = known \cup {j \in {i} : FundingSourceOutcome(s, key) = "result"}
            \/ /\ op = "completeFundingSource" => lost' = lost \cup {<<i, "changeKeys">>}
               /\ \E k \in held' : known' = known \cup
                    {j \in {i} : FundingSourceOutcome(s, k) = "result"}
            \/ /\ known' = known
               /\ op = "completeFundingSource" => lost' = lost \cup {<<i, op>>}
  <1>1. ASSUME NEW k \in held',
               \E n \in Nulls(op, {s}) :
                 Succeeds(op, n, FundingSourceOutcome(s, k), fits)
        PROVE  /\ last'.op = op /\ last'.fits = fits
               /\ last'.outcome \in Undocumented
    <2> DEFINE o == FundingSourceOutcome(s, k)
    <2>1. PICK n \in Nulls(op, {s}) : Succeeds(op, n, o, fits)
      BY <1>1
    <2>2. o \in {"result", "FatalError", "KeyNotFoundError"}
      BY ReadOutcomes
    <2> HIDE DEF o
    <2>3. /\ last'.op = op /\ last'.fits = fits
          /\ last'.outcome \in {o, "broken"}
      BY <2>1, Ends
    <2> QED BY <2>2, <2>3 DEF Undocumented
  <1>2. ASSUME NEW r \in Losses, Fails(op, {}, r, fits)
        PROVE  /\ last'.op = op /\ last'.fits = fits
               /\ last'.outcome \in Undocumented
    BY <1>2, Ends, LostOutcomes
  <1>3. ASSUME NEW k, known' = known \cup
                        {j \in {i} : FundingSourceOutcome(s, k) = "result"}
        PROVE  known' \in {known, known \cup {i}}
    <2>1. CASE FundingSourceOutcome(s, k) = "result"
      BY <1>3, <2>1
    <2>2. CASE FundingSourceOutcome(s, k) # "result"
      BY <1>3, <2>2
    <2> QED BY <2>1, <2>2
  <1> QED BY <1>1, <1>2, <1>3 DEF Tells

-----------------------------------------------------------------------------
(* Type correctness.                                                       *)

SourceType ==
  [state : {"none"} \cup Unfinished \cup Finished,
   data : Provisioning \cup {Undecodable},
   seal : Keys \cup {NoKey}, sound : BOOLEAN]

\* A source is sealed if it is a bank account that was completed, and only a
\* bank account is ever in need of a refresh: TypeOK alone is not inductive, for
\* a refresh seals what it finds with the key in use.
Sealed(s) ==
  /\ s \in SourceType
  /\ s.seal # NoKey <=> s.state \in Finished /\ IsBankAccount(s)
  /\ s.state = "refresh" => IsBankAccount(s)

IInv == TypeOK /\ \A i \in Ids : Sealed(source[i])

USE DEF Finished, Unfinished

LEMMA SealedStates ==
  ASSUME NEW s, Sealed(s)
  PROVE  /\ s.state \in Unfinished => Sealed([s EXCEPT !.state = "failed"])
         /\ \A op \in ByIdAlone :
              s.state \in Finished
                /\ (op = "sandboxSetFundingSourceToRequireRefresh"
                      => IsBankAccount(s))
              => Sealed([s EXCEPT !.state = Moved(op, s)])
         /\ \A seal \in Keys :
              s.state \in Finished /\ IsBankAccount(s)
              => Sealed([s EXCEPT !.state = "active", !.seal = seal])
  <1> USE KeysAssumption DEF Sealed, SourceType, IsBankAccount
  <1>1. s.state \in Unfinished => Sealed([s EXCEPT !.state = "failed"])
    OBVIOUS
  <1>2. ASSUME NEW op \in ByIdAlone, s.state \in Finished,
               op = "sandboxSetFundingSourceToRequireRefresh" => IsBankAccount(s)
        PROVE  Sealed([s EXCEPT !.state = Moved(op, s)])
    BY <1>2 DEF Moved, ByIdAlone
  <1>3. ASSUME NEW seal \in Keys, s.state \in Finished, IsBankAccount(s)
        PROVE  Sealed([s EXCEPT !.state = "active", !.seal = seal])
    BY <1>3
  <1> QED BY <1>1, <1>2, <1>3

\* A completion the service takes names a key if it is a bank account's.
LEMMA CompletionSeals ==
  ASSUME NEW s, Sealed(s), s.state = "provisioning",
         NEW c \in Completions, NEW sound \in BOOLEAN,
         NEW named \in IF NeedsKey(c) THEN Keys ELSE {NoKey},
         Matches(EncodeCompletion(c), s.data)
  PROVE  Sealed(Completed(s, sound, named))
  <1>1. IsBankAccount(s) => NeedsKey(c)
    BY DEF IsBankAccount, NeedsKey, Matches, EncodeCompletion, Completions,
           IsStripeCardCompletion, IsCheckoutBankAccountCompletion, TypeOrDefault,
           Data, Absent, Undecodable
  <1> QED BY <1>1, KeysAssumption
          DEF Sealed, SourceType, IsBankAccount, Completed

-----------------------------------------------------------------------------
(* Steps.                                                                  *)

\* What every step keeps to.
Bounded ==
  /\ key' \in Keys \cup {NoKey}
  /\ told \subseteq told' /\ told' \subseteq Ids
  /\ known \subseteq known' /\ known' \subseteq Ids
  /\ lost \subseteq lost'
  /\ lost' \subseteq
       Ids \X {"setupFundingSource", "completeFundingSource", "changeKeys"}
  /\ held' \subseteq Keys \cup {NoKey}
  /\ last'.op \in Operations \cup {"none"}

\* The service was not asked, refused, or only looked something up.
Rests == UNCHANGED <<source, cards>>

\* The service acted on the call, and the caller is not told that it did not.
Acted == last'.op \in Acting /\ last'.outcome \in Undocumented

\* Funding source i became s: the host hears of what is new about it, or that
\* was lost or cannot be read.
Became(i, s) ==
  /\ Sealed(s) /\ s.state # "none"
  /\ source' = [source EXCEPT ![i] = s] /\ cards' = cards
  /\ \/ source[i].state # "none" /\ s.data = source[i].data
     \/ i \in told' \/ <<i, "setupFundingSource">> \in lost'
     \/ ~Recognised(s.data)
  /\ s.state \in Finished =>
       \/ /\ source[i].state \in Finished
          /\ s.data = source[i].data /\ s.sound = source[i].sound
       \/ i \in known' \/ <<i, "completeFundingSource">> \in lost'
       \/ IsBankAccount(s) /\ (~s.sound \/ <<i, "changeKeys">> \in lost')

Provisioned == source' = source /\ cards' = cards + 1 /\ cards' \in 0..MaxCards

Step ==
  /\ Bounded
  /\ \/ Rests
     \/ Acted /\ \E i \in Ids : \E s : Became(i, s)
     \/ Acted /\ Provisioned

\* Data that cannot be decoded are no data the SDK's types describe.
LEMMA RecognisedDecodes ==
  ASSUME NEW s, ProvisionalOutcome(s) # "result"
  PROVE  ~Recognised(s.data)
  BY DEF ProvisionalOutcome, DecodeProvisioning, Recognised, StripeCodec,
         CheckoutCodec, Data, Undecodable, StripeParts, LinkParts

LEMMA QuietStep ==
  ASSUME IInv, NEW op \in Operations, Refuse(op) \/ Unheard(op) \/ Look(op)
  PROVE  Step
  <1>1. Unacted
    BY DEF Refuse, Unheard, Look
  <1>2. ASSUME \E g, r : Fails(op, g, r, FALSE) PROVE last'.op = op
    BY <1>2, Ends
  <1>3. ASSUME \E n, o : Succeeds(op, n, o, FALSE) PROVE last'.op = op
    BY <1>3, Ends
  <1>4. last'.op = op
    BY <1>2, <1>3 DEF Refuse, Unheard, Look
  <1> QED BY <1>1, <1>4 DEF Step, Bounded, Rests, Unacted, IInv, TypeOK

LEMMA SetupStep ==
  ASSUME IInv, NEW i \in Ids, NEW d \in Provisioning, setupFundingSourceCall(i, d)
  PROVE  Step
  <1> DEFINE s == [state |-> "provisioning", data |-> d, seal |-> NoKey,
                   sound |-> TRUE]
             op == "setupFundingSource"
  <1>1. Sealed(s)
    BY DEF Sealed, SourceType
  <1>2. CASE /\ \E n \in Nulls(op, {s}) :
                  Succeeds(op, n, ProvisionalOutcome(s), FALSE)
             /\ told' = told \cup {j \in {i} : ProvisionalOutcome(s) = "result"}
             /\ lost' = lost
    <2>1. Acted /\ last'.op = op
      <3>1. PICK n \in Nulls(op, {s}) :
              Succeeds(op, n, ProvisionalOutcome(s), FALSE)
        BY <1>2
      <3>2. last'.op = op /\ last'.outcome \in {ProvisionalOutcome(s), "broken"}
        BY <3>1, Ends
      <3> QED BY <3>2, ReadOutcomes DEF Acted, Acting, Undocumented
    <2>2. i \in told' \/ ~Recognised(s.data)
      BY <1>2, RecognisedDecodes
    <2>3. Became(i, s)
      BY <1>1, <2>2 DEF Became, setupFundingSourceCall
    <2>4. Bounded
      BY <1>2, <2>1 DEF Bounded, Makes, setupFundingSourceCall, IInv, TypeOK
    <2> QED BY <2>1, <2>3, <2>4 DEF Step
  <1>3. CASE /\ \E r \in Losses : Fails(op, {}, r, FALSE)
             /\ lost' = lost \cup {<<i, op>>}
             /\ told' = told
    <2>1. Acted /\ last'.op = op
      BY <1>3, Ends, LostOutcomes DEF Acted, Acting
    <2>2. Became(i, s)
      BY <1>1, <1>3 DEF Became, setupFundingSourceCall
    <2>3. Bounded
      BY <1>3, <2>1 DEF Bounded, Makes, setupFundingSourceCall, IInv, TypeOK
    <2> QED BY <2>1, <2>2, <2>3 DEF Step
  <1> QED BY <1>2, <1>3 DEF setupFundingSourceCall

LEMMA CancelProvisionalStep ==
  ASSUME IInv, NEW i \in Ids, cancelProvisionalFundingSourceCall(i)
  PROVE  Step
  <1> DEFINE s == [source[i] EXCEPT !.state = "failed"]
             op == "cancelProvisionalFundingSource"
  <1>1. last'.op = op /\ op \in Operations
    BY Ends DEF cancelProvisionalFundingSourceCall, Makes
  <1>2. Bounded
    BY <1>1 DEF Bounded, cancelProvisionalFundingSourceCall, IInv, TypeOK
  <1>3. CASE source[i].state \in Unfinished
    <2>1. Acted
      <3>1. CASE \E n \in Nulls(op, {source[i]}) :
                   Succeeds(op, n, ProvisionalOutcome(source[i]), FALSE)
        <4>1. PICK n : Succeeds(op, n, ProvisionalOutcome(source[i]), FALSE)
          BY <3>1
        <4>2. last'.outcome \in {ProvisionalOutcome(source[i]), "broken"}
          BY <4>1, Ends
        <4> QED BY <1>1, <4>2, ReadOutcomes DEF Acted, Acting, Undocumented
      <3>2. CASE \E r \in Losses : Fails(op, {}, r, FALSE)
        BY <1>1, <3>2, Ends, LostOutcomes DEF Acted, Acting
      <3> QED BY <1>3, <3>1, <3>2 DEF cancelProvisionalFundingSourceCall
    <2>2. Sealed(s) /\ s.state = "failed" /\ s.data = source[i].data
      BY <1>3, SealedStates DEF IInv, TypeOK
    <2>3. source' = [source EXCEPT ![i] = s] /\ cards' = cards
      BY <1>3 DEF cancelProvisionalFundingSourceCall
    <2>4. Became(i, s)
      BY <1>3, <2>2, <2>3 DEF Became
    <2> QED BY <1>2, <2>1, <2>4 DEF Step
  <1>4. CASE source[i].state \notin Unfinished
    BY <1>2, <1>4 DEF Step, Rests, cancelProvisionalFundingSourceCall
  <1> QED BY <1>3, <1>4

\* The keys in use while a call reads them.
LEMMA MeanwhileKeys ==
  ASSUME IInv, NEW h \in Meanwhile
  PROVE  h \subseteq Keys \cup {NoKey}
  BY DEF Meanwhile, IInv, TypeOK

\* An answer about source i, which became s, whatever the call was.
LEMMA AnswerStep ==
  ASSUME IInv, NEW i \in Ids, NEW s, NEW op \in Operations \cap Acting, NEW fits,
         Tells(op, i, s, fits), UNCHANGED <<cards, key, told>>,
         source' = [source EXCEPT ![i] = s], Sealed(s),
         source[i].state # "none", s.state # "none", s.data = source[i].data,
         op = "completeFundingSource" /\ held' = {key} =>
           FundingSourceOutcome(s, key) = "result" \/ (IsBankAccount(s) /\ ~s.sound),
         op # "completeFundingSource" =>
           source[i].state \in Finished /\ s.sound = source[i].sound
  PROVE  Step
  <1>1. /\ Acted /\ last'.op = op /\ held' \in Meanwhile
        /\ known' \in {known, known \cup {i}}
    BY Telling DEF Acted
  <1>2. \/ lost' = lost
        \/ \E why \in {"completeFundingSource", "changeKeys"} :
             lost' = lost \cup {<<i, why>>}
    BY Telling
  <1>3. Bounded
    BY <1>1, <1>2, MeanwhileKeys DEF Bounded, IInv, TypeOK
  <1>4. op = "completeFundingSource" =>
          \/ i \in known' \/ <<i, "completeFundingSource">> \in lost'
          \/ IsBankAccount(s) /\ (~s.sound \/ <<i, "changeKeys">> \in lost')
    BY Telling DEF FundingSourceOutcome
  <1>5. Became(i, s)
    BY <1>4 DEF Became
  <1> QED BY <1>1, <1>3, <1>5 DEF Step

\* A call that is refused or not sent.
LEMMA RefusedStep ==
  ASSUME IInv, NEW op \in Operations, last'.op = op,
         UNCHANGED <<source, cards, key, told, known, lost, held>>
  PROVE  Step
  BY DEF Step, Bounded, Rests, IInv, TypeOK

LEMMA CompleteStep ==
  ASSUME IInv, NEW i \in Ids, NEW c \in Completions, completeFundingSourceCall(i, c)
  PROVE  Step
  <1> DEFINE op == "completeFundingSource"
             s == source[i]
             e == EncodeCompletion(c)
             fits == i \in told /\ c \in CompletionsFor(DecodeProvisioning(s.data))
  <1> USE DEF completeFundingSourceCall, Makes
  <1>1. op \in Operations /\ UNCHANGED <<cards, key, told>>
    OBVIOUS
  <1>2. CASE NotSent(op, e, fits) /\ Untold
    BY <1>1, <1>2, Ends, RefusedStep DEF Untold
  <1>3. CASE (\E code, info : Fails(op, {}, Refused(code, "result", info), fits))
             /\ Untold
    <2>1. last'.op = op
      BY <1>3, Ends
    <2> QED BY <1>1, <1>3, <2>1, RefusedStep DEF Untold
  <1>4. ASSUME s.state = "provisioning", Matches(e, s.data),
               NEW sound \in IF IsBankAccount(s) THEN BOOLEAN ELSE {TRUE},
               NEW named \in IF NeedsKey(c) THEN Keys ELSE {NoKey},
               source' = [source EXCEPT ![i] = Completed(s, sound, named)],
               Tells(op, i, Completed(s, sound, named), fits),
               NeedsKey(c) => named \in held'
        PROVE  Step
    <2> DEFINE new == Completed(s, sound, named)
    <2>1. Sealed(s) /\ sound \in BOOLEAN
      BY DEF IInv, TypeOK
    <2>2. Sealed(new)
      BY <1>4, <2>1, CompletionSeals
    <2>3. /\ new.state = "active" /\ new.data = s.data /\ new.sound = sound
          /\ IsBankAccount(s) => new.seal = named
      BY <2>1 DEF Completed, Sealed, SourceType
    <2>4. IsBankAccount(s) => named \in Keys
      BY <2>2, <2>3, KeysAssumption DEF Sealed, SourceType, IsBankAccount
    <2>5. held' = {key} =>
            FundingSourceOutcome(new, key) = "result" \/ (IsBankAccount(new) /\ ~new.sound)
      BY <1>4, <2>3, <2>4, KeysAssumption DEF FundingSourceOutcome, IsBankAccount
    <2>6. op \in Operations \cap Acting
      BY <1>1 DEF Acting
    <2> HIDE DEF new, fits
    <2> QED BY <1>1, <1>4, <2>2, <2>3, <2>5, <2>6, AnswerStep DEF new, fits
  <1>5. \/ NotSent(op, e, fits) /\ Untold
        \/ (\E code, info : Fails(op, {}, Refused(code, "result", info), fits))
           /\ Untold
        \/ /\ s.state = "provisioning" /\ Matches(e, s.data)
           /\ \E sound \in IF IsBankAccount(s) THEN BOOLEAN ELSE {TRUE},
                 named \in IF NeedsKey(c) THEN Keys ELSE {NoKey} :
                /\ source' = [source EXCEPT ![i] = Completed(s, sound, named)]
                /\ Tells(op, i, Completed(s, sound, named), fits)
                /\ NeedsKey(c) => named \in held'
    OBVIOUS
  <1> QED BY <1>2, <1>3, <1>4, <1>5

LEMMA RefreshStep ==
  ASSUME IInv, NEW i \in Ids, NEW r \in Refreshments, refreshFundingSourceCall(i, r)
  PROVE  Step
  <1> DEFINE op == "refreshFundingSource"
             s == source[i]
             e == EncodeRefresh(r)
             resealed(seal) == [s EXCEPT !.state = "active", !.seal = seal]
  <1> USE DEF refreshFundingSourceCall, Makes
  <1>1. op \in Operations /\ UNCHANGED <<cards, key, told>>
    OBVIOUS
  <1>2. op \in Operations \cap Acting /\ Sealed(s) /\ s \in SourceType
    BY <1>1 DEF Acting, IInv, Sealed
  <1>3. CASE NotSent(op, e, FALSE) /\ Untold
    BY <1>1, <1>3, Ends, RefusedStep DEF Untold
  <1>4. CASE (\E code, info : Fails(op, {}, Refused(code, "result", info), FALSE))
             /\ Untold
    <2>1. last'.op = op
      BY <1>4, Ends
    <2> QED BY <1>1, <1>4, <2>1, RefusedStep DEF Untold
  <1>5. CASE /\ s.state \in {"active", "inactive"}
             /\ Tells(op, i, s, FALSE) /\ source' = source
    <2>1. source' = [source EXCEPT ![i] = s]
      BY <1>5 DEF IInv, TypeOK
    <2> QED BY <1>1, <1>2, <1>5, <2>1, AnswerStep
  <1>6. ASSUME s.state = "refresh", NEW seal \in {s.seal} \cup Keys,
               source' = [source EXCEPT ![i] = resealed(seal)],
               Tells(op, i, resealed(seal), FALSE)
        PROVE  Step
    <2>1. seal \in Keys /\ IsBankAccount(s)
      BY <1>2, <1>6 DEF Sealed, SourceType
    <2>2. Sealed(resealed(seal))
      BY <1>2, <1>6, <2>1, SealedStates
    <2>3. /\ resealed(seal).state = "active" /\ resealed(seal).data = s.data
          /\ resealed(seal).sound = s.sound
      BY <1>2 DEF SourceType
    <2> HIDE DEF resealed
    <2> QED BY <1>1, <1>2, <1>6, <2>2, <2>3, AnswerStep
  <1>7. \/ NotSent(op, e, FALSE) /\ Untold
        \/ (\E code, info : Fails(op, {}, Refused(code, "result", info), FALSE))
           /\ Untold
        \/ /\ s.state \in {"active", "inactive"}
           /\ Tells(op, i, s, FALSE) /\ source' = source
        \/ /\ s.state = "refresh"
           /\ \E seal \in {s.seal} \cup Keys :
                /\ source' = [source EXCEPT ![i] = resealed(seal)]
                /\ Tells(op, i, resealed(seal), FALSE)
    OBVIOUS
  <1> QED BY <1>3, <1>4, <1>5, <1>6, <1>7

LEMMA ChangeStep ==
  ASSUME IInv, NEW i \in Ids, NEW op \in ByIdAlone, changeFundingSourceCall(op, i)
  PROVE  Step
  <1> DEFINE s == source[i]
             new == [s EXCEPT !.state = Moved(op, s)]
             takes == /\ s.state \in Finished
                      /\ op = "sandboxSetFundingSourceToRequireRefresh"
                           => IsBankAccount(s)
  <1> USE DEF changeFundingSourceCall, Makes
  <1>1. /\ op \in Operations /\ op \in Acting /\ op # "completeFundingSource"
        /\ UNCHANGED <<cards, key, told>>
    BY DEF Acting, ByIdAlone
  <1>2. CASE takes
    <2>1. Sealed(s) /\ s \in SourceType
      BY DEF IInv, Sealed
    <2>2. Sealed(new)
      BY <1>2, <2>1, SealedStates
    <2>3. /\ new.state \in Finished /\ new.data = s.data /\ new.sound = s.sound
      BY <1>2, <2>1 DEF SourceType, Moved
    <2>4. source' = [source EXCEPT ![i] = new] /\ Tells(op, i, new, FALSE)
      BY <1>2
    <2> HIDE DEF new
    <2> QED BY <1>1, <1>2, <2>2, <2>3, <2>4, AnswerStep
  <1>3. CASE ~takes
    <2>1. /\ Fails(op, {}, Refused("FundingSourceNotFoundError", "result", NoInfo),
                   FALSE)
          /\ Untold
      BY <1>3
    <2>2. last'.op = op
      BY <2>1, Ends
    <2> QED BY <1>1, <2>1, <2>2, RefusedStep DEF Untold
  <1> QED BY <1>2, <1>3

LEMMA GetStep ==
  ASSUME IInv, NEW i \in Ids, getFundingSourceCall(i)
  PROVE  Step
  <1> DEFINE op == "getFundingSource"
  <1>1. op \in Operations /\ UNCHANGED <<cards, key, told>>
    BY DEF getFundingSourceCall, Makes
  <1>2. CASE Tells(op, i, source[i], FALSE) /\ source' = source
    <2>1. op # "completeFundingSource"
      OBVIOUS
    <2> HIDE DEF op
    <2>2. lost' = lost /\ last'.op = op /\ held' \in Meanwhile
      BY <1>2, <2>1, Telling
    <2>3. known' \in {known, known \cup {i}}
      BY <1>2, <2>1, Telling
    <2> QED BY <1>1, <1>2, <2>2, <2>3, MeanwhileKeys
            DEF Step, Bounded, Rests, IInv, TypeOK
  <1>3. CASE Succeeds(op, {<<>>}, "absent", FALSE) /\ Untold
    <2>1. last'.op = op
      BY <1>3, Ends
    <2> QED BY <1>1, <1>3, <2>1, RefusedStep DEF Untold
  <1> QED BY <1>2, <1>3 DEF getFundingSourceCall

LEMMA ListStep ==
  ASSUME IInv, listProvisionalFundingSourcesCall \/ listFundingSourcesCall
  PROVE  Step
  <1>1. CASE listProvisionalFundingSourcesCall
    <2>1. last'.op = "listProvisionalFundingSources"
      BY <1>1, Ends DEF listProvisionalFundingSourcesCall
    <2> QED BY <1>1, <2>1
            DEF Step, Bounded, Rests, IInv, TypeOK, In, Makes,
                listProvisionalFundingSourcesCall
  <1>2. CASE listFundingSourcesCall
    <2>1. last'.op = "listFundingSources" /\ held' \in Meanwhile
      BY <1>2, Ends DEF listFundingSourcesCall
    <2>2. known \subseteq known' /\ known' \subseteq known \cup In(Finished)
      BY <1>2 DEF listFundingSourcesCall
    <2> QED BY <1>2, <2>1, <2>2, MeanwhileKeys
            DEF Step, Bounded, Rests, IInv, TypeOK, In, Makes, listFundingSourcesCall
  <1> QED BY <1>1, <1>2

LEMMA ProvisionStep ==
  ASSUME IInv, NEW i \in Ids, provisionVirtualCardCall(i)
  PROVE  Step
  <1> DEFINE op == "provisionVirtualCard"
  <1> USE DEF provisionVirtualCardCall, Makes
  <1>1. Provisioned
    BY CardsAssumption DEF Provisioned, IInv, TypeOK
  <1>2. Acted /\ last'.op = op
    <2>1. CASE \E n \in Nulls(op, {None}) : Succeeds(op, n, "result", FALSE)
      BY <2>1, Ends DEF Acted, Acting, Undocumented
    <2>2. CASE \E r \in Losses : Fails(op, {}, r, FALSE)
      BY <2>2, Ends, LostOutcomes DEF Acted, Acting
    <2> QED BY <2>1, <2>2
  <1> QED BY <1>1, <1>2 DEF Step, Bounded, IInv, TypeOK

LEMMA KeysStep ==
  ASSUME IInv, changeKeys \/ goOn
  PROVE  Step
  BY DEF changeKeys, goOn, NoCall, Call, Step, Bounded, Rests, IInv, TypeOK

LEMMA EveryStep ==
  ASSUME IInv, Next
  PROVE  Step
  BY QuietStep, SetupStep, CompleteStep, RefreshStep, ChangeStep, GetStep,
     CancelProvisionalStep, ProvisionStep, ListStep, KeysStep DEF Next

-----------------------------------------------------------------------------
(* The invariants.                                                         *)

LEMMA StepSealed ==
  ASSUME IInv, Step
  PROVE  IInv'
  <1>1. CASE Rests
    BY <1>1 DEF Step, Bounded, Rests, IInv, TypeOK, Sealed, IsBankAccount
  <1>2. CASE \E i \in Ids : \E s : Became(i, s)
    <2>1. PICK i \in Ids : \E s : Became(i, s)
      BY <1>2
    <2>2. PICK s : Became(i, s)
      BY <2>1
    <2>3. /\ source' = [source EXCEPT ![i] = s] /\ Sealed(s)
          /\ source \in [Ids -> SourceType]
      BY <2>2 DEF Became, IInv, TypeOK, SourceType
    <2>4. /\ source' \in [Ids -> SourceType]
          /\ \A j \in Ids : source'[j] \in {source[j], s}
      BY <2>3 DEF Sealed
    <2>5. \A j \in Ids : Sealed(source'[j])
      BY <2>3, <2>4 DEF IInv
    <2>6. cards' = cards
      BY <2>2 DEF Became
    <2> QED BY <2>4, <2>5, <2>6
            DEF Step, Bounded, IInv, TypeOK, Sealed, SourceType, IsBankAccount
  <1>3. CASE Provisioned
    BY <1>3 DEF Step, Bounded, Provisioned, IInv, TypeOK, Sealed, IsBankAccount
  <1> QED BY <1>1, <1>2, <1>3 DEF Step

LEMMA Initially ==
  ASSUME Init
  PROVE  IInv
  BY CardsAssumption
     DEF Init, IInv, TypeOK, Sealed, SourceType, None, NoCall, Call, IsBankAccount,
         Undecodable, Data, Absent

LEMMA Invariant == Spec => []IInv
  <1>1. ASSUME IInv, [Next]_vars
        PROVE  IInv'
    <2>1. CASE Next
      BY <1>1, <2>1, EveryStep, StepSealed
    <2>2. CASE UNCHANGED vars
      BY <1>1, <2>2 DEF vars, IInv, TypeOK, Sealed, IsBankAccount
    <2> QED BY <1>1, <2>1, <2>2
  <1> QED BY <1>1, Initially, PTL DEF Spec

\* The variables have their types, and just the bank accounts that were completed
\* are sealed with a key (completeFundingSource and refreshFundingSource of
\* DefaultFundingSourceService look for the key before they send anything).
THEOREM TypeCorrect == Spec => []TypeOK
  <1>1. IInv => TypeOK
    BY DEF IInv
  <1> QED BY <1>1, Invariant, PTL

\* A call that ends with an error documented for it has changed nothing at the
\* service (MapGraphQLCallError of apiClient.ts keeps the lost answers apart).
THEOREM DocumentedUnacted == Spec => DocumentedMeansUnacted
  <1> DEFINE A == last'.outcome \in DocumentedErrors(last'.op) => UNCHANGED service
  <1>1. ASSUME IInv, [Next]_vars
        PROVE  [A]_vars
    <2>1. CASE Next
      <3>1. Step
        BY <1>1, <2>1, EveryStep
      <3>2. CASE Acted
        BY <3>2, UndocumentedOutcomes DEF Acted
      <3>3. CASE Rests
        BY <3>3 DEF Rests, service
      <3> QED BY <3>1, <3>2, <3>3 DEF Step
    <2>2. CASE UNCHANGED vars
      BY <2>2
    <2> QED BY <1>1, <2>1, <2>2
  <1> QED BY <1>1, Invariant, PTL DEF Spec, DocumentedMeansUnacted

LEMMA StepExplained ==
  ASSUME IInv, OrphanExplained, Step
  PROVE  OrphanExplained'
  <1>1. CASE source' = source
    BY <1>1 DEF Step, Bounded, OrphanExplained
  <1>2. CASE \E i \in Ids : \E s : Became(i, s)
    <2>1. PICK i \in Ids : \E s : Became(i, s)
      BY <1>2
    <2>2. PICK s : Became(i, s)
      BY <2>1
    <2>3. /\ source' = [source EXCEPT ![i] = s] /\ source'[i] = s
          /\ \A j \in Ids \ {i} : source'[j] = source[j]
      BY <2>2 DEF Became, IInv, TypeOK
    <2>4. \A j \in Ids \ {i} :
            /\ source'[j].state # "none" /\ j \notin told' =>
                 <<j, "setupFundingSource">> \in lost' \/ ~Recognised(source'[j].data)
            /\ source'[j].state \in Finished /\ j \notin known' =>
                 \/ <<j, "completeFundingSource">> \in lost'
                 \/ IsBankAccount(source'[j])
                    /\ (~source'[j].sound \/ <<j, "changeKeys">> \in lost')
      BY <2>3 DEF Step, Bounded, OrphanExplained
    <2>5. /\ i \notin told' =>
               <<i, "setupFundingSource">> \in lost' \/ ~Recognised(s.data)
          /\ s.state \in Finished /\ i \notin known' =>
               \/ <<i, "completeFundingSource">> \in lost'
               \/ IsBankAccount(s) /\ (~s.sound \/ <<i, "changeKeys">> \in lost')
      <3>1. lost \subseteq lost' /\ known \subseteq known' /\ told \subseteq told'
        BY DEF Step, Bounded
      <3>2. i \in Ids /\ s.state # "none"
        BY <2>2 DEF Became
      <3>3. /\ source[i].state # "none" /\ i \notin told =>
                 <<i, "setupFundingSource">> \in lost \/ ~Recognised(source[i].data)
            /\ source[i].state \in Finished /\ i \notin known =>
                 \/ <<i, "completeFundingSource">> \in lost
                 \/ IsBankAccount(source[i])
                    /\ (~source[i].sound \/ <<i, "changeKeys">> \in lost)
        BY <3>2 DEF OrphanExplained
      <3> QED BY <2>2, <3>1, <3>3 DEF Became, IsBankAccount
    <2>6. ASSUME NEW j \in Ids
          PROVE  /\ source'[j].state # "none" /\ j \notin told' =>
                      <<j, "setupFundingSource">> \in lost' \/ ~Recognised(source'[j].data)
                 /\ source'[j].state \in Finished /\ j \notin known' =>
                      \/ <<j, "completeFundingSource">> \in lost'
                      \/ IsBankAccount(source'[j])
                         /\ (~source'[j].sound \/ <<j, "changeKeys">> \in lost')
      <3>1. CASE j = i
        BY <2>3, <2>5, <3>1
      <3>2. CASE j # i
        BY <2>4, <3>2
      <3> QED BY <3>1, <3>2
    <2> QED BY <2>6 DEF OrphanExplained, IsBankAccount
  <1> QED BY <1>1, <1>2 DEF Step, Rests, Provisioned

\* Whatever the service holds, the host was told of, or the answer was lost or
\* could not be read, for what it says or for the keys having changed while a bank
\* account was completed (the service's answers through unsealFundingSource and the
\* provisioning data decoder).
THEOREM Explained == Spec => []OrphanExplained
  <1>1. Init => OrphanExplained
    BY DEF Init, OrphanExplained, None
  <1>2. ASSUME IInv, OrphanExplained, [Next]_vars
        PROVE  OrphanExplained'
    <2>1. CASE Next
      BY <1>2, <2>1, EveryStep, StepExplained
    <2>2. CASE UNCHANGED vars
      BY <1>2, <2>2 DEF vars, OrphanExplained
    <2> QED BY <1>2, <2>1, <2>2
  <1> QED BY <1>1, <1>2, Invariant, PTL DEF Spec

-----------------------------------------------------------------------------
(* What the host is told.                                                  *)

\* Completions are the only calls that can fit.
LEMMA OthersDoNotFit ==
  ASSUME Next
  PROVE  \/ ~last'.fits
         \/ \E i \in Ids : \E c \in Completions : completeFundingSourceCall(i, c)
  <1>1. ASSUME NEW op \in Operations, Refuse(op) \/ Unheard(op) \/ Look(op)
        PROVE  ~last'.fits
    BY <1>1 DEF Refuse, Unheard, Look, Fails, Succeeds, Call
  <1>2. ASSUME NEW i \in Ids, NEW d \in Provisioning, setupFundingSourceCall(i, d)
        PROVE  ~last'.fits
    BY <1>2 DEF setupFundingSourceCall, Fails, Succeeds, Call
  <1>3. ASSUME NEW i \in Ids, NEW r \in Refreshments, refreshFundingSourceCall(i, r)
        PROVE  ~last'.fits
    <2>1. \/ \E op, e : NotSent(op, e, FALSE)
          \/ \E op, a : Fails(op, {}, a, FALSE)
          \/ \E op, s : Tells(op, i, s, FALSE)
      BY <1>3 DEF refreshFundingSourceCall
    <2> QED BY <2>1, Ends, Telling
  <1>4. ASSUME NEW i \in Ids, NEW op \in ByIdAlone, changeFundingSourceCall(op, i)
        PROVE  ~last'.fits
    BY <1>4 DEF changeFundingSourceCall, Fails, Tells, Succeeds, Call
  <1>5. ASSUME NEW i \in Ids,
               \/ getFundingSourceCall(i) \/ cancelProvisionalFundingSourceCall(i)
               \/ provisionVirtualCardCall(i)
        PROVE  ~last'.fits
    BY <1>5 DEF getFundingSourceCall, cancelProvisionalFundingSourceCall,
                provisionVirtualCardCall, Fails, Tells, Succeeds, Call
  <1>6. ASSUME listProvisionalFundingSourcesCall \/ listFundingSourcesCall
        PROVE  ~last'.fits
    <2>1. \E op, n, o : Succeeds(op, n, o, FALSE)
      BY <1>6 DEF listProvisionalFundingSourcesCall, listFundingSourcesCall
    <2> QED BY <2>1 DEF Succeeds, Call
  <1>7. ASSUME changeKeys \/ goOn
        PROVE  ~last'.fits
    BY <1>7 DEF changeKeys, goOn, NoCall, Call
  <1> QED BY <1>1, <1>2, <1>3, <1>4, <1>5, <1>6, <1>7 DEF Next

\* The class of an error the service reported, and that it is not unsent.
LEMMA RefusedClass ==
  ASSUME NEW f, NEW info
  PROVE  /\ \A c : Refused(c, f, info) # Unsent
         /\ \A c \in ClassNames : MapGraphQLCallError(Refused(c, f, info)) = c
         /\ \A c \in CommonErrors :
              Typed(f) => MapGraphQLCallError(Refused(c, f, info)) = c
         /\ MapGraphQLCallError(Refused(Interaction, f, info)) =
              IF Typed(f) /\ DecodeInteraction(info) # Undecodable
              THEN Interaction ELSE "FatalError"
  <1>1. DOMAIN ErrorClass = ClassNames \cup {"DynamoDB:ConditionalCheckFailedException",
                                             "FundingSourceNotSetupErrorCode"}
    BY DEF ErrorClass, OtherNames
  <1>2. \A c \in ClassNames : ErrorClass[c] = c
    BY DEF ErrorClass
  <1>3. \A c : Refused(c, f, info) # Unsent
    BY DEF Refused, Reply, Unsent, Plain
  <1>4. \A c : MapGraphQLCallError(Refused(c, f, info)) = ToClientError(Refused(c, f, info))
    BY DEF Refused, Reply, MapGraphQLCallError
  <1>5. \A c \in ClassNames : ToClientError(Refused(c, f, info)) = c
    BY <1>1, <1>2 DEF Refused, Reply, ToClientError
  <1>6. \A c \in CommonErrors : Typed(f) => ToClientError(Refused(c, f, info)) = c
    BY <1>1 DEF Refused, Reply, ToClientError, MapGraphQLToClientError, CommonErrors,
                Interaction, ClassNames
  <1>7. ToClientError(Refused(Interaction, f, info)) =
          IF Typed(f) /\ DecodeInteraction(info) # Undecodable
          THEN Interaction ELSE "FatalError"
    BY <1>1 DEF Refused, Reply, ToClientError, Interaction, ClassNames
  <1> QED BY <1>3, <1>4, <1>5, <1>6, <1>7

\* What CompletionsFor tells the host to send is encoded, and matches.
LEMMA FittingMatches ==
  ASSUME NEW d, NEW c \in Completions, c \in CompletionsFor(DecodeProvisioning(d))
  PROVE  /\ EncodeCompletion(c) # Undecodable
         /\ Matches(EncodeCompletion(c), d)
  <1> USE DEF Completions, CompletionsFor, DecodeProvisioning, EncodeCompletion,
              IsStripeCardCompletion, IsCheckoutBankAccountCompletion,
              TypeOrDefault, Data, Absent, Undecodable
  <1>1. CASE StripeCodec(d)
    BY <1>1 DEF StripeCodec, Matches
  <1>2. CASE ~StripeCodec(d) /\ CheckoutCodec(d)
    BY <1>2 DEF CheckoutCodec, Matches
  <1>3. CASE ~StripeCodec(d) /\ ~CheckoutCodec(d)
    BY <1>3
  <1> QED BY <1>1, <1>2, <1>3

\* Completing a funding source with the data it was set up with, the type of a
\* card's left out or not, is not refused for these data, by the service or the
\* SDK (completeFundingSource of DefaultFundingSourceService).
THEOREM Fits == Spec => []CompletionFits
  <1>1. Init => CompletionFits
    BY DEF Init, CompletionFits, NoCall, Call
  <1>2. ASSUME CompletionFits, [Next]_vars
        PROVE  CompletionFits'
    <2>1. CASE UNCHANGED vars
      BY <1>2, <2>1 DEF vars, CompletionFits
    <2>2. CASE ~last'.fits
      BY <2>2 DEF CompletionFits
    <2>3. ASSUME NEW i \in Ids, NEW c \in Completions,
                 completeFundingSourceCall(i, c), last'.fits
          PROVE  CompletionFits'
      <3> DEFINE op == "completeFundingSource"
                 s == source[i]
                 e == EncodeCompletion(c)
                 fits == i \in told /\ c \in CompletionsFor(DecodeProvisioning(s.data))
      <3>1. \/ NotSent(op, e, fits)
            \/ Fails(op, {}, Refused("ProvisionalFundingSourceNotFoundError", "result",
                                     NoInfo), fits)
            \/ /\ ~Matches(e, s.data)
               /\ Fails(op, {}, Refused("FundingSourceCompletionDataInvalidError",
                                        "result", NoInfo), fits)
            \/ \E info \in Infos : Fails(op, {}, Refused(Interaction, "result", info), fits)
            \/ \E new : Tells(op, i, new, fits)
        BY <2>3 DEF completeFundingSourceCall
      <3>2. fits
        BY <2>3, <3>1, Ends, Telling
      <3>3. e # Undecodable /\ Matches(e, s.data)
        BY <3>2, FittingMatches
      <3> HIDE DEF e, fits, op
      <3>4. CASE NotSent(op, e, fits)
        <4>1. last'.outcome = "KeyNotFoundError"
          BY <3>3, <3>4, Ends
        <4> QED BY <4>1 DEF CompletionFits
      <3>5. CASE Fails(op, {}, Refused("ProvisionalFundingSourceNotFoundError", "result",
                                       NoInfo), fits)
        <4>1. /\ last'.outcome = "ProvisionalFundingSourceNotFoundError"
              /\ last'.reply # Unsent
          BY <3>5, Ends, RefusedClass DEF ClassNames
        <4> QED BY <4>1 DEF CompletionFits
      <3>6. CASE \E info \in Infos :
                   Fails(op, {}, Refused(Interaction, "result", info), fits)
        <4>1. PICK info \in Infos :
                Fails(op, {}, Refused(Interaction, "result", info), fits)
          BY <3>6
        <4> DEFINE r == Refused(Interaction, "result", info)
        <4>a. last'.reply = r /\ last'.outcome = MapGraphQLCallError(r)
          BY <4>1, Ends
        <4>b. r # Unsent /\ MapGraphQLCallError(r) \in {Interaction, "FatalError"}
          BY RefusedClass
        <4>2. last'.outcome \in {Interaction, "FatalError"} /\ last'.reply # Unsent
          BY <4>a, <4>b
        <4> QED BY <4>2 DEF CompletionFits, Interaction
      <3>7. CASE \E new : Tells(op, i, new, fits)
        <4>1. PICK new : Tells(op, i, new, fits)
          BY <3>7
        <4>2. last'.outcome \in Undocumented
          BY <4>1, Telling
        <4>3. last'.reply # Unsent
          <5>1. Answered # Unsent /\ Unsent \notin Losses
            BY DEF Answered, Unsent, Losses, Unanswered, Plain, Reply
          <5>2. last'.reply = Answered \/ last'.reply \in Losses
            BY <4>1, Ends DEF Tells
          <5> QED BY <5>1, <5>2
        <4> QED BY <4>2, <4>3 DEF CompletionFits, Undocumented
      <3> QED BY <3>1, <3>3, <3>4, <3>5, <3>6, <3>7
    <2> QED BY <1>2, <2>1, <2>2, <2>3, OthersDoNotFit
  <1> QED BY <1>1, <1>2, PTL DEF Spec

\* Calls other than the two lists.
LEMMA OthersAreNoLists ==
  ASSUME Next
  PROVE  \/ last'.op \notin {"listFundingSources", "listProvisionalFundingSources"}
         \/ last'.reply # Answered
         \/ listProvisionalFundingSourcesCall \/ listFundingSourcesCall
  <1> DEFINE Lists == {"listFundingSources", "listProvisionalFundingSources"}
             Another == last'.op \notin Lists \/ last'.reply # Answered
  <1>1. ASSUME NEW op \in Operations, Refuse(op) \/ Unheard(op) \/ Look(op)
        PROVE  Another
    <2>1. \A r \in Refusals \cup Unanswered : r # Answered
      BY DEF Refusals, Unanswered, Refused, Answered, Plain, Reply
    <2>2. Refused("ServiceError", "result", NoInfo) # Answered
      BY DEF Refused, Answered, Plain, Reply
    <2>3. CASE Refuse(op) \/ Unheard(op)
      <3>1. \E g, r : Fails(op, g, r, FALSE) /\ r # Answered
        BY <2>1, <2>2, <2>3 DEF Refuse, Unheard
      <3> QED BY <3>1, Ends
    <2>4. CASE Look(op)
      <3>1. op \notin Lists
        BY <2>4 DEF Look, FundingSourceCalls
      <3>2. \E n, o : Succeeds(op, n, o, FALSE)
        BY <2>4 DEF Look
      <3> QED BY <3>1, <3>2, Ends
    <2> QED BY <1>1, <2>3, <2>4
  <1>2. ASSUME NEW i \in Ids, NEW d \in Provisioning, setupFundingSourceCall(i, d)
        PROVE  Another
    BY <1>2 DEF setupFundingSourceCall, Fails, Succeeds, Call
  <1>3. ASSUME NEW i \in Ids, NEW c \in Completions, completeFundingSourceCall(i, c)
        PROVE  Another
    <2>1. \/ \E e, fits : NotSent("completeFundingSource", e, fits)
          \/ \E r, fits : Fails("completeFundingSource", {}, r, fits)
          \/ \E s, fits : Tells("completeFundingSource", i, s, fits)
      BY <1>3 DEF completeFundingSourceCall
    <2>2. last'.op = "completeFundingSource"
      BY <2>1, Ends, Telling
    <2> QED BY <2>2
  <1>4. ASSUME NEW i \in Ids, NEW r \in Refreshments, refreshFundingSourceCall(i, r)
        PROVE  Another
    <2>1. \/ \E e : NotSent("refreshFundingSource", e, FALSE)
          \/ \E a : Fails("refreshFundingSource", {}, a, FALSE)
          \/ \E s : Tells("refreshFundingSource", i, s, FALSE)
      BY <1>4 DEF refreshFundingSourceCall
    <2>2. last'.op = "refreshFundingSource"
      BY <2>1, Ends, Telling
    <2> QED BY <2>2
  <1>5. ASSUME NEW i \in Ids, NEW op \in ByIdAlone, changeFundingSourceCall(op, i)
        PROVE  Another
    BY <1>5 DEF changeFundingSourceCall, Fails, Tells, Succeeds, Call, ByIdAlone
  <1>6. ASSUME NEW i \in Ids,
               \/ getFundingSourceCall(i) \/ cancelProvisionalFundingSourceCall(i)
               \/ provisionVirtualCardCall(i)
        PROVE  Another
    BY <1>6 DEF getFundingSourceCall, cancelProvisionalFundingSourceCall,
                provisionVirtualCardCall, Fails, Tells, Succeeds, Call
  <1>7. ASSUME changeKeys \/ goOn
        PROVE  Another
    BY <1>7 DEF changeKeys, goOn, NoCall, Call
  <1> QED BY <1>1, <1>2, <1>3, <1>4, <1>5, <1>6, <1>7 DEF Next

\* A source that cannot be unsealed is a bank account, unsound or sealed with a
\* key other than the one in use at that moment.
LEMMA UnreadableSource ==
  ASSUME NEW s, NEW k, FundingSourceOutcome(s, k) # "result"
  PROVE  IsBankAccount(s) /\ (~s.sound \/ s.seal # k)
  BY DEF FundingSourceOutcome

LEMMA ListAllOrNone ==
  ASSUME NEW outcomes, NEW o \in ListOutcome(outcomes)
  PROVE  IF o = "result" THEN outcomes \subseteq {"result"} ELSE o \in outcomes
  BY DEF ListOutcome

\* A list tells of all there are, or fails for one that cannot be read
\* (listFundingSources and listProvisionalFundingSources of
\* DefaultFundingSourceService).
THEOREM TellsAll == Spec => []ListTellsAll
  <1>1. Init => ListTellsAll
    BY DEF Init, ListTellsAll, AnsweredList, NoCall, Call
  <1>2. ASSUME ListTellsAll, [Next]_vars
        PROVE  ListTellsAll'
    <2>1. CASE UNCHANGED vars
      BY <1>2, <2>1 DEF vars, ListTellsAll, AnsweredList, In, IsBankAccount
    <2>2. CASE last'.op \notin {"listFundingSources", "listProvisionalFundingSources"}
               \/ last'.reply # Answered
      BY <2>2 DEF ListTellsAll, AnsweredList
    <2>3. CASE listFundingSourcesCall
      <3> DEFINE op == "listFundingSources"
                 items == In(Finished)
      <3>1. PICK seen \in [items -> held'] :
              \E o \in ListOutcome({FundingSourceOutcome(source[i], seen[i]) :
                                      i \in items}) :
                /\ \E n : Succeeds(op, n, o, FALSE)
                /\ known' = known \cup
                     {i \in items : /\ o = "result"
                                    /\ FundingSourceOutcome(source[i], seen[i]) = "result"}
        BY <2>3 DEF listFundingSourcesCall
      <3> DEFINE outcomes == {FundingSourceOutcome(source[i], seen[i]) : i \in items}
      <3>2. PICK o \in ListOutcome(outcomes) :
              /\ \E n : Succeeds(op, n, o, FALSE)
              /\ known' = known \cup
                   {i \in items : /\ o = "result"
                                  /\ FundingSourceOutcome(source[i], seen[i]) = "result"}
        BY <3>1
      <3>3. last'.op = op /\ last'.outcome \in {o, "broken"}
        BY <3>2, Ends
      <3>4. source' = source
        BY <2>3 DEF listFundingSourcesCall
      <3>5. CASE o = "result"
        <4>1. outcomes \subseteq {"result"}
          BY <3>5, ListAllOrNone
        <4>2. items \subseteq known'
          BY <3>2, <3>5, <4>1
        <4> QED BY <3>3, <3>4, <3>5, <4>2 DEF ListTellsAll, AnsweredList, In
      <3>6. CASE o # "result"
        <4>1. PICK i \in items : FundingSourceOutcome(source[i], seen[i]) # "result"
          BY <3>6, ListAllOrNone
        <4>2. /\ IsBankAccount(source[i])
              /\ ~source[i].sound \/ source[i].seal # seen[i]
          BY <4>1, UnreadableSource
        <4>3. seen[i] \in held'
          BY <3>1, <4>1
        <4>4. ~source[i].sound \/ held' # {source[i].seal}
          BY <4>2, <4>3
        <4>5. i \in Ids /\ source[i].state \in Finished
          BY <4>1 DEF In
        <4> QED BY <3>3, <3>4, <3>6, <4>2, <4>4, <4>5
                DEF ListTellsAll, AnsweredList, IsBankAccount, In
      <3> QED BY <3>5, <3>6
    <2>4. CASE listProvisionalFundingSourcesCall
      <3> DEFINE op == "listProvisionalFundingSources"
                 items == Ids \ In({"none"})
                 outcomes == {ProvisionalOutcome(source[i]) : i \in items}
      <3>1. PICK o \in ListOutcome(outcomes) :
              /\ \E n : Succeeds(op, n, o, FALSE)
              /\ told' = told \cup
                   (IF o = "result"
                    THEN {i \in items : ProvisionalOutcome(source[i]) = "result"}
                    ELSE {})
        BY <2>4 DEF listProvisionalFundingSourcesCall
      <3>2. last'.op = op /\ last'.outcome \in {o, "broken"}
        BY <3>1, Ends
      <3>3. source' = source
        BY <2>4 DEF listProvisionalFundingSourcesCall
      <3>4. CASE o = "result"
        <4>1. items \subseteq told'
          BY <3>1, <3>4, ListAllOrNone
        <4> QED BY <3>2, <3>3, <3>4, <4>1 DEF ListTellsAll, AnsweredList, In
      <3>5. CASE o # "result"
        <4>1. PICK i \in items : ProvisionalOutcome(source[i]) # "result"
          BY <3>1, <3>5, ListAllOrNone
        <4>2. ~Recognised(source[i].data)
          BY <4>1, RecognisedDecodes
        <4>3. \E j \in (Ids \ In({"none"}))' : ~Recognised(source'[j].data)
          BY <3>3, <4>1, <4>2 DEF In
        <4> QED BY <3>2, <3>5, <4>3 DEF ListTellsAll, AnsweredList
      <3> QED BY <3>4, <3>5
    <2> QED BY <1>2, <2>1, <2>2, <2>3, <2>4, OthersAreNoLists
  <1> QED BY <1>1, <1>2, PTL DEF Spec

LEMMA DocumentedCodes ==
  ASSUME NEW op
  PROVE  DocumentedErrors(op) \ {Interaction}
           \subseteq ClassNames \cup CommonErrors \cup {"NotSignedInError"}
  BY DEF DocumentedErrors, Documented, AnyDocumented, Interaction, ClassNames,
         CommonErrors

LEMMA OnlyLinkDecodes ==
  ASSUME NEW info \in Infos
  PROVE  DecodeInteraction(info) # Undecodable <=> info = Link
  BY DEF Infos, DecodeInteraction, InteractionCodec, Link, Data, Undecodable, NoInfo,
         Garbled, LinkParts, StripeParts, Absent

\* An error the service may report.
Refusable(r) ==
  \E code \in Codes, f \in Forms, info \in Infos : r = Refused(code, f, info)

LEMMA RefusalReported ==
  ASSUME NEW op, NEW g, NEW r, NEW fits, Refusable(r), Fails(op, g, r, fits)
  PROVE  RefusalsExplained'
  <1>1. PICK code \in Codes, f \in Forms, info \in Infos : r = Refused(code, f, info)
    BY DEF Refusable
  <1>2. r.code = code /\ r.form = f /\ r.info = info
    BY <1>1 DEF Refused, Reply
  <1>3. /\ last'.op = op /\ last'.reply = r
        /\ last'.outcome = MapGraphQLCallError(Refused(code, f, info))
    BY <1>1, Ends
  <1>4. code # "NotSignedInError"
    BY DEF Codes, ErrorClass, OtherNames, ClassNames, CommonErrors, Interaction
  <1>5. ASSUME NEW c \in DocumentedErrors(op) \ {Interaction}, code = c,
               c \in CommonErrors => Typed(f)
        PROVE  last'.outcome = c
    <2>1. CASE c \in ClassNames
      BY <1>3, <1>5, <2>1, RefusedClass
    <2>2. CASE c \in CommonErrors
      BY <1>3, <1>5, <2>2, RefusedClass
    <2> QED BY <1>4, <1>5, <2>1, <2>2, DocumentedCodes
  <1>6. ASSUME code = Interaction
        PROVE  last'.outcome = IF Typed(f) /\ info = Link THEN Interaction
                               ELSE "FatalError"
    BY <1>3, <1>6, RefusedClass, OnlyLinkDecodes
  <1> QED BY <1>2, <1>3, <1>5, <1>6 DEF RefusalsExplained

LEMMA OtherReplies ==
  ASSUME last'.reply \in Unanswered \cup {Answered, Unsent, Plain("none")}
  PROVE  RefusalsExplained'
  BY DEF RefusalsExplained, Unanswered, Answered, Unsent, Plain, Reply

LEMMA LossesUnanswered == Losses \subseteq Unanswered
  BY DEF Losses, Unanswered

LEMMA ToldReplies ==
  ASSUME NEW op, NEW i, NEW s, NEW fits, Tells(op, i, s, fits)
  PROVE  RefusalsExplained'
  BY OtherReplies, LossesUnanswered, Ends DEF Tells

\* Whatever the service reports, in whatever form, the host gets the error that
\* is documented for it (ErrorTransformer, and the decoder of interaction data).
THEOREM Reported == Spec => []RefusalsExplained
  <1>1. Init => RefusalsExplained
    BY DEF Init, RefusalsExplained, NoCall, Call, Plain, Reply
  <1> DEFINE R(code, info) == Refused(code, "result", info)
  <1>2. /\ \A code \in Codes : Refusable(R(code, NoInfo))
        /\ \A info \in Infos : Refusable(R(Interaction, info))
        /\ \A r \in Refusals : Refusable(r)
        /\ {"ServiceError", "FundingSourceNotFoundError", "FundingSourceStateError",
            "ProvisionalFundingSourceNotFoundError",
            "FundingSourceCompletionDataInvalidError"} \subseteq Codes
    <2>1. NoInfo \in Infos /\ Interaction \in Codes /\ "result" \in Forms
      BY DEF Infos, Codes, Forms
    <2>2. {"FundingSourceNotFoundError", "FundingSourceStateError",
           "ProvisionalFundingSourceNotFoundError",
           "FundingSourceCompletionDataInvalidError"} \subseteq Codes
      BY DEF Codes, ErrorClass, ClassNames
    <2>3. "ServiceError" \in Codes
      BY DEF Codes, CommonErrors
    <2>4. \A code \in Codes, f \in Forms, info \in Infos : Refusable(Refused(code, f, info))
      BY DEF Refusable
    <2>5. \A r \in Refusals : Refusable(r)
      BY <2>1, <2>4 DEF Refusals
    <2> QED BY <2>1, <2>2, <2>3, <2>4, <2>5
  <1> HIDE DEF R
  <1>3. ASSUME RefusalsExplained, [Next]_vars
        PROVE  RefusalsExplained'
    <2>1. CASE UNCHANGED vars
      BY <1>3, <2>1 DEF vars, RefusalsExplained
    <2>2. ASSUME NEW op \in Operations, Refuse(op) \/ Unheard(op) \/ Look(op)
          PROVE  RefusalsExplained'
      <3>1. CASE Refuse(op)
        BY <1>2, <3>1, RefusalReported DEF Refuse, R
      <3>2. CASE Unheard(op)
        BY <3>2, Ends, OtherReplies DEF Unheard
      <3>3. CASE Look(op)
        BY <3>3, Ends, OtherReplies DEF Look
      <3> QED BY <2>2, <3>1, <3>2, <3>3
    <2>3. ASSUME NEW i \in Ids, NEW d \in Provisioning, setupFundingSourceCall(i, d)
          PROVE  RefusalsExplained'
      BY <2>3, Ends, OtherReplies, LossesUnanswered DEF setupFundingSourceCall
    <2>4. ASSUME NEW i \in Ids, NEW c \in Completions, completeFundingSourceCall(i, c)
          PROVE  RefusalsExplained'
      <3> DEFINE op == "completeFundingSource"
      <3>1. \/ \E e, fits : NotSent(op, e, fits)
            \/ \E fits : Fails(op, {}, R("ProvisionalFundingSourceNotFoundError",
                                       NoInfo), fits)
            \/ \E fits : Fails(op, {}, R("FundingSourceCompletionDataInvalidError",
                                       NoInfo), fits)
            \/ \E fits : \E info \in Infos : Fails(op, {}, R(Interaction, info), fits)
            \/ \E s, fits : Tells(op, i, s, fits)
        BY <2>4 DEF completeFundingSourceCall, R
      <3>2. ASSUME NEW e, NEW fits, NotSent(op, e, fits)
            PROVE  RefusalsExplained'
        BY <3>2, OtherReplies DEF NotSent, Call
      <3>3. ASSUME NEW fits, NEW r, Fails(op, {}, r, fits), Refusable(r)
            PROVE  RefusalsExplained'
        BY <3>3, RefusalReported
      <3> QED BY <1>2, <3>1, <3>2, <3>3, ToldReplies
    <2>5. ASSUME NEW i \in Ids, NEW r \in Refreshments, refreshFundingSourceCall(i, r)
          PROVE  RefusalsExplained'
      <3> DEFINE op == "refreshFundingSource"
      <3>1. \/ \E e : NotSent(op, e, FALSE)
            \/ Fails(op, {}, R("FundingSourceNotFoundError", NoInfo), FALSE)
            \/ Fails(op, {}, R("FundingSourceStateError", NoInfo), FALSE)
            \/ \E info \in Infos : Fails(op, {}, R(Interaction, info), FALSE)
            \/ \E s : Tells(op, i, s, FALSE)
        BY <2>5 DEF refreshFundingSourceCall, R
      <3>2. ASSUME NEW e, NotSent(op, e, FALSE)
            PROVE  RefusalsExplained'
        BY <3>2, OtherReplies DEF NotSent, Call
      <3>3. ASSUME NEW a, Fails(op, {}, a, FALSE), Refusable(a)
            PROVE  RefusalsExplained'
        BY <3>3, RefusalReported
      <3> QED BY <1>2, <3>1, <3>2, <3>3, ToldReplies
    <2>6. ASSUME NEW i \in Ids, NEW op \in ByIdAlone, changeFundingSourceCall(op, i)
          PROVE  RefusalsExplained'
      <3>1. \/ Fails(op, {}, R("FundingSourceNotFoundError", NoInfo), FALSE)
            \/ \E s : Tells(op, i, s, FALSE)
        BY <2>6 DEF changeFundingSourceCall, R
      <3> QED BY <1>2, <3>1, RefusalReported, ToldReplies
    <2>7. ASSUME NEW i \in Ids, getFundingSourceCall(i)
          PROVE  RefusalsExplained'
      BY <2>7, Ends, OtherReplies, ToldReplies DEF getFundingSourceCall
    <2>8. ASSUME NEW i \in Ids, cancelProvisionalFundingSourceCall(i)
          PROVE  RefusalsExplained'
      <3> DEFINE op == "cancelProvisionalFundingSource"
      <3>1. \/ Fails(op, {}, R("FundingSourceNotFoundError", NoInfo), FALSE)
            \/ \E n, o : Succeeds(op, n, o, FALSE)
            \/ \E r \in Losses : Fails(op, {}, r, FALSE)
        BY <2>8 DEF cancelProvisionalFundingSourceCall, R
      <3>2. ASSUME \/ \E n, o : Succeeds(op, n, o, FALSE)
                   \/ \E r \in Losses : Fails(op, {}, r, FALSE)
            PROVE  RefusalsExplained'
        BY <3>2, Ends, OtherReplies, LossesUnanswered
      <3> QED BY <1>2, <3>1, <3>2, RefusalReported
    <2>9. ASSUME NEW i \in Ids, provisionVirtualCardCall(i)
          PROVE  RefusalsExplained'
      BY <2>9, Ends, OtherReplies, LossesUnanswered DEF provisionVirtualCardCall
    <2>10. ASSUME listProvisionalFundingSourcesCall \/ listFundingSourcesCall
           PROVE  RefusalsExplained'
      BY <2>10, Ends, OtherReplies
         DEF listProvisionalFundingSourcesCall, listFundingSourcesCall
    <2>11. ASSUME changeKeys \/ goOn
           PROVE  RefusalsExplained'
      BY <2>11, OtherReplies DEF changeKeys, goOn, NoCall, Call
    <2> QED BY <1>3, <2>1, <2>2, <2>3, <2>4, <2>5, <2>6, <2>7, <2>8, <2>9, <2>10,
               <2>11 DEF Next
  <1> QED BY <1>1, <1>3, PTL DEF Spec

===============================================================================
