------------------------------ MODULE ApiClient ------------------------------
(***************************************************************************)
(* The calls of the client as the service and the host see them: what is   *)
(* asked, what the service does, what comes back or is lost on the way,    *)
(* and what the host is told in the end; with the funding sources of the   *)
(* account from setup to cancellation.                                     *)
(*                                                                         *)
(* A call is one action.  It takes effect at the service at one moment     *)
(* between its start and its end (ClientOperations shows this of the       *)
(* mutex).  The keys on the device are another matter: reset and           *)
(* importKeys wait for no call, so that what a call looks up, signs with   *)
(* and unseals with it may find under different keys.  How the keys are    *)
(* made and lost is DeviceKeys' matter, here only the key pair in use      *)
(* counts.                                                                 *)
(***************************************************************************)
EXTENDS ApiRequests, AnswerHandling, ApiErrors, FiniteSets

CONSTANTS
  Ids,          \* funding sources
  Provisioning, \* provisioning data the service may issue
  Keys,         \* key pairs the device may have
  Operations,   \* operations the host calls
  Withheld,     \* options the host leaves out, as <<operation, option>>
  MaxCards      \* bound on the cards provisioned

NoKey == "noKey"

ASSUME ProvisioningAssumption ==
  Provisioning \subseteq [provider : STRING, version : Nat, type : STRING,
                          parts : SUBSET STRING]
ASSUME KeysAssumption == NoKey \notin Keys
ASSUME CardsAssumption == MaxCards \in Nat

\* For every operation its request, the options the host may give, what is read
\* of the answer, and what may be null in it.
Entry(request, options, handling, nulls) ==
  [request |-> request, options |-> options, handling |-> handling,
   nulls |-> nulls]

FundingSourceCalls ==
  LET finished(r, o) == Entry(r, o, FundingSourceHandling, FundingSourceNulls)
      provisional(r, o) == Entry(r, o, ProvisionalFundingSourceHandling,
                                 ProvisionalFundingSourceNulls)
  IN [setupFundingSource |->
        provisional(setupFundingSource, SetupFundingSourceInput),
      completeFundingSource |->
        finished(completeFundingSource, CompleteFundingSourceInput),
      refreshFundingSource |->
        finished(refreshFundingSource, RefreshFundingSourceInput),
      cancelFundingSource |-> finished(cancelFundingSource, {}),
      reviewUnfundedFundingSource |-> finished(reviewUnfundedFundingSource, {}),
      sandboxSetFundingSourceToRequireRefresh |->
        finished(sandboxSetFundingSourceToRequireRefresh, {}),
      cancelProvisionalFundingSource |->
        provisional(cancelProvisionalFundingSource, {}),
      getFundingSource |->
        Entry(getFundingSource, {}, MaybeAbsent(FundingSourceHandling),
              Optional(FundingSourceNulls)),
      listFundingSources |->
        Entry(listFundingSources, ListFundingSourcesInput,
              PageHandling(FundingSourceHandling),
              PageNulls(FundingSourceNulls)),
      listProvisionalFundingSources |->
        Entry(listProvisionalFundingSources, ListProvisionalFundingSourcesInput,
              PageHandling(ProvisionalFundingSourceHandling),
              PageNulls(ProvisionalFundingSourceNulls))]

CardCalls ==
  LET card(r, o) == Entry(r, o, CardHandling, SealedCardNulls) IN
  [provisionVirtualCard |->
     Entry(provisionVirtualCard, ProvisionVirtualCardInput,
           ProvisionalCardHandling, ProvisionalCardNulls),
   updateVirtualCard |-> card(updateVirtualCard, UpdateVirtualCardInput),
   cancelVirtualCard |-> card(cancelVirtualCard, {}),
   getVirtualCard |->
     Entry(getVirtualCard, {}, MaybeAbsent(CardHandling),
           Optional(SealedCardNulls)),
   listVirtualCards |->
     Entry(listVirtualCards, ListVirtualCardsInput, PageHandling(CardHandling),
           PageNulls(SealedCardNulls)),
   getProvisionalCard |->
     Entry(getProvisionalCard, {}, MaybeAbsent(ProvisionalCardHandling),
           Optional(ProvisionalCardNulls)),
   listProvisionalCards |->
     Entry(listProvisionalCards, ListProvisionalCardsInput,
           PageHandling(ProvisionalCardHandling),
           PageNulls(ProvisionalCardNulls))]

TransactionCalls ==
  LET list(r, o) == Entry(r, o, PageHandling(TransactionHandling),
                          PageNulls(SealedTransactionNulls))
  IN [getTransaction |->
        Entry(getTransaction, {}, MaybeAbsent(TransactionHandling),
              Optional(SealedTransactionNulls)),
      listTransactions |-> list(listTransactions, ListTransactionsInput),
      listTransactionsByCardId |->
        list(listTransactionsByCardId, ListTransactionsByCardIdInput),
      listTransactionsByCardIdAndType |->
        list(listTransactionsByCardIdAndType,
             ListTransactionsByCardIdAndTypeInput)]

\* The key requests are those of createKeysIfAbsent and provisionVirtualCard:
\* that the key is there is all they look for.  The two that list keys are in
\* the API client, and nothing calls them.  onFundingSourceUpdate opens a watch;
\* its answers are the changes, which the schema lets be null and the handler does
\* not.
OtherCalls ==
  [getVirtualCardsConfig |->
     Entry(getVirtualCardsConfig, {}, VirtualCardsConfigHandling,
           VirtualCardsConfigNulls),
   getFundingSourceClientConfiguration |->
     Entry(getFundingSourceClientConfiguration, {},
           Handling({<<"data">>}, {}), {}),
   sandboxGetPlaidData |->
     Entry(sandboxGetPlaidData, {}, SandboxPlaidDataHandling,
           SandboxGetPlaidDataNulls),
   createPublicKey |-> Entry(createPublicKey, {}, Handling({}, {}), PublicKeyNulls),
   getPublicKey |->
     Entry(getPublicKey, {}, Handling({}, {<<>>}), Optional(PublicKeyNulls)),
   getPublicKeys |->
     Entry(getPublicKeys, Leaves({"limit", "nextToken"}),
           PageHandling(Handling({}, {})), PageNulls(PublicKeyNulls)),
   getKeyRing |->
     Entry(getKeyRing, Leaves({"limit", "nextToken", "keyFormats"}),
           PageHandling(Handling({}, {})), PageNulls(PublicKeyNulls)),
   onFundingSourceUpdate |->
     Entry(onFundingSourceUpdate, {}, FundingSourceHandling,
           Optional(FundingSourceNulls))]

\* Two tables as one.
Joined(f, g) ==
  [x \in DOMAIN f \cup DOMAIN g |-> IF x \in DOMAIN f THEN f[x] ELSE g[x]]

Calls == Joined(Joined(FundingSourceCalls, CardCalls),
                Joined(TransactionCalls, OtherCalls))

ASSUME OperationsAssumption == Operations \subseteq DOMAIN Calls

VARIABLES
  source, \* the service's record of each funding source
  cards,  \* how many cards it provisioned
  key,    \* the key pair in use on the device
  told,   \* provisional funding sources whose data the host was given
  known,  \* funding sources the host was given
  lost,   \* funding sources of which an answer that announced them was lost on
          \* the way, or came to a device whose keys were changed meanwhile
  held,   \* the key pairs in use, NoKey for none, while the last call read them
  last    \* the last call, until the host goes on: what was asked and how it ended

service == <<source, cards>>
vars == <<source, cards, key, told, known, lost, held, last>>

-----------------------------------------------------------------------------
(* The service's records.                                                  *)

None == [state |-> "none", data |-> Undecodable, seal |-> NoKey, sound |-> TRUE]

\* A source is being set up or was given up; or it is there, and if it is a bank
\* account its institution is sealed under a key, and sound if it decodes.
Unfinished == {"provisioning", "failed"}
Finished == {"active", "refresh", "inactive"}

IsBankAccount(s) == s.data.type = "BANK_ACCOUNT"

\* unsealFundingSource, with k in use, and FundingSourceEntityTransformer.
FundingSourceOutcome(s, k) ==
  IF ~IsBankAccount(s) THEN "result"
  ELSE IF s.seal # k THEN "KeyNotFoundError"
  ELSE IF ~s.sound THEN "FatalError" ELSE "result"

\* ProvisionalFundingSourceEntityTransformer, then the client's own.
ProvisionalOutcome(s) ==
  IF DecodeProvisioning(s.data) = Undecodable THEN "FatalError" ELSE "result"

\* A variant that leaves the failures out.
ListWhatCanBeRead(outcomes) == {"result"}

\* Promise.all, or map: one failure is the failure of the whole list.
ListOutcome(outcomes) ==
  IF outcomes \subseteq {"result"} THEN {"result"} ELSE outcomes \ {"result"}

In(states) == {i \in Ids : source[i].state \in states}

-----------------------------------------------------------------------------
(* Calls.                                                                  *)

\* A call, with the options given, the fields that were null in the answer, the
\* reply, and what the caller got; `fits` marks a completion with the data the
\* host was told.
Call(op, given, nulls, reply, outcome, fits) ==
  [op |-> op, given |-> given, nulls |-> nulls, reply |-> reply,
   outcome |-> outcome, fits |-> fits]

NoCall == Call("none", {}, {}, Plain("none"), "none", FALSE)

\* Calls that change nothing but `last` are made on a fresh account: there the
\* host tries its options and the service its errors, in all forms.  While one
\* source at most is there, a field may be null and an answer be lost in any way.
Fresh == In({"none"}) = Ids /\ last = NoCall
Sparse == Cardinality(In({"none"})) + 1 >= Cardinality(Ids) /\ cards = 0

\* No option, one of them, all of them, or null for one that null removes.
Given(op) ==
  LET offered == {o \in Calls[op].options : <<op, o>> \notin Withheld}
      removed == IF op = "updateVirtualCard" THEN offered \cap Removable ELSE {}
  IN {{}, offered \X {"value"}}
       \cup {{<<o, "value">>} : o \in offered}
       \cup {{<<o, "null">>} : o \in removed}

\* What may be null in an answer about the sources S: nothing, or one field.
TypeName(s) ==
  IF IsBankAccount(s) THEN "BankAccountFundingSource"
  ELSE "CreditCardFundingSource"

Concerns(n, S) ==
  /\ n # <<>>
  /\ "items" \in ToSet(n) => S # {}
  /\ \A t \in ToSet(n) \cap {"BankAccountFundingSource", "CreditCardFundingSource"} :
       \E s \in S : TypeName(s) = t

Nulls(op, S) ==
  {{}} \cup IF Sparse THEN {{n} : n \in {m \in Calls[op].nulls : Concerns(m, S)}}
           ELSE {}

\* How an answer may be lost.
Losses == IF Sparse THEN Unanswered ELSE {Plain("network")}

\* With these fields null the SDK makes no result of the answer to the call.
Breaks(call, nulls) == Mishandled(call.request.document, call.handling, nulls)

\* Interaction data the service may send: for a bank account, for a card, or
\* none that can be read.
Link == Data("checkout", 1, "BANK_ACCOUNT", LinkParts)
Infos == {Link, Data("stripe", 1, "CREDIT_CARD", StripeParts), NoInfo, Garbled}

\* Errors that depend on what the service holds are reported below; the others
\* it may report at any time, as it may any error in any form.
Situational ==
  {Interaction, "FundingSourceCompletionDataInvalidError", "NotSignedInError"}

Refusals ==
  {Refused(c, f, NoInfo) : c \in Codes \ Situational, f \in Forms}
    \cup {Refused(Interaction, f, i) : f \in Forms, i \in Infos}

\* The request was not sent, for want of a key or of data the SDK can encode.
Unsent == Plain("unsent")

\* The SDK has no encoding for the data, of which e would be one, or no key.
NotSent(op, e, fits) ==
  last' = Call(op, {}, {}, Unsent,
               IF e = Undecodable THEN "FatalError" ELSE "KeyNotFoundError", fits)

\* The call ends without an answer: the class of error is the reply's.
Fails(op, given, r, fits) ==
  last' = Call(op, given, {}, r, MapGraphQLCallError(r), fits)

\* The call ends with an answer from which the caller gets `outcome`, unless
\* something is missing that the SDK relies on.
Succeeds(op, nulls, outcome, fits) ==
  last' = Call(op, {}, nulls, Answered,
               IF Breaks(Calls[op], nulls) THEN "broken" ELSE outcome, fits)

\* The host calls op: it has the outcome of the call before.
Makes(op) == last = NoCall /\ op \in Operations

\* What fails when a watch is opened is FundingSourceSubscription's matter.
Reports(op) == Fresh /\ op # "onFundingSourceUpdate"

Unacted == UNCHANGED <<source, cards, key, told, known, lost, held>>

Refuse(op) ==
  /\ Reports(op)
  /\ \/ \E g \in Given(op) :
          Fails(op, g, Refused("ServiceError", "result", NoInfo), FALSE)
     \/ \E r \in Refusals : Fails(op, {}, r, FALSE)
  /\ Unacted

\* The request was lost, or it changes nothing and the answer was lost.
Unheard(op) ==
  /\ Reports(op)
  /\ \E r \in Unanswered : Fails(op, {}, r, FALSE)
  /\ Unacted

\* Cards, transactions, configuration and changes as the service has them; a
\* change may be one of a card or of a bank account.
Look(op) ==
  /\ op \notin DOMAIN FundingSourceCalls \cup {"provisionVirtualCard"}
  /\ Fresh
  /\ \/ \E n \in Nulls(op, {None, [None EXCEPT !.data = Link]}) :
          Succeeds(op, n, "result", FALSE)
     \/ <<>> \in Calls[op].nulls /\ Succeeds(op, {<<>>}, "absent", FALSE)
  /\ Unacted

-----------------------------------------------------------------------------
(* Provisional funding sources.                                            *)

\* A bound: no source is set up once there is a card.
setupFundingSourceCall(i, d) ==
  LET s == [state |-> "provisioning", data |-> d, seal |-> NoKey, sound |-> TRUE]
      op == "setupFundingSource"
  IN /\ Makes(op)
     /\ source[i].state = "none" /\ cards = 0
     /\ source' = [source EXCEPT ![i] = s]
     /\ \/ /\ \E n \in Nulls(op, {s}) :
                Succeeds(op, n, ProvisionalOutcome(s), FALSE)
           /\ told' = told \cup {j \in {i} : ProvisionalOutcome(s) = "result"}
           /\ lost' = lost
        \/ /\ \E r \in Losses : Fails(op, {}, r, FALSE)
           /\ lost' = lost \cup {<<i, op>>}
           /\ told' = told
     /\ UNCHANGED <<cards, key, known, held>>

\* Refused where there is no such source; one given up stays given up.
cancelProvisionalFundingSourceCall(i) ==
  LET op == "cancelProvisionalFundingSource" IN
  /\ Makes(op)
  /\ IF source[i].state \in Unfinished
     THEN /\ source' = [source EXCEPT ![i].state = "failed"]
          /\ \/ /\ \E n \in Nulls(op, {source[i]}) :
                     Succeeds(op, n, ProvisionalOutcome(source[i]), FALSE)
                /\ told' = told \cup
                     {j \in {i} : ProvisionalOutcome(source[i]) = "result"}
             \/ /\ \E r \in Losses : Fails(op, {}, r, FALSE)
                /\ told' = told
     ELSE /\ Fails(op, {}, Refused("FundingSourceNotFoundError", "result", NoInfo),
                   FALSE)
          /\ UNCHANGED <<source, told>>
  /\ UNCHANGED <<cards, key, known, lost, held>>

\* Those completed are listed, too.
listProvisionalFundingSourcesCall ==
  LET op == "listProvisionalFundingSources"
      items == Ids \ In({"none"})
      readable == {i \in items : ProvisionalOutcome(source[i]) = "result"}
  IN /\ Makes(op)
     /\ \E o \in ListOutcome({ProvisionalOutcome(source[i]) : i \in items}),
           n \in Nulls(op, {source[i] : i \in items}) :
          /\ Succeeds(op, n, o, FALSE)
          /\ told' = told \cup (IF o = "result" THEN readable ELSE {})
     /\ UNCHANGED <<source, cards, key, known, lost, held>>

-----------------------------------------------------------------------------
(* Funding sources.                                                        *)

\* What a host may say; the types let it leave out that of a card only.
Completions ==
  [provider : {"stripe"}, type : {Absent, "CREDIT_CARD"}]
    \cup [provider : {"checkout"}, type : {Absent, "BANK_ACCOUNT"}]
Refreshments ==
  [provider : {"checkout"}, type : {Absent, "BANK_ACCOUNT"}, text : BOOLEAN]

\* The key pairs in use at one moment or another of a call.  One that stays when
\* the call ends is a changeKeys that follows.  A bound: the keys change within a
\* call while one source at most is there.
Meanwhile ==
  IF Sparse THEN {h \in SUBSET (Keys \cup {NoKey}) : key \in h} ELSE {{key}}

\* The answer to op about source i, now s, or none; what it tells the host.  It is
\* unsealed with whatever is in use when it comes.
Tells(op, i, s, fits) ==
  LET missed(why) == IF op = "completeFundingSource" THEN lost \cup {<<i, why>>}
                     ELSE lost
  IN /\ held' \in Meanwhile
     /\ \/ /\ \E k \in held' :
                /\ \E n \in Nulls(op, {s}) :
                     Succeeds(op, n, FundingSourceOutcome(s, k), fits)
                /\ known' = known \cup
                     {j \in {i} : FundingSourceOutcome(s, k) = "result"}
           /\ lost' = IF held' = {key} THEN lost ELSE missed("changeKeys")
        \/ /\ \E r \in Losses : Fails(op, {}, r, fits)
           /\ lost' = missed(op)
           /\ known' = known

\* The call ends before it tells anything.
Untold == UNCHANGED <<source, known, lost, held>>

\* The service takes the completion: the institution, which may be anything the
\* provider says, is sealed with the key the completion names.
Completed(s, sound, named) ==
  [s EXCEPT !.state = "active", !.sound = sound,
            !.seal = IF IsBankAccount(s) THEN named ELSE NoKey]

\* A completion that needs a key is not sent if there is none when it is looked up
\* or signed with.  That may be so at any time: the SDK looks first for the public
\* key it remembers, whose pair may be gone (getCurrentPublicKey).
completeFundingSourceCall(i, c) ==
  LET op == "completeFundingSource"
      s == source[i]
      e == EncodeCompletion(c)
      fits == i \in told /\ c \in CompletionsFor(DecodeProvisioning(s.data))
      refused(code, info) == Fails(op, {}, Refused(code, "result", info), fits)
                             /\ Untold
  IN /\ Makes(op)
     /\ \/ /\ e = Undecodable \/ NeedsKey(c)
           /\ NotSent(op, e, fits) /\ Untold
        \/ /\ e # Undecodable
           /\ \/ /\ s.state # "provisioning"
                 /\ refused("ProvisionalFundingSourceNotFoundError", NoInfo)
              \/ /\ s.state = "provisioning" /\ ~Matches(e, s.data)
                 /\ refused("FundingSourceCompletionDataInvalidError", NoInfo)
              \/ /\ s.state = "provisioning" /\ Matches(e, s.data)
                 /\ \/ \E info \in Infos : refused(Interaction, info)
                    \/ \E sound \in IF IsBankAccount(s) THEN BOOLEAN ELSE {TRUE},
                          named \in IF NeedsKey(c) THEN Keys ELSE {NoKey} :
                         LET new == Completed(s, sound, named) IN
                         /\ source' = [source EXCEPT ![i] = new]
                         /\ Tells(op, i, new, fits)
                         /\ NeedsKey(c) => named \in held'
     /\ UNCHANGED <<cards, key, told>>

\* A bank account that needs it is refreshed in two calls: the first is refused
\* with the data the user needs, the second has the text the user agreed to.  The
\* second is signed and takes a key, which the service may seal with; the first
\* only names one, and the one the SDK remembers will do.
refreshFundingSourceCall(i, r) ==
  LET op == "refreshFundingSource"
      s == source[i]
      e == EncodeRefresh(r)
      signed == "authorizationTextSignature" \in e.parts
      refused(code, info) == Fails(op, {}, Refused(code, "result", info), FALSE)
                             /\ Untold
  IN /\ Makes(op)
     /\ \/ NotSent(op, e, FALSE) /\ Untold
        \/ /\ e # Undecodable
           /\ \/ /\ s.state \notin Finished
                 /\ refused("FundingSourceNotFoundError", NoInfo)
              \/ /\ s.state \in Finished /\ e.provider # s.data.provider
                 /\ refused("FundingSourceStateError", NoInfo)
              \/ /\ s.state \in {"active", "inactive"} /\ e.provider = s.data.provider
                 /\ Tells(op, i, s, FALSE)
                 /\ signed => held' # {NoKey}
                 /\ source' = source
              \/ /\ s.state = "refresh" /\ e.provider = s.data.provider /\ ~signed
                 /\ \E info \in Infos : refused(Interaction, info)
              \/ /\ s.state = "refresh" /\ e.provider = s.data.provider /\ signed
                 /\ \E seal \in {s.seal} \cup Keys :
                      LET new == [s EXCEPT !.state = "active", !.seal = seal] IN
                      /\ source' = [source EXCEPT ![i] = new]
                      /\ Tells(op, i, new, FALSE)
                      /\ held' # {NoKey} /\ seal \in {s.seal} \cup held'
     /\ UNCHANGED <<cards, key, told>>

\* The three calls that take only an id: what they make of the source's state.
Moved(op, s) ==
  IF op = "cancelFundingSource" THEN "inactive"
  ELSE IF op = "sandboxSetFundingSourceToRequireRefresh" /\ s.state = "active"
  THEN "refresh" ELSE s.state

changeFundingSourceCall(op, i) ==
  LET s == source[i]
      new == [s EXCEPT !.state = Moved(op, s)]
      takes == /\ s.state \in Finished
               /\ op = "sandboxSetFundingSourceToRequireRefresh" => IsBankAccount(s)
  IN /\ Makes(op)
     /\ IF takes
        THEN source' = [source EXCEPT ![i] = new] /\ Tells(op, i, new, FALSE)
        ELSE /\ Fails(op, {}, Refused("FundingSourceNotFoundError", "result", NoInfo),
                      FALSE)
             /\ Untold
     /\ UNCHANGED <<cards, key, told>>

\* A source that is not there is null in the answer, and no error.
getFundingSourceCall(i) ==
  LET op == "getFundingSource"
      s == source[i]
  IN /\ Makes(op)
     /\ IF s.state \in Finished
        THEN Tells(op, i, s, FALSE) /\ source' = source
        ELSE Succeeds(op, {<<>>}, "absent", FALSE) /\ Untold
     /\ UNCHANGED <<cards, key, told>>

\* Each item is unsealed at a moment of its own.
listFundingSourcesCall ==
  LET op == "listFundingSources"
      items == In(Finished)
  IN /\ Makes(op)
     /\ held' \in Meanwhile
     /\ \E seen \in [items -> held'] :
          LET outcome(i) == FundingSourceOutcome(source[i], seen[i]) IN
          \E o \in ListOutcome({outcome(i) : i \in items}),
             n \in Nulls(op, {source[i] : i \in items}) :
            /\ Succeeds(op, n, o, FALSE)
            /\ known' = known \cup
                 {i \in items : o = "result" /\ outcome(i) = "result"}
     /\ UNCHANGED <<source, cards, key, told, lost>>

-----------------------------------------------------------------------------
(* Cards and keys.                                                         *)

\* Each call that arrives provisions a card: the service cannot tell a call
\* made again from a new one, for the SDK names every call differently.  A bound:
\* there is one source, and MaxCards cards at most.
provisionVirtualCardCall(i) ==
  LET op == "provisionVirtualCard" IN
  /\ Makes(op)
  /\ source[i].state = "active" /\ In({"none"}) = Ids \ {i}
  /\ cards < MaxCards
  /\ cards' = cards + 1
  /\ \/ \E n \in Nulls(op, {None}) : Succeeds(op, n, "result", FALSE)
     \/ \E r \in Losses : Fails(op, {}, r, FALSE)
  /\ UNCHANGED <<source, key, told, known, lost, held>>

\* reset, createKeysIfAbsent, importKeys.
changeKeys ==
  /\ \E k \in Keys \cup {NoKey} : k # key /\ key' = k
  /\ last = NoCall /\ last' = last
  /\ UNCHANGED <<source, cards, told, known, lost, held>>

\* The host has what the call ended with, and may make another.
goOn ==
  /\ last # NoCall /\ last' = NoCall /\ held' = {}
  /\ UNCHANGED <<source, cards, key, told, known, lost>>

-----------------------------------------------------------------------------
Init ==
  /\ source = [i \in Ids |-> None]
  /\ cards = 0
  /\ key = NoKey
  /\ told = {} /\ known = {} /\ lost = {} /\ held = {}
  /\ last = NoCall

ByIdAlone ==
  {"cancelFundingSource", "reviewUnfundedFundingSource",
   "sandboxSetFundingSourceToRequireRefresh"}

Next ==
  \/ \E op \in Operations : Refuse(op) \/ Unheard(op) \/ Look(op)
  \/ \E i \in Ids :
       \/ \E d \in Provisioning : setupFundingSourceCall(i, d)
       \/ \E c \in Completions : completeFundingSourceCall(i, c)
       \/ \E r \in Refreshments : refreshFundingSourceCall(i, r)
       \/ \E op \in ByIdAlone : changeFundingSourceCall(op, i)
       \/ getFundingSourceCall(i)
       \/ cancelProvisionalFundingSourceCall(i)
       \/ provisionVirtualCardCall(i)
  \/ listProvisionalFundingSourcesCall
  \/ listFundingSourcesCall
  \/ changeKeys
  \/ goOn

Spec == Init /\ [][Next]_vars

-----------------------------------------------------------------------------
(* Properties.                                                             *)

\* The variables have their types, and a bank account that was completed, and
\* nothing else, is sealed with a key pair the device had then.
TypeOK ==
  /\ source \in [Ids -> [state : {"none"} \cup Unfinished \cup Finished,
                         data : Provisioning \cup {Undecodable},
                         seal : Keys \cup {NoKey}, sound : BOOLEAN]]
  /\ \A i \in Ids : source[i].seal # NoKey
                      <=> source[i].state \in Finished /\ IsBankAccount(source[i])
  /\ cards \in 0..MaxCards /\ key \in Keys \cup {NoKey}
  /\ told \subseteq Ids /\ known \subseteq Ids
  /\ lost \subseteq
       Ids \X {"setupFundingSource", "completeFundingSource", "changeKeys"}
  /\ held \subseteq Keys \cup {NoKey}
  /\ last.op \in Operations \cup {"none"}

\* No answer that is good by the schema breaks the SDK, but for one: every field
\* it reads is one the document asked for, and a null it does not expect is one the
\* schema rules out (the documents, unsealing and transformers of all operations).
\* The exception is a change that is null, which the schema of Subscription allows:
\* the handler throws a FatalError that nobody awaits, and the change is dropped
\* (subscribeToFundingSourceChanges of DefaultFundingSourceService).
AnswersSuffice ==
  last.outcome = "broken" =>
    last.op = "onFundingSourceUpdate" /\ last.nulls = {<<>>}

\* The host gets the error the service reported, as documented.  An error that
\* is documented for the operation arrives as its class, in whatever form the
\* GraphQL client hands it on; those of sudo-common only if they have a type.
\* The user's interaction is asked for where the data for it can be read, and
\* it is a FatalError where they cannot (apiClient.ts, errorTransformer.ts).
RefusalsExplained ==
  last.reply.kind = "error" =>
    /\ \A c \in DocumentedErrors(last.op) \ {Interaction} :
         /\ last.reply.code = c
         /\ c \in CommonErrors => Typed(last.reply.form)
         => last.outcome = c
    /\ last.reply.code = Interaction =>
         last.outcome = IF Typed(last.reply.form) /\ last.reply.info = Link
                        THEN Interaction ELSE "FatalError"

\* A call that ends with an error documented for it has changed nothing at the
\* service: the host may do it again, as it is told for ServiceError ("Try the
\* operation again").  A lost answer must not be reported as one of these.
DocumentedMeansUnacted ==
  [][last'.outcome \in DocumentedErrors(last'.op) => UNCHANGED service]_vars

\* The service takes every request, and an option the host gives is in it, as
\* value or as null, in a field the service knows.
OptionsReachService ==
  last.op # "none" =>
    LET r == Calls[last.op].request
        fields == Fields(r, last.given)
    IN /\ Accepted(r, fields)
       /\ \A g \in last.given :
            g[1] \in DOMAIN r.passes /\ <<r.passes[g[1]], g[2]>> \in fields

\* A host that completes a funding source with the data it was told, or leaves
\* out what it may, is not told they are the wrong data, nor by the SDK that it
\* cannot encode them.
CompletionFits ==
  last.fits => /\ last.outcome # "FundingSourceCompletionDataInvalidError"
               /\ ~(last.reply = Unsent /\ last.outcome = "FatalError")

\* Complete data of a provider and a version that the SDK's types describe.
Recognised(d) ==
  /\ d.version = 1
  /\ \/ /\ d.provider = "stripe" /\ StripeParts \subseteq d.parts
        /\ d.type \in {Absent, "CREDIT_CARD"}
     \/ /\ d.provider = "checkout" /\ LinkParts \subseteq d.parts
        /\ d.type = "BANK_ACCOUNT"

AnsweredList(op) ==
  last.op = op /\ last.reply = Answered /\ last.outcome # "broken"

\* A list tells of all there are, or fails for one that cannot be read: an
\* institution that is unsound or sealed with a key pair that was not in use all
\* the while, data of an unknown kind.  It leaves none out (Promise.all in listFundingSources, map in
\* listProvisionalFundingSources).
ListTellsAll ==
  /\ AnsweredList("listFundingSources") =>
       IF last.outcome = "result" THEN In(Finished) \subseteq known
       ELSE \E i \in In(Finished) : IsBankAccount(source[i])
                                 /\ (~source[i].sound \/ held # {source[i].seal})
  /\ AnsweredList("listProvisionalFundingSources") =>
       IF last.outcome = "result" THEN Ids \ In({"none"}) \subseteq told
       ELSE \E i \in Ids \ In({"none"}) : ~Recognised(source[i].data)

\* The service holds no funding source the host was never told of, but for the
\* answers lost on the way, data the SDK does not know, an institution that does
\* not decode, and a bank account completed while the keys on the device changed
\* (a reset between the completion and the unsealing of its answer): in these the
\* call rejects after it has taken effect.
OrphanExplained ==
  \A i \in Ids :
    /\ source[i].state # "none" /\ i \notin told =>
         <<i, "setupFundingSource">> \in lost \/ ~Recognised(source[i].data)
    /\ source[i].state \in Finished /\ i \notin known =>
         \/ <<i, "completeFundingSource">> \in lost
         \/ IsBankAccount(source[i])
            /\ (~source[i].sound \/ <<i, "changeKeys">> \in lost)

===============================================================================
