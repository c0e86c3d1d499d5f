--------------------------- MODULE ClientOperations ---------------------------
(***************************************************************************)
(* Operations on virtual cards and funding sources, from the host's call   *)
(* to the result: the sign-in guard and the mutex of the client, the check *)
(* of the use case, the key or signature the service class prepares, the   *)
(* request, the answer, and the unsealing of what came back.  The object   *)
(* an operation is about lives at the service, where other devices change  *)
(* it too.  The creation of the keys themselves is the business of         *)
(* DeviceKeys; here a few of them exist, and reset may take them away.     *)
(*                                                                         *)
(* Every step is one segment between two awaits.  A request that is sent   *)
(* reaches the service in the end, even after the call that sent it was    *)
(* rejected for a network error.                                           *)
(***************************************************************************)
EXTENDS Naturals, Sequences

CONSTANTS
  Calls,        \* calls the host makes; a call also names the key it draws
  Cards,        \* virtual cards
  Sources,      \* funding sources; those with a key are bank accounts
  Operations,   \* the operations the host uses
  None, Refused,
  Callback,     \* whether the host has set a sign-in callback
  MaxVersion,   \* bound on the changes made elsewhere
  MaxFaults     \* bound on lost answers, sign-outs and resets

Objects == Cards \cup Sources
Keys == Calls \cup {"pair", "symmetric"}

CardOperations == {"updateVirtualCard", "cancelVirtualCard", "getVirtualCard"}
SourceOperations ==
  {"setupFundingSource", "completeFundingSource", "refreshFundingSource",
   "cancelFundingSource", "reviewUnfundedFundingSource", "getFundingSource",
   "cancelProvisionalFundingSource", "sandboxSetFundingSourceToRequireRefresh"}
Reads == {"getVirtualCard", "getFundingSource"}
States == {"none", "provisioning", "active", "stale", "inactive", "failed"}
Object == [state : States, version : Nat, key : Keys \cup {None},
           metadata : Keys \cup {None}]
Request == [expected : Nat \cup {None}, key : Keys \cup {None}]

ASSUME CallsAssumption ==
  /\ None \notin Calls \cup Cards \cup Sources
  /\ Calls \cap {"pair", "symmetric"} = {} /\ None \notin {"pair", "symmetric"}
ASSUME ObjectsAssumption == Cards \cap Sources = {}
ASSUME RefusedAssumption == Refused \notin Object \cup {None}
ASSUME NoneAssumption == None \notin Object \cup Request \cup Nat
ASSUME OperationsAssumption ==
  Operations \subseteq CardOperations \cup SourceOperations
ASSUME SettingsAssumption ==
  Callback \in BOOLEAN /\ MaxVersion \in Nat /\ MaxFaults \in Nat

VARIABLES
  objects,  \* what the service holds
  op, obj,  \* the operation and the object of a call
  expected, \* expectedCardVersion
  data,     \* what kind of data comes with it
  pc,       \* progress of a call
  key,      \* the key it seals or signs with
  request,  \* the request it sent
  answer,   \* the service's answer to it
  result,   \* how it settled
  queue,    \* the client's mutex: its holder and those waiting
  signedIn,
  held,     \* keys on the device
  pairKey,  \* DefaultDeviceKeyWorker's cached public key
  symKey,   \* the current symmetric key
  shown,    \* history: the cards as the host was last shown them
  barred,   \* history: calls overtaken by a sign-out
  lacked,   \* history: keys were missing on the device
  faults

callVars == <<op, obj, expected, data>>
keyVars == <<held, pairKey, symKey>>
userVars == <<signedIn, barred>>
vars == <<objects, op, obj, expected, data, pc, key, request, answer, result,
          queue, signedIn, held, pairKey, symKey, shown, barred, lacked,
          faults>>

Pc == {"new", "guard", "check", "key", "seal", "sent", "unseal", "settled"}
Data == {"plain", "metadata", "card", "bank", "text"}
Results == {"none", "success", "partial", "rejected", "lost"}

TypeOK ==
  /\ objects \in [Objects -> Object]
  /\ op \in [Calls -> Operations \cup {"none"}]
  /\ obj \in [Calls -> Objects \cup {None}]
  /\ expected \in [Calls -> Nat \cup {None}]
  /\ data \in [Calls -> Data]
  /\ pc \in [Calls -> Pc]
  /\ key \in [Calls -> Keys \cup {None}]
  /\ request \in [Calls -> Request \cup {None}]
  /\ answer \in [Calls -> Object \cup {None, Refused}]
  /\ result \in [Calls -> Results]
  /\ queue \in Seq(Calls)
  /\ signedIn \in BOOLEAN /\ lacked \in BOOLEAN
  /\ held \subseteq Keys
  /\ pairKey \in Keys \cup {None} /\ symKey \in Keys \cup {None}
  /\ shown \in [Cards -> Object]
  /\ barred \subseteq Calls
  /\ faults \in 0..MaxFaults

\* Objects left by earlier pages; the host has seen them.  On a device without
\* keys they were made by another device of the user.
Init ==
  /\ objects \in [Objects ->
       {[state |-> s, version |-> 1, key |-> k, metadata |-> None] :
          s \in {"none", "provisioning", "active", "stale"},
          k \in {"pair", None}}]
  /\ \A o \in Cards : objects[o].state = "active" /\ objects[o].key = "pair"
  /\ \A o \in Sources :
       /\ objects[o].state = "stale" => objects[o].key # None
       /\ objects[o].state \in {"none", "provisioning"} => objects[o].key = None
  /\ op = [c \in Calls |-> "none"] /\ obj = [c \in Calls |-> None]
  /\ expected = [c \in Calls |-> None] /\ data = [c \in Calls |-> "plain"]
  /\ pc = [c \in Calls |-> "new"]
  /\ key = [c \in Calls |-> None]
  /\ request = [c \in Calls |-> None] /\ answer = [c \in Calls |-> None]
  /\ result = [c \in Calls |-> "none"]
  /\ queue = <<>>
  /\ signedIn = TRUE
  /\ \/ held = {"pair", "symmetric"} /\ pairKey \in {"pair", None}
        /\ symKey = "symmetric"
     \/ held = {} /\ pairKey = None /\ symKey = None
  /\ shown = [o \in Cards |-> objects[o]]
  /\ barred = {} /\ lacked = (held = {}) /\ faults = 0

Goto(c, l) == pc' = [pc EXCEPT ![c] = l]
Fault == faults < MaxFaults /\ faults' = faults + 1

-----------------------------------------------------------------------------
(* The client: sign-in guard, mutex, settling.                             *)

\* Variant: cancelVirtualCard and getVirtualCard do not take the mutex.
SerialisedLess(p) ==
  p \in (CardOperations \cup SourceOperations)
          \ {"getVirtualCard", "cancelVirtualCard", "getFundingSource",
             "cancelProvisionalFundingSource"}

\* The operations under serialise.runExclusive.
Serialised(p) ==
  p \in (CardOperations \cup SourceOperations)
          \ {"getFundingSource", "cancelProvisionalFundingSource"}

Waiting(c) == Serialised(op[c]) /\ pc[c] \notin {"new", "guard", "settled"}
Turn(c) == Serialised(op[c]) => queue # <<>> /\ Head(queue) = c

\* Variant: the host is shown whatever came back.
SettleShowing(c, outcome) ==
  /\ Goto(c, "settled")
  /\ result' = [result EXCEPT ![c] = outcome]
  /\ shown' = IF obj[c] \in Cards THEN [shown EXCEPT ![obj[c]] = answer[c]]
                                  ELSE shown
  /\ queue' = IF Waiting(c) THEN Tail(queue) ELSE queue

\* A call that settles within runExclusive releases the mutex, whatever the
\* outcome.
Settle(c, outcome) ==
  /\ Goto(c, "settled")
  /\ result' = [result EXCEPT ![c] = outcome]
  /\ shown' = IF outcome \in {"success", "partial"} /\ obj[c] \in Cards
                THEN [shown EXCEPT ![obj[c]] = answer[c]] ELSE shown
  /\ queue' = IF Waiting(c) THEN Tail(queue) ELSE queue

\* Metadata; or completion and refresh data, of a credit card or of a bank
\* account, a refresh with or without an authorization text.
DataFor(p) ==
  CASE p = "updateVirtualCard" -> {"plain", "metadata"}
    [] p = "completeFundingSource" -> {"card", "bank"}
    [] p = "refreshFundingSource" -> {"card", "bank", "text"}
    [] OTHER -> {"plain"}

\* The host makes a call.  An update names the version the host knows, or none.
Start(c) ==
  /\ pc[c] = "new" /\ Goto(c, "guard")
  /\ \E p \in Operations, o \in Objects :
       /\ o \in Cards <=> p \in CardOperations
       /\ op' = [op EXCEPT ![c] = p]
       /\ obj' = [obj EXCEPT ![c] = o]
       /\ \E e \in IF p = "updateVirtualCard"
                     THEN {None, shown[o].version} ELSE {None} :
            expected' = [expected EXCEPT ![c] = e]
       /\ \E d \in DataFor(p) : data' = [data EXCEPT ![c] = d]
  /\ UNCHANGED <<objects, key, request, answer, result, queue, userVars,
                 keyVars, shown, lacked, faults>>

\* ensureSignedIn passes: there is no callback, the user is signed in, or the
\* callback signs the user in.  The call then queues for the mutex.
EnsureSignedIn(c) ==
  /\ pc[c] = "guard" /\ Goto(c, "check")
  /\ signedIn' = (signedIn \/ Callback)
  /\ barred' = IF signedIn' THEN {} ELSE barred
  /\ queue' = IF Serialised(op[c]) THEN Append(queue, c) ELSE queue
  /\ UNCHANGED <<objects, callVars, key, request, answer, result, keyVars,
                 shown, lacked, faults>>

\* The callback throws.
CallbackThrows(c) ==
  /\ pc[c] = "guard" /\ Callback /\ ~signedIn
  /\ Settle(c, "rejected")
  /\ UNCHANGED <<objects, callVars, key, request, answer, userVars, keyVars,
                 lacked, faults>>

-----------------------------------------------------------------------------
(* The use case and the service class, up to the request.                  *)

NeedsKey(c) == data[c] \in {"metadata", "bank", "text"}
Unexpected(c) == op[c] = "refreshFundingSource" /\ data[c] = "card"

\* Variant: the version the caller expects is not passed on.
SendUnversioned(c, k) ==
  /\ Goto(c, "sent")
  /\ request' = [request EXCEPT ![c] = [expected |-> None, key |-> k]]

\* The request leaves.
Send(c, k) ==
  /\ Goto(c, "sent")
  /\ request' = [request EXCEPT ![c] = [expected |-> expected[c], key |-> k]]

\* Variant: the guard is taken to have settled the matter.
CheckPassedEver(c) ==
  /\ pc[c] = "check" /\ Turn(c)
  /\ ~Unexpected(c)
  /\ IF NeedsKey(c) THEN Goto(c, "key") /\ request' = request
                    ELSE Send(c, None)
  /\ UNCHANGED <<objects, callVars, key, answer, result, queue, userVars,
                 keyVars, shown, lacked, faults>>

\* The use case finds the user signed in.
CheckPassed(c) ==
  /\ pc[c] = "check" /\ Turn(c) /\ signedIn
  /\ ~Unexpected(c)
  /\ IF NeedsKey(c) THEN Goto(c, "key") /\ request' = request
                    ELSE Send(c, None)
  /\ UNCHANGED <<objects, callVars, key, answer, result, queue, userVars,
                 keyVars, shown, lacked, faults>>

\* NotSignedInError; or FatalError, for data of a credit card to refresh.
CheckFails(c) ==
  /\ pc[c] = "check" /\ Turn(c)
  /\ ~signedIn \/ Unexpected(c)
  /\ Settle(c, "rejected")
  /\ UNCHANGED <<objects, callVars, key, request, answer, userVars, keyVars,
                 lacked, faults>>

\* getCurrentPublicKey: the cached key or else the one in the store.
CurrentPublicKey == IF pairKey = None /\ "pair" \in held THEN "pair" ELSE pairKey

\* A bank account needs it.  A refresh without an authorization text has nothing
\* to sign.
FindPublicKey(c) ==
  /\ pc[c] = "key" /\ op[c] # "updateVirtualCard" /\ CurrentPublicKey # None
  /\ pairKey' = CurrentPublicKey
  /\ key' = [key EXCEPT ![c] = pairKey']
  /\ IF op[c] = "refreshFundingSource" /\ data[c] = "bank"
       THEN Send(c, pairKey')
       ELSE Goto(c, "seal") /\ request' = request
  /\ UNCHANGED <<objects, callVars, answer, result, queue, userVars, held,
                 symKey, shown, lacked, faults>>

\* Variant: without a key the call waits for createKeysIfAbsent, mutex in hand.
NoPublicKeyWaits(c) ==
  /\ pc[c] = "key" /\ op[c] # "updateVirtualCard" /\ CurrentPublicKey = None
  /\ pairKey # None
  /\ Settle(c, "rejected")
  /\ UNCHANGED <<objects, callVars, key, request, answer, userVars, keyVars,
                 lacked, faults>>

\* KeyNotFoundError.
NoPublicKey(c) ==
  /\ pc[c] = "key" /\ op[c] # "updateVirtualCard" /\ CurrentPublicKey = None
  /\ Settle(c, "rejected")
  /\ UNCHANGED <<objects, callVars, key, request, answer, userVars, keyVars,
                 lacked, faults>>

\* getCurrentSymmetricKeyId ?? generateCurrentSymmetricKey, for metadata.
FindSymmetricKey(c) ==
  /\ pc[c] = "key" /\ op[c] = "updateVirtualCard" /\ Goto(c, "seal")
  /\ symKey' = IF symKey = None THEN c ELSE symKey
  /\ held' = held \cup {symKey'}
  /\ key' = [key EXCEPT ![c] = symKey']
  /\ UNCHANGED <<objects, callVars, request, answer, result, queue, userVars,
                 pairKey, shown, lacked, faults>>

\* sealString or signString, and the request leaves.
Seal(c) ==
  /\ pc[c] = "seal" /\ key[c] \in held
  /\ Send(c, key[c])
  /\ UNCHANGED <<objects, callVars, key, answer, result, queue, userVars,
                 keyVars, shown, lacked, faults>>

\* The key is gone.
SealFails(c) ==
  /\ pc[c] = "seal" /\ key[c] \notin held
  /\ Settle(c, "rejected")
  /\ UNCHANGED <<objects, callVars, key, request, answer, userVars, keyVars,
                 lacked, faults>>

-----------------------------------------------------------------------------
(* The service.                                                            *)

\* What the operations do to an object.  Only a bank account can be stale, that
\* is, in need of refresh.
Transitions ==
  {<<"setupFundingSource", "none", "provisioning">>,
   <<"completeFundingSource", "provisioning", "active">>,
   <<"cancelProvisionalFundingSource", "provisioning", "failed">>,
   <<"refreshFundingSource", "stale", "active">>,
   <<"sandboxSetFundingSourceToRequireRefresh", "active", "stale">>,
   <<"reviewUnfundedFundingSource", "active", "active">>,
   <<"reviewUnfundedFundingSource", "stale", "stale">>,
   <<"cancelFundingSource", "active", "inactive">>,
   <<"cancelFundingSource", "stale", "inactive">>,
   <<"updateVirtualCard", "active", "active">>,
   <<"cancelVirtualCard", "active", "inactive">>}

\* The object after request r of operation p moved it to state s.
Moved(x, p, s, r) ==
  [state |-> s, version |-> x.version + 1,
   key |-> IF p # "updateVirtualCard" /\ r.key # None THEN r.key ELSE x.key,
   metadata |-> IF p = "updateVirtualCard" /\ r.key # None THEN r.key ELSE x.metadata]

Pending(c) == request[c] # None /\ answer[c] = None

\* A mutation is carried out, if its version is the current one.
Act(c) ==
  /\ Pending(c)
  /\ request[c].expected \in {None, objects[obj[c]].version}
  /\ \E s \in States :
       /\ <<op[c], objects[obj[c]].state, s>> \in Transitions
       /\ s = "stale" => objects[obj[c]].key # None
       /\ objects' = [objects EXCEPT ![obj[c]] = Moved(@, op[c], s, request[c])]
  /\ answer' = [answer EXCEPT ![c] = objects'[obj[c]]]
  /\ UNCHANGED <<callVars, pc, key, request, result, queue, userVars, keyVars,
                 shown, lacked, faults>>

\* A query is answered.
Read(c) ==
  /\ Pending(c) /\ op[c] \in Reads
  /\ answer' = [answer EXCEPT ![c] = objects[obj[c]]]
  /\ UNCHANGED <<objects, callVars, pc, key, request, result, queue, userVars,
                 keyVars, shown, lacked, faults>>

\* The service declines: wrong state, wrong version, or reasons of its own.
Refuse(c) ==
  /\ Pending(c) /\ op[c] \notin Reads
  /\ answer' = [answer EXCEPT ![c] = Refused]
  /\ UNCHANGED <<objects, callVars, pc, key, request, result, queue, userVars,
                 keyVars, shown, lacked, faults>>

Changed(x, s) ==
  [state |-> s, version |-> x.version + 1, key |-> x.key, metadata |-> x.metadata]

\* Another device, or the service itself, changes a card or funding source.
Elsewhere(o) ==
  /\ objects[o].state \in {"active", "stale"} /\ objects[o].version < MaxVersion
  /\ \E s \in {"active", "inactive"} \cup (IF o \in Sources THEN {"stale"} ELSE {}) :
       /\ s = "stale" => objects[o].key # None
       /\ objects' = [objects EXCEPT ![o] = Changed(@, s)]
  /\ UNCHANGED <<callVars, pc, key, request, answer, result, queue, userVars,
                 keyVars, shown, lacked, faults>>

-----------------------------------------------------------------------------
(* The answer.                                                             *)

\* performQuery and performMutation hand on the data.
Answered(c) ==
  /\ pc[c] = "sent" /\ answer[c] \notin {None, Refused}
  /\ Goto(c, "unseal")
  /\ UNCHANGED <<objects, callVars, key, request, answer, result, queue,
                 userVars, keyVars, shown, lacked, faults>>

\* They throw the service's error.
Declined(c) ==
  /\ pc[c] = "sent" /\ answer[c] = Refused
  /\ Settle(c, "rejected")
  /\ UNCHANGED <<objects, callVars, key, request, answer, userVars, keyVars,
                 lacked, faults>>

\* Variant: a request without an answer is sent again.
AnswerLostRetried(c) ==
  /\ Fault
  /\ pc[c] = "sent"
  /\ answer' = [answer EXCEPT ![c] = None]
  /\ UNCHANGED <<objects, callVars, pc, key, request, result, queue, userVars,
                 keyVars, shown, lacked>>

\* They throw a network error; the request may have been acted on or not.
AnswerLost(c) ==
  /\ Fault
  /\ pc[c] = "sent"
  /\ Settle(c, "lost")
  /\ UNCHANGED <<objects, callVars, key, request, answer, userVars, keyVars,
                 lacked>>

\* Variant: only the cached key pair is tried.
ReadableCached(x) == {x.key, x.metadata} \subseteq {pairKey, symKey, None}

\* The keys it is sealed with are on the device.
Readable(x) == {x.key, x.metadata} \subseteq held \cup {None}

\* Variant: a card that cannot be unsealed rejects the call.
UnsealedStrict(c) ==
  /\ pc[c] = "unseal"
  /\ Settle(c, IF Readable(answer[c]) THEN "success" ELSE "rejected")
  /\ UNCHANGED <<objects, callVars, key, request, answer, userVars, keyVars,
                 lacked, faults>>

\* What came back is unsealed.  If it cannot be, update and cancel of a card
\* report a partial result, everything else rejects.
Unsealed(c) ==
  /\ pc[c] = "unseal"
  /\ Settle(c, IF Readable(answer[c]) THEN "success"
               ELSE IF op[c] \in CardOperations \ Reads THEN "partial"
               ELSE "rejected")
  /\ UNCHANGED <<objects, callVars, key, request, answer, userVars, keyVars,
                 lacked, faults>>

-----------------------------------------------------------------------------
(* The user and the keys.                                                  *)

\* The user signs out: whatever has not passed its check is overtaken.
SignOut ==
  /\ Fault
  /\ signedIn /\ signedIn' = FALSE
  /\ barred' = {c \in Calls : pc[c] \in {"new", "guard", "check"}}
  /\ UNCHANGED <<objects, callVars, pc, key, request, answer, result, queue,
                 keyVars, shown, lacked>>

SignIn ==
  /\ ~signedIn /\ signedIn' = TRUE /\ barred' = {}
  /\ UNCHANGED <<objects, callVars, pc, key, request, answer, result, queue,
                 keyVars, shown, lacked, faults>>

\* reset, outside the mutex.  The cached public key stays.
Reset ==
  /\ Fault
  /\ held # {}
  /\ held' = {} /\ symKey' = None /\ lacked' = TRUE
  /\ UNCHANGED <<objects, callVars, pc, key, request, answer, result, queue,
                 userVars, pairKey, shown>>

\* importKeys, outside the mutex, of an archive with the key pair and symmetric
\* key the user began with; it may clear the store first.
ImportKeys ==
  /\ ~({"pair", "symmetric"} \subseteq held)
  /\ \E kept \in {held, {}} : held' = kept \cup {"pair", "symmetric"}
  /\ symKey' = "symmetric"
  /\ UNCHANGED <<objects, callVars, pc, key, request, answer, result, queue,
                 userVars, pairKey, shown, lacked, faults>>

-----------------------------------------------------------------------------
Finished == (\A c \in Calls : pc[c] = "settled") /\ UNCHANGED vars

ClientStep(c) ==
  \/ EnsureSignedIn(c) \/ CallbackThrows(c) \/ CheckPassed(c) \/ CheckFails(c)
  \/ FindPublicKey(c) \/ NoPublicKey(c) \/ FindSymmetricKey(c) \/ Seal(c)
  \/ SealFails(c) \/ Answered(c) \/ Declined(c) \/ Unsealed(c)

ServiceStep(c) == Act(c) \/ Read(c) \/ Refuse(c)

Next ==
  \/ \E c \in Calls :
       Start(c) \/ ClientStep(c) \/ ServiceStep(c) \/ AnswerLost(c)
  \/ \E o \in Objects : Elsewhere(o)
  \/ SignOut \/ SignIn \/ Reset \/ ImportKeys
  \/ Finished

Spec == Init /\ [][Next]_vars

\* The event loop does not idle while a continuation can run, the host's callback
\* returns, and the service answers.  Weaker than fairness to every call.
Fairness == WF_vars(\E c \in Calls : ClientStep(c) \/ ServiceStep(c))

FairSpec == Spec /\ Fairness

-----------------------------------------------------------------------------
(* Properties.                                                             *)

CardMutations == CardOperations \ Reads

\* A call that rejects has changed nothing at the service, unless the answer
\* was lost or the device lacked keys: a host may take a rejection at its word
\* and retry.  For update and cancel of a card that holds without any keys.
RejectedUnchanged ==
  \A c \in Calls :
    result[c] = "rejected" /\ (lacked => op[c] \in CardMutations)
      => answer[c] \in {None, Refused} \/ op[c] \in Reads

\* Once the user signs out, nothing is sent for calls that were still queueing
\* or had not been made, for as long as the user stays signed out.
SignedOutSendsNothing == \A c \in barred : request[c] = None

\* The host is never shown a card older than it was shown before, in whatever
\* order its calls settle.
CardsNeverOlder ==
  [][\A o \in Cards : shown'[o].version >= shown[o].version]_vars

\* An update made with an expected version replaces that version of the card
\* and no other, however late its request arrives.
NoLostUpdate ==
  [][\A c \in Calls :
       expected[c] # None /\ answer[c] = None /\ answer'[c] \in Object
         => objects[obj[c]].version = expected[c]]_vars

\* From some moment on no call is under way: whatever happens, every call settles
\* and hands the mutex on.
CallsSettle == <>[](\A c \in Calls : pc[c] \in {"new", "settled"})

\* The operations as the host may think of them.
Atomic == INSTANCE AtomicOperations WITH
  phase <- [c \in Calls |-> IF pc[c] \in {"new", "settled"} THEN pc[c] ELSE "open"],
  target <- obj,
  serial <- {c \in Calls : Serialised(op[c])},
  turn <- IF queue = <<>> THEN None ELSE Head(queue),
  effect <- answer,
  outcome <- result

\* Every call takes effect at most once, in one step between its call and its
\* settling, and reports what it found or made in that step; serialised calls
\* take effect in turn.
OperationsAtomic == Atomic!Spec
===============================================================================
