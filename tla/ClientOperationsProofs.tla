------------------------ MODULE ClientOperationsProofs ------------------------
(* Theorems about ClientOperations, for any number of calls, cards and      *)
(* funding sources, any choice of operations, and any number of faults.     *)
EXTENDS ClientOperations, SequenceTheorems, TLAPS

-----------------------------------------------------------------------------
(* The life of a call.                                                      *)

Early == {"new", "guard", "check", "key", "seal"}

\* What the progress of a call says of its request, its answer and its result.
LifeInv ==
  \A c \in Calls :
    /\ pc[c] = "new" => op[c] = "none"
    /\ pc[c] # "new" => /\ op[c] \in Operations /\ obj[c] \in Objects
                        /\ obj[c] \in Cards <=> op[c] \in CardOperations
    /\ expected[c] # None => op[c] = "updateVirtualCard"
    /\ pc[c] \in Early => request[c] = None
    /\ pc[c] = "sent" => request[c] # None
    /\ request[c] # None => request[c].expected = expected[c]
    /\ request[c] = None => answer[c] = None
    /\ pc[c] = "unseal" => answer[c] \notin {None, Refused}
    /\ pc[c] = "settled" <=> result[c] # "none"
    /\ pc[c] = "settled" /\ request[c] # None /\ answer[c] = None
         => result[c] = "lost"

\* The mutex is queued for by serialised calls, once each, and only its holder
\* is past the check.
HolderInv ==
  \A c \in Calls :
    Serialised(op[c]) /\ pc[c] \in {"key", "seal", "sent", "unseal"}
      => queue # <<>> /\ Head(queue) = c
QueueInv ==
  /\ \A i \in 1..Len(queue) : Waiting(queue[i])
  /\ \A i, j \in 1..Len(queue) : queue[i] = queue[j] => i = j

CallInv == TypeOK /\ LifeInv /\ HolderInv /\ QueueInv

\* A sign-out stays in force for the calls it overtook.
BarredInv ==
  /\ barred # {} => ~signedIn
  /\ \A c \in barred : pc[c] \in {"new", "guard", "check", "settled"}
                         /\ request[c] = None

\* No answer is ahead of its card, and none still to be shown is behind what the
\* host was shown.
VersionInv ==
  /\ \A o \in Cards : shown[o].version <= objects[o].version
  /\ \A c \in Calls :
       obj[c] \in Cards /\ answer[c] \notin {None, Refused}
         => /\ answer[c].version <= objects[obj[c]].version
            /\ pc[c] \in {"sent", "unseal"}
                 => shown[obj[c]].version <= answer[c].version

\* While the device lacked no key, everything is sealed with keys it holds.
KeyInv ==
  ~lacked =>
    /\ {"pair", "symmetric"} \subseteq held
    /\ pairKey \in {"pair", None} /\ symKey \in held \cup {None}
    /\ \A c \in Calls :
         /\ key[c] \in held \cup {None}
         /\ request[c] # None => request[c].key \in held \cup {None}
         /\ answer[c] \notin {None, Refused} => Readable(answer[c])
    /\ \A o \in Objects : Readable(objects[o])

\* Why a call was rejected.
RejectedInv ==
  \A c \in Calls :
    result[c] = "rejected" =>
      \/ request[c] = None \/ answer[c] = Refused \/ op[c] \in Reads
      \/ lacked /\ op[c] \notin CardMutations

-----------------------------------------------------------------------------
(* Two patterns that most steps of a call follow.                           *)

\* A call prepares its request and perhaps sends it.
Prepares(c) ==
  /\ pc[c] \in {"check", "key", "seal"} /\ (pc[c] = "check" => Turn(c) /\ signedIn)
  /\ \/ /\ \E l \in {"key", "seal"} : pc' = [pc EXCEPT ![c] = l]
        /\ request' = request
     \/ \E k \in Keys \cup {None} : Send(c, k) /\ k \in {key'[c], None}
  /\ UNCHANGED <<objects, callVars, answer, result, queue, userVars, shown,
                 lacked, faults>>

\* A call settles.
Settles(c) ==
  /\ pc[c] \notin {"new", "settled"} /\ (Waiting(c) => Turn(c))
  /\ \E o \in Results \ {"none"} :
       /\ Settle(c, o)
       /\ o \in {"success", "partial"} => pc[c] = "unseal"
       /\ request[c] # None /\ answer[c] = None => o = "lost"
       /\ o = "rejected" =>
            \/ request[c] = None \/ answer[c] = Refused
            \/ ~Readable(answer[c]) /\ op[c] \notin CardMutations
  /\ UNCHANGED <<objects, callVars, key, request, answer, userVars, keyVars,
                 lacked>>
  /\ faults' \in 0..MaxFaults

LEMMA PrepareSteps ==
  ASSUME TypeOK, NEW c \in Calls,
         CheckPassed(c) \/ FindPublicKey(c) \/ FindSymmetricKey(c) \/ Seal(c)
  PROVE  Prepares(c)
<1> USE DEF TypeOK, Prepares, Goto, userVars, keyVars, callVars
<1>1. CASE CheckPassed(c)
  BY <1>1 DEF CheckPassed
<1>2. CASE FindPublicKey(c)
  <2>1. CurrentPublicKey \in Keys
    BY <1>2 DEF FindPublicKey, CurrentPublicKey, Keys
  <2>2. key'[c] = pairKey' /\ pairKey' \in Keys
    BY <1>2, <2>1 DEF FindPublicKey
  <2>3. QED  BY <1>2, <2>2 DEF FindPublicKey
<1>3. CASE FindSymmetricKey(c)
  BY <1>3 DEF FindSymmetricKey
<1>4. CASE Seal(c)
  BY <1>4 DEF Seal
<1>5. QED  BY <1>1, <1>2, <1>3, <1>4

LEMMA SettleSteps ==
  ASSUME TypeOK, LifeInv, HolderInv, NEW c \in Calls,
         \/ CallbackThrows(c) \/ CheckFails(c) \/ NoPublicKey(c) \/ SealFails(c)
         \/ Declined(c) \/ AnswerLost(c) \/ Unsealed(c)
  PROVE  Settles(c)
<1> USE SettingsAssumption, RefusedAssumption
    DEF TypeOK, LifeInv, HolderInv, Settles, Waiting, Turn, Early, Results
<1>1. CASE CallbackThrows(c)
  BY <1>1 DEF CallbackThrows
<1>2. CASE CheckFails(c)
  BY <1>2 DEF CheckFails
<1>3. CASE NoPublicKey(c)
  BY <1>3 DEF NoPublicKey
<1>4. CASE SealFails(c)
  BY <1>4 DEF SealFails
<1>5. CASE Declined(c)
  BY <1>5 DEF Declined
<1>6. CASE AnswerLost(c)
  BY <1>6 DEF AnswerLost, Fault
<1>7. CASE Unsealed(c)
  <2>1. PICK o \in {"success", "partial", "rejected"} :
          /\ Settle(c, o)
          /\ o = "rejected" => ~Readable(answer[c]) /\ op[c] \notin CardMutations
    BY <1>7 DEF Unsealed, CardMutations
  <2>2. pc[c] = "unseal" /\ answer[c] # None
    BY <1>7 DEF Unsealed
  <2>3. QED  BY <1>7, <2>1, <2>2 DEF Unsealed
<1>8. QED  BY <1>1, <1>2, <1>3, <1>4, <1>5, <1>6, <1>7

-----------------------------------------------------------------------------
(* Types.                                                                   *)

LEMMA SettlesType == ASSUME TypeOK, LifeInv, NEW c \in Calls, Settles(c)
                     PROVE  TypeOK'
<1>1. PICK o \in Results \ {"none"} :
        /\ Settle(c, o)
        /\ o \in {"success", "partial"} => pc[c] = "unseal"
  BY DEF Settles
<1>2. pc' \in [Calls -> Pc] /\ result' \in [Calls -> Results]
  BY <1>1 DEF Settle, Goto, TypeOK, Pc
<1>3. o \in {"success", "partial"} => answer[c] \in Object
  BY <1>1 DEF LifeInv, TypeOK
<1>4. shown' \in [Cards -> Object]
  BY <1>1, <1>3 DEF Settle, TypeOK
<1>5. Waiting(c) => queue # <<>>
  BY DEF Settles, Turn, Waiting
<1>6. queue' \in Seq(Calls)
  BY <1>1, <1>5 DEF Settle, TypeOK
<1>7. QED
  BY <1>2, <1>4, <1>6 DEF Settles, TypeOK, callVars, userVars, keyVars

LEMMA NextType == TypeOK /\ LifeInv /\ HolderInv /\ [Next]_vars => TypeOK'
<1> SUFFICES ASSUME TypeOK, LifeInv, HolderInv, [Next]_vars PROVE TypeOK'
  OBVIOUS
<1>1. ASSUME NEW c \in Calls, Start(c)
      PROVE  TypeOK'
  <2>1. PICK p \in Operations, b \in Objects :
          /\ op' = [op EXCEPT ![c] = p] /\ obj' = [obj EXCEPT ![c] = b]
          /\ b \in Cards <=> p \in CardOperations
          /\ \E e \in IF p = "updateVirtualCard"
                        THEN {None, shown[b].version} ELSE {None} :
               expected' = [expected EXCEPT ![c] = e]
          /\ \E d \in DataFor(p) : data' = [data EXCEPT ![c] = d]
    BY <1>1 DEF Start
  <2>2. p = "updateVirtualCard" => shown[b].version \in Nat
    BY <2>1 DEF TypeOK, Object, CardOperations
  <2>3. expected' \in [Calls -> Nat \cup {None}]
    BY <2>1, <2>2 DEF TypeOK
  <2>4. DataFor(p) \subseteq Data
    BY DEF DataFor, Data
  <2>5. data' \in [Calls -> Data]
    BY <2>1, <2>4 DEF TypeOK
  <2>6. pc' \in [Calls -> Pc]
    BY <1>1 DEF Start, Goto, TypeOK, Pc
  <2>7. QED
    BY <1>1, <2>1, <2>3, <2>5, <2>6 DEF Start, TypeOK, userVars, keyVars
<1>2. ASSUME NEW c \in Calls, EnsureSignedIn(c)
      PROVE  TypeOK'
  BY <1>2, SettingsAssumption
     DEF EnsureSignedIn, Goto, TypeOK, Pc, callVars, keyVars
<1>3. ASSUME NEW c \in Calls,
             CheckPassed(c) \/ FindPublicKey(c) \/ FindSymmetricKey(c) \/ Seal(c)
      PROVE  TypeOK'
  <2>1. Prepares(c)
    BY <1>3, PrepareSteps
  <2>2. pc' \in [Calls -> Pc]
    BY <2>1 DEF Prepares, Send, Goto, TypeOK, Pc
  <2>3. \A k \in Keys \cup {None} :
          [expected |-> expected[c], key |-> k] \in Request
    BY DEF TypeOK, Request
  <2>4. request' \in [Calls -> Request \cup {None}]
    BY <2>1, <2>3 DEF Prepares, Send, TypeOK
  <2>5. /\ held' \subseteq Keys /\ pairKey' \in Keys \cup {None}
        /\ symKey' \in Keys \cup {None} /\ key' \in [Calls -> Keys \cup {None}]
    <3>1. CASE CheckPassed(c) \/ Seal(c)
      BY <3>1 DEF CheckPassed, Seal, keyVars, TypeOK
    <3>2. CASE FindPublicKey(c)
      <4>1. CurrentPublicKey \in Keys \cup {None}
        BY DEF CurrentPublicKey, Keys, TypeOK
      <4>2. QED  BY <3>2, <4>1 DEF FindPublicKey, TypeOK
    <3>3. CASE FindSymmetricKey(c)
      <4>1. symKey' \in Keys
        BY <3>3 DEF FindSymmetricKey, Keys, TypeOK
      <4>2. QED  BY <3>3, <4>1 DEF FindSymmetricKey, TypeOK
    <3>4. QED  BY <1>3, <3>1, <3>2, <3>3
  <2>6. QED
    BY <2>1, <2>2, <2>4, <2>5 DEF Prepares, TypeOK, callVars, userVars
<1>4. ASSUME NEW c \in Calls,
             \/ CallbackThrows(c) \/ CheckFails(c) \/ NoPublicKey(c) \/ SealFails(c)
             \/ Declined(c) \/ AnswerLost(c) \/ Unsealed(c)
      PROVE  TypeOK'
  BY <1>4, SettleSteps, SettlesType
<1>5. ASSUME NEW c \in Calls, Act(c)
      PROVE  TypeOK'
  <2>1. request[c] # None /\ obj[c] \in Objects
    BY <1>5 DEF Act, Pending, LifeInv, Early
  <2>2. \A p, s : s \in States =>
          Moved(objects[obj[c]], p, s, request[c]) \in Object
    BY <2>1 DEF Moved, TypeOK, Object, Request
  <2>3. objects' \in [Objects -> Object]
    BY <1>5, <2>1, <2>2 DEF Act, TypeOK
  <2>4. QED
    BY <1>5, <2>1, <2>3 DEF Act, TypeOK, callVars, userVars, keyVars
<1>6. ASSUME NEW c \in Calls, Read(c) \/ Refuse(c) \/ Answered(c)
      PROVE  TypeOK'
  <2>1. request[c] # None => obj[c] \in Objects
    BY DEF LifeInv, Early
  <2>2. QED
    BY <1>6, <2>1 DEF Read, Refuse, Answered, Pending, Goto, TypeOK, Pc, callVars,
                      userVars, keyVars
<1>7. ASSUME NEW o \in Objects, Elsewhere(o)
      PROVE  TypeOK'
  <2>1. PICK s \in States : objects' = [objects EXCEPT ![o] = Changed(@, s)]
    BY <1>7 DEF Elsewhere, States
  <2>2. Changed(objects[o], s) \in Object
    BY DEF Changed, TypeOK, Object
  <2>3. QED
    BY <1>7, <2>1, <2>2 DEF Elsewhere, TypeOK, callVars, userVars, keyVars
<1>8. CASE SignOut \/ SignIn \/ Reset \/ ImportKeys
  <2>1. faults' \in 0..MaxFaults
    BY <1>8, SettingsAssumption
       DEF SignOut, SignIn, Reset, ImportKeys, Fault, TypeOK
  <2>2. /\ signedIn' \in BOOLEAN /\ lacked' \in BOOLEAN /\ barred' \subseteq Calls
        /\ held' \subseteq Keys /\ symKey' \in Keys \cup {None}
    BY <1>8 DEF SignOut, SignIn, Reset, ImportKeys, TypeOK, Keys, userVars, keyVars
  <2>3. UNCHANGED <<objects, callVars, pc, key, request, answer, result, queue,
                    pairKey, shown>>
    BY <1>8 DEF SignOut, SignIn, Reset, ImportKeys, userVars, keyVars
  <2>4. QED  BY <2>1, <2>2, <2>3 DEF TypeOK, callVars
<1>9. CASE UNCHANGED vars
  BY <1>9 DEF vars, callVars, userVars, keyVars, TypeOK
<1>10. QED
  BY <1>1, <1>2, <1>3, <1>4, <1>5, <1>6, <1>7, <1>8, <1>9
     DEF Next, ClientStep, ServiceStep, Finished

-----------------------------------------------------------------------------
(* Calls and the mutex.                                                     *)

LEMMA NextLife ==
  TypeOK /\ LifeInv /\ HolderInv /\ [Next]_vars => LifeInv'
<1> SUFFICES ASSUME TypeOK, LifeInv, HolderInv, [Next]_vars PROVE LifeInv'
  OBVIOUS
<1>0. "none" \notin CardOperations \cup SourceOperations
  BY DEF CardOperations, SourceOperations
<1>1. ASSUME NEW c \in Calls, Start(c)
      PROVE  LifeInv'
  <2>1. PICK p \in Operations, b \in Objects :
          /\ op' = [op EXCEPT ![c] = p] /\ obj' = [obj EXCEPT ![c] = b]
          /\ b \in Cards <=> p \in CardOperations
          /\ \E e : /\ expected' = [expected EXCEPT ![c] = e]
                    /\ e # None => p = "updateVirtualCard"
    BY <1>1 DEF Start
  <2>2. QED
    BY <1>1, <2>1 DEF Start, Goto, LifeInv, TypeOK, Early
<1>2. ASSUME NEW c \in Calls, EnsureSignedIn(c)
      PROVE  LifeInv'
  BY <1>2 DEF EnsureSignedIn, Goto, LifeInv, TypeOK, Early, callVars
<1>3. ASSUME NEW c \in Calls, Prepares(c)
      PROVE  LifeInv'
  <2>1. CASE /\ \E l \in {"key", "seal"} : pc' = [pc EXCEPT ![c] = l]
             /\ request' = request
    BY <1>3, <2>1 DEF Prepares, LifeInv, TypeOK, Early, callVars
  <2>2. CASE \E k \in Keys \cup {None} : Send(c, k)
    <3>1. PICK k \in Keys \cup {None} : Send(c, k)
      BY <2>2
    <3>2. [expected |-> expected[c], key |-> k] \in Request
      BY DEF TypeOK, Request
    <3>3. [expected |-> expected[c], key |-> k] # None
      BY <3>2, NoneAssumption
    <3>4. QED
      BY <1>3, <3>1, <3>3 DEF Prepares, Send, Goto, LifeInv, TypeOK, Early, callVars
  <2>3. QED  BY <1>3, <2>1, <2>2 DEF Prepares
<1>4. ASSUME NEW c \in Calls, Settles(c)
      PROVE  LifeInv'
  BY <1>4 DEF Settles, Settle, Goto, LifeInv, TypeOK, Early, Results, callVars
<1>5. ASSUME NEW c \in Calls, Act(c) \/ Read(c) \/ Refuse(c)
      PROVE  LifeInv'
  <2>1. /\ answer' = [answer EXCEPT ![c] = answer'[c]]
        /\ request[c] # None /\ answer[c] = None
        /\ UNCHANGED <<callVars, pc, request, result>>
    BY <1>5 DEF Act, Read, Refuse, Pending, TypeOK
  <2>2. QED
    BY <2>1 DEF LifeInv, TypeOK, Early, callVars
<1>6. ASSUME NEW c \in Calls, Answered(c)
      PROVE  LifeInv'
  BY <1>6 DEF Answered, Goto, LifeInv, TypeOK, Early, callVars
<1>7. ASSUME UNCHANGED <<callVars, pc, request, answer, result>>
      PROVE  LifeInv'
  BY <1>7 DEF LifeInv, callVars
<1>8. CASE (\E o \in Objects : Elsewhere(o)) \/ SignOut \/ SignIn \/ Reset
          \/ ImportKeys \/ UNCHANGED vars
  BY <1>7, <1>8 DEF Elsewhere, SignOut, SignIn, Reset, ImportKeys, vars, callVars
<1>9. QED
  BY <1>1, <1>2, <1>3, <1>4, <1>5, <1>6, <1>8, PrepareSteps, SettleSteps
     DEF Next, ClientStep, ServiceStep, Finished

LEMMA NextQueue == CallInv /\ [Next]_vars => HolderInv' /\ QueueInv'
<1> SUFFICES ASSUME CallInv, [Next]_vars PROVE HolderInv' /\ QueueInv'
  OBVIOUS
<1> USE DEF CallInv, HolderInv, QueueInv, Waiting
<1>0. \A d \in Calls : pc[d] = "new" => ~Serialised(op[d])
  BY DEF LifeInv, Serialised, CardOperations, SourceOperations
<1>a. \A i \in 1..Len(queue) : queue[i] \in Calls
  BY DEF TypeOK
<1>1. ASSUME NEW c \in Calls, Start(c)
      PROVE  HolderInv' /\ QueueInv'
  <2>1. /\ \A d \in Calls \ {c} : pc'[d] = pc[d] /\ op'[d] = op[d]
        /\ pc[c] = "new" /\ pc'[c] = "guard" /\ queue' = queue
    BY <1>1 DEF Start, Goto, TypeOK
  <2>2. \A i \in 1..Len(queue) : queue[i] # c
    BY <2>1
  <2>3. QED  BY <1>a, <2>1, <2>2
<1>2. ASSUME NEW c \in Calls, EnsureSignedIn(c)
      PROVE  HolderInv' /\ QueueInv'
  <2>1. /\ \A d \in Calls \ {c} : pc'[d] = pc[d]
        /\ pc[c] = "guard" /\ pc'[c] = "check" /\ op' = op
    BY <1>2 DEF EnsureSignedIn, Goto, TypeOK, callVars
  <2>2. \A i \in 1..Len(queue) : queue[i] # c
    BY <2>1
  <2>3. CASE queue' = queue
    BY <1>a, <2>1, <2>2, <2>3
  <2>4. CASE queue' = Append(queue, c) /\ Serialised(op[c])
    <3>1. /\ Len(queue') = Len(queue) + 1 /\ queue'[Len(queue) + 1] = c
          /\ \A i \in 1..Len(queue) : queue'[i] = queue[i]
      BY <2>4 DEF TypeOK
    <3>2. Len(queue) \in Nat
      BY DEF TypeOK
    <3>3. QueueInv'
      BY <1>a, <2>1, <2>2, <2>4, <3>1, <3>2
    <3>4. queue # <<>> => Head(queue') = Head(queue)
      BY <2>4 DEF TypeOK
    <3>5. queue' # <<>>
      BY <3>1, <3>2
    <3>6. HolderInv'
      BY <2>1, <3>4, <3>5
    <3>7. QED  BY <3>3, <3>6
  <2>5. QED  BY <1>2, <2>3, <2>4 DEF EnsureSignedIn
<1>3. ASSUME NEW c \in Calls, Prepares(c)
      PROVE  HolderInv' /\ QueueInv'
  <2>1. /\ \A d \in Calls \ {c} : pc'[d] = pc[d]
        /\ pc[c] \in {"check", "key", "seal"} /\ pc'[c] \in {"key", "seal", "sent"}
        /\ op' = op /\ queue' = queue
    BY <1>3 DEF Prepares, Send, Goto, TypeOK, callVars
  <2>2. Serialised(op[c]) => queue # <<>> /\ Head(queue) = c
    BY <1>3 DEF Prepares, Turn
  <2>3. QED  BY <1>a, <2>1, <2>2
<1>4. ASSUME NEW c \in Calls, Settles(c)
      PROVE  HolderInv' /\ QueueInv'
  <2>1. /\ \A d \in Calls \ {c} : pc'[d] = pc[d]
        /\ pc'[c] = "settled" /\ op' = op
        /\ queue' = IF Waiting(c) THEN Tail(queue) ELSE queue
    BY <1>4 DEF Settles, Settle, Goto, TypeOK, callVars
  <2>2. CASE Waiting(c)
    <3>1. queue # <<>> /\ Head(queue) = c /\ queue' = Tail(queue)
      BY <1>4, <2>1, <2>2 DEF Settles, Turn
    <3>2. /\ Len(queue) \in Nat /\ Len(queue) # 0 /\ queue[1] = c
          /\ Len(queue') = Len(queue) - 1
          /\ \A i \in 1..Len(queue') : queue'[i] = queue[i + 1]
      BY <3>1 DEF TypeOK
    <3>3. \A i \in 1..Len(queue') : i + 1 \in 1..Len(queue) /\ queue'[i] # c
      BY <3>2
    <3>4. QueueInv'
      BY <1>a, <2>1, <3>2, <3>3
    <3>5. HolderInv'
      BY <2>1, <3>1
    <3>6. QED  BY <3>4, <3>5
  <2>3. CASE ~Waiting(c)
    <3>1. \A i \in 1..Len(queue) : queue[i] # c
      BY <2>3
    <3>2. QED  BY <1>a, <2>1, <2>3, <3>1
  <2>4. QED  BY <2>2, <2>3
<1>5. ASSUME NEW c \in Calls, Answered(c)
      PROVE  HolderInv' /\ QueueInv'
  <2>1. /\ \A d \in Calls \ {c} : pc'[d] = pc[d]
        /\ pc[c] = "sent" /\ pc'[c] = "unseal" /\ op' = op /\ queue' = queue
    BY <1>5 DEF Answered, Goto, TypeOK, callVars
  <2>2. QED  BY <1>a, <2>1
<1>6. ASSUME UNCHANGED <<op, pc, queue>>
      PROVE  HolderInv' /\ QueueInv'
  BY <1>6
<1>7. CASE \/ \E c \in Calls : Act(c) \/ Read(c) \/ Refuse(c)
           \/ \E o \in Objects : Elsewhere(o)
           \/ SignOut \/ SignIn \/ Reset \/ ImportKeys \/ UNCHANGED vars
  BY <1>6, <1>7 DEF Act, Read, Refuse, Elsewhere, SignOut, SignIn, Reset,
                    ImportKeys, vars, callVars
<1>8. QED
  BY <1>1, <1>2, <1>3, <1>4, <1>5, <1>7, PrepareSteps, SettleSteps
     DEF Next, ClientStep, ServiceStep, Finished

LEMMA InitCall == Init => CallInv
<1> SUFFICES ASSUME Init PROVE CallInv  OBVIOUS
<1>1. objects \in [Objects -> Object]
  BY DEF Init, Object, States, Keys
<1>2. shown \in [Cards -> Object]
  BY <1>1 DEF Init, Objects
<1>3. /\ signedIn \in BOOLEAN /\ lacked \in BOOLEAN /\ held \subseteq Keys
      /\ pairKey \in Keys \cup {None} /\ symKey \in Keys \cup {None}
      /\ faults \in 0..MaxFaults
  BY SettingsAssumption DEF Init, Keys
<1>4. TypeOK
  BY <1>1, <1>2, <1>3 DEF Init, TypeOK, Data, Pc, Results
<1>5. LifeInv
  BY DEF Init, LifeInv, Early
<1>6. HolderInv /\ QueueInv
  BY DEF Init, HolderInv, QueueInv
<1>7. QED  BY <1>4, <1>5, <1>6 DEF CallInv

LEMMA NextCall == CallInv /\ [Next]_vars => CallInv'
BY NextType, NextLife, NextQueue DEF CallInv

LEMMA CallsOrdered == Spec => []CallInv
BY InitCall, NextCall, PTL DEF Spec

\* Every variable keeps its type.
THEOREM TypeCorrect == Spec => []TypeOK
BY CallsOrdered, PTL DEF CallInv

-----------------------------------------------------------------------------
(* Signing out.                                                             *)

LEMMA NextBarred == CallInv /\ BarredInv /\ [Next]_vars => BarredInv'
<1> SUFFICES ASSUME CallInv, BarredInv, [Next]_vars PROVE BarredInv'
  OBVIOUS
<1> USE DEF BarredInv
<1>0. barred \subseteq Calls /\ barred' \subseteq Calls
  BY NextType DEF CallInv, TypeOK
<1>1. ASSUME NEW c \in Calls, Start(c)
      PROVE  BarredInv'
  BY <1>0, <1>1 DEF Start, Goto, CallInv, TypeOK, userVars
<1>2. ASSUME NEW c \in Calls, EnsureSignedIn(c)
      PROVE  BarredInv'
  BY <1>0, <1>2 DEF EnsureSignedIn, Goto, CallInv, TypeOK
<1>3. ASSUME NEW c \in Calls, Prepares(c)
      PROVE  BarredInv'
  <2>1. c \notin barred /\ barred' = barred /\ signedIn' = signedIn
    BY <1>3 DEF Prepares, userVars
  <2>2. \A d \in Calls \ {c} : pc'[d] = pc[d] /\ request'[d] = request[d]
    BY <1>3 DEF Prepares, Send, Goto, CallInv, TypeOK
  <2>3. QED  BY <1>0, <2>1, <2>2
<1>4. ASSUME NEW c \in Calls, Settles(c) \/ Answered(c)
      PROVE  BarredInv'
  <2>1. /\ \A d \in Calls \ {c} : pc'[d] = pc[d]
        /\ pc'[c] = "settled" \/ pc[c] = "sent"
        /\ barred' = barred /\ signedIn' = signedIn /\ request' = request
    BY <1>4 DEF Settles, Settle, Answered, Goto, CallInv, TypeOK, userVars
  <2>2. QED  BY <1>0, <2>1
<1>5. CASE SignOut
  BY <1>5 DEF SignOut, CallInv, LifeInv, Early
<1>6. CASE SignIn
  BY <1>6 DEF SignIn
<1>7. CASE \/ \E c \in Calls : Act(c) \/ Read(c) \/ Refuse(c)
           \/ \E o \in Objects : Elsewhere(o)
           \/ Reset \/ ImportKeys \/ UNCHANGED vars
  BY <1>7 DEF Act, Read, Refuse, Elsewhere, Reset, ImportKeys, vars, userVars
<1>8. QED
  BY <1>1, <1>2, <1>3, <1>4, <1>5, <1>6, <1>7, PrepareSteps, SettleSteps
     DEF Next, ClientStep, ServiceStep, Finished, CallInv

\* Once the user signs out, nothing is sent for calls that had not passed their
\* check: the check is made in the call's turn and not before.
THEOREM SignedOutIsSilent == Spec => []SignedOutSendsNothing
<1>1. Init => BarredInv
  BY DEF Init, BarredInv
<1>2. BarredInv => SignedOutSendsNothing
  BY DEF BarredInv, SignedOutSendsNothing
<1>3. QED
  BY <1>1, <1>2, CallsOrdered, NextBarred, PTL DEF Spec

LEMMA AnswerSteps ==
  ASSUME CallInv, [Next]_vars
  PROVE  answer' = answer \/ \E c \in Calls : Act(c) \/ Read(c) \/ Refuse(c)
BY PrepareSteps, SettleSteps
   DEF Next, ClientStep, ServiceStep, Finished, CallInv, Prepares, Settles, Start,
       EnsureSignedIn, Answered, Elsewhere, SignOut, SignIn, Reset, ImportKeys, vars

-----------------------------------------------------------------------------
(* Versions.                                                                *)

\* An update lands on the version it was made for, or not at all.
THEOREM UpdatesLandOnTheirVersion == Spec => NoLostUpdate
<1>1. ASSUME CallInv, [Next]_vars
      PROVE  [\A c \in Calls :
                expected[c] # None /\ answer[c] = None /\ answer'[c] \in Object
                  => objects[obj[c]].version = expected[c]]_vars
  <2> SUFFICES ASSUME NEW c \in Calls, expected[c] # None, answer[c] = None,
                      answer'[c] \in Object
               PROVE  objects[obj[c]].version = expected[c]
    OBVIOUS
  <2>1. op[c] \notin Reads /\ answer'[c] \notin {None, Refused}
    BY <1>1, NoneAssumption, RefusedAssumption DEF CallInv, LifeInv, Reads
  <2>2. ASSUME NEW d \in Calls, Act(d) \/ Read(d) \/ Refuse(d)
        PROVE  c = d /\ Act(c)
    BY <1>1, <2>1, <2>2 DEF Act, Read, Refuse, CallInv, TypeOK
  <2>3. CASE Act(c)
    <3>1. request[c] # None /\ request[c].expected = expected[c]
      BY <1>1, <2>3 DEF Act, Pending, CallInv, LifeInv
    <3>2. QED  BY <2>3, <3>1 DEF Act
  <2>4. CASE answer' = answer
    BY <2>1, <2>4
  <2>5. answer' = answer \/ \E d \in Calls : Act(d) \/ Read(d) \/ Refuse(d)
    BY <1>1, AnswerSteps
  <2>6. QED  BY <2>2, <2>3, <2>4, <2>5
<1>2. QED
  BY <1>1, CallsOrdered, PTL DEF Spec, NoLostUpdate

\* Versions only grow, and an answer carries that of its object.
LEMMA VersionSteps ==
  ASSUME CallInv, [Next]_vars
  PROVE  /\ \A o \in Objects : objects'[o].version \in Nat
                                 /\ objects[o].version <= objects'[o].version
         /\ \A c \in Calls :
              \/ answer'[c] = answer[c]
              \/ /\ answer[c] = None /\ pc' = pc /\ obj' = obj /\ shown' = shown
                 /\ \/ answer'[c] = Refused
                    \/ answer'[c] = objects'[obj[c]] /\ obj[c] \in Objects
<1>0. \A x \in Object : x.version \in Nat /\ x.version <= x.version + 1
  BY DEF Object
<1>a. \A o \in Objects : objects[o] \in Object
  BY DEF CallInv, TypeOK
<1>1. ASSUME NEW c \in Calls, Act(c)
      PROVE  /\ obj[c] \in Objects /\ objects'[obj[c]].version = objects[obj[c]].version + 1
             /\ \A o \in Objects \ {obj[c]} : objects'[o] = objects[o]
             /\ answer' = [answer EXCEPT ![c] = objects'[obj[c]]]
  <2>1. obj[c] \in Objects
    BY <1>1 DEF Act, Pending, CallInv, LifeInv, Early
  <2>2. PICK s : objects' = [objects EXCEPT ![obj[c]] = Moved(@, op[c], s, request[c])]
    BY <1>1 DEF Act
  <2>3. QED  BY <1>1, <2>1, <2>2 DEF Act, Moved, CallInv, TypeOK
<1>2. ASSUME NEW o \in Objects, Elsewhere(o)
      PROVE  /\ objects'[o].version = objects[o].version + 1
             /\ \A b \in Objects \ {o} : objects'[b] = objects[b]
  <2>1. PICK s : objects' = [objects EXCEPT ![o] = Changed(@, s)]
    BY <1>2 DEF Elsewhere
  <2>2. QED  BY <2>1 DEF Changed, CallInv, TypeOK
<1>3. \/ objects' = objects
      \/ \E c \in Calls : Act(c)
      \/ \E o \in Objects : Elsewhere(o)
  BY PrepareSteps, SettleSteps
     DEF Next, ClientStep, ServiceStep, Finished, CallInv, Prepares, Settles, Start,
         EnsureSignedIn, Answered, Read, Refuse, SignOut, SignIn, Reset,
         ImportKeys, vars
<1>4. \A o \in Objects : objects'[o].version \in Nat
                           /\ objects[o].version <= objects'[o].version
  <2>1. CASE objects' = objects
    BY <1>0, <1>a, <2>1
  <2>2. CASE \E c \in Calls : Act(c)
    BY <1>0, <1>a, <1>1, <2>2
  <2>3. CASE \E o \in Objects : Elsewhere(o)
    BY <1>0, <1>a, <1>2, <2>3
  <2>4. QED  BY <1>3, <2>1, <2>2, <2>3
<1>5. ASSUME NEW c \in Calls, answer'[c] # answer[c]
      PROVE  /\ answer[c] = None /\ pc' = pc /\ obj' = obj /\ shown' = shown
             /\ \/ answer'[c] = Refused
                \/ answer'[c] = objects'[obj[c]] /\ obj[c] \in Objects
  <2>1. PICK d \in Calls : Act(d) \/ Read(d) \/ Refuse(d)
    BY <1>5, AnswerSteps
  <2>2. d = c /\ answer[c] = None /\ pc' = pc /\ obj' = obj /\ shown' = shown
    BY <1>5, <2>1 DEF Act, Read, Refuse, Pending, callVars, CallInv, TypeOK
  <2>3. obj[c] \in Objects
    BY <2>1, <2>2 DEF Act, Read, Refuse, Pending, CallInv, LifeInv, Early
  <2>4. QED
    BY <1>1, <2>1, <2>2, <2>3 DEF Read, Refuse, CallInv, TypeOK
<1>6. QED  BY <1>4, <1>5

\* A call with an answer does not leave for the service.
LEMMA EarlyAnswer ==
  ASSUME CallInv, [Next]_vars, NEW c \in Calls, answer[c] # None,
         pc'[c] \in {"sent", "unseal"}
  PROVE  pc[c] \in {"sent", "unseal"}
<1>1. pc[c] \in {"sent", "unseal", "settled"}
  BY DEF CallInv, LifeInv, TypeOK, Early, Pc
<1>2. pc[c] = "settled" => pc'[c] = "settled"
  BY PrepareSteps, SettleSteps
     DEF Next, ClientStep, ServiceStep, Finished, CallInv, TypeOK, Prepares, Settles,
         Settle, Send, Goto, Start, EnsureSignedIn, Answered, Act, Read, Refuse,
         Elsewhere, SignOut, SignIn, Reset, ImportKeys, vars
<1>3. QED  BY <1>1, <1>2

LEMMA NextVersion == CallInv /\ VersionInv /\ [Next]_vars
                       => VersionInv' /\ \A o \in Cards :
                                            shown'[o].version >= shown[o].version
<1> SUFFICES ASSUME CallInv, VersionInv, [Next]_vars
             PROVE  /\ VersionInv'
                    /\ \A o \in Cards : shown'[o].version >= shown[o].version
  OBVIOUS
<1>0. /\ \A o \in Objects : objects[o].version \in Nat
      /\ \A o \in Cards : o \in Objects /\ shown[o].version \in Nat
      /\ \A c \in Calls : answer[c] \notin {None, Refused} => answer[c].version \in Nat
  BY DEF CallInv, TypeOK, Object, Objects
<1>1. ASSUME NEW c \in Calls, Settles(c)
      PROVE  /\ VersionInv'
             /\ \A o \in Cards : shown'[o].version >= shown[o].version
  <2>1. /\ UNCHANGED <<objects, obj, answer, op>>
        /\ \A d \in Calls \ {c} : pc'[d] = pc[d]
        /\ pc'[c] = "settled"
    BY <1>1 DEF Settles, Settle, Goto, CallInv, TypeOK, callVars
  <2>2. CASE shown' = shown
    BY <1>0, <2>1, <2>2 DEF VersionInv
  <2>3. CASE shown' # shown
    <3>1. /\ pc[c] = "unseal" /\ obj[c] \in Cards
          /\ shown' = [shown EXCEPT ![obj[c]] = answer[c]]
      BY <1>1, <2>3 DEF Settles, Settle
    <3>2. answer[c] \notin {None, Refused}
      BY <3>1 DEF CallInv, LifeInv
    <3>3. \A d \in Calls \ {c} :
            obj[d] \in Cards => pc[d] \notin {"sent", "unseal"}
      <4>1. \A d \in Calls : obj[d] \in Cards /\ pc[d] \in {"sent", "unseal"}
                               => queue # <<>> /\ Head(queue) = d
        BY DEF CallInv, LifeInv, HolderInv, Serialised, CardOperations
      <4>2. QED  BY <3>1, <4>1
    <3>4. \A o \in Cards : /\ o # obj[c] => shown'[o] = shown[o]
                           /\ o = obj[c] => shown'[o] = answer[c]
      BY <3>1 DEF CallInv, TypeOK
    <3>5. QED
      BY <1>0, <2>1, <3>1, <3>2, <3>3, <3>4 DEF VersionInv
  <2>4. QED  BY <2>2, <2>3
<1>2. ASSUME shown' = shown,
             \A c \in Calls : \/ obj'[c] = obj[c] \/ answer'[c] = None
      PROVE  VersionInv'
  <2>1. \A o \in Cards : shown'[o].version <= objects'[o].version
    BY <1>0, <1>2, VersionSteps DEF VersionInv
  <2>2. ASSUME NEW c \in Calls, obj'[c] \in Cards, answer'[c] \notin {None, Refused}
        PROVE  /\ answer'[c].version <= objects'[obj'[c]].version
               /\ pc'[c] \in {"sent", "unseal"}
                    => shown'[obj'[c]].version <= answer'[c].version
    <3>1. obj'[c] = obj[c] /\ obj[c] \in Objects
      BY <1>0, <1>2, <2>2
    <3>2. CASE answer'[c] = answer[c]
      <4>1. pc'[c] \in {"sent", "unseal"} => pc[c] \in {"sent", "unseal"}
        BY <2>2, <3>2, EarlyAnswer
      <4>2. QED
        BY <1>0, <1>2, <2>2, <3>1, <3>2, <4>1, VersionSteps DEF VersionInv
    <3>3. CASE answer'[c] # answer[c]
      BY <1>0, <1>2, <2>1, <2>2, <3>1, <3>3, VersionSteps
    <3>4. QED  BY <3>2, <3>3
  <2>3. QED  BY <2>1, <2>2 DEF VersionInv
<1>3. \/ \E c \in Calls : Settles(c)
      \/ shown' = shown /\ \A c \in Calls : obj'[c] = obj[c] \/ answer'[c] = None
  <2>1. ASSUME NEW c \in Calls, Start(c)
        PROVE  shown' = shown /\ \A d \in Calls : obj'[d] = obj[d] \/ answer'[d] = None
    BY <2>1 DEF Start, CallInv, TypeOK, LifeInv, Early
  <2>2. QED
    BY <2>1, PrepareSteps, SettleSteps
       DEF Next, ClientStep, ServiceStep, Finished, CallInv, Prepares, Act, Read,
           Refuse, EnsureSignedIn, Answered, Elsewhere, SignOut, SignIn, Reset,
           ImportKeys, vars, callVars
<1>4. QED  BY <1>0, <1>1, <1>2, <1>3

\* The host is never shown an older card, because only the holder of the mutex
\* can have an answer to show.
THEOREM CardsGrow == Spec => CardsNeverOlder
<1>1. Init => VersionInv
  BY DEF Init, VersionInv, Object, Objects
<1>2. QED
  BY <1>1, CallsOrdered, NextVersion, PTL DEF Spec, CardsNeverOlder

-----------------------------------------------------------------------------
(* Rejections.                                                              *)

LEMMA NextKeys == CallInv /\ KeyInv /\ [Next]_vars => KeyInv'
<1> SUFFICES ASSUME CallInv, KeyInv, [Next]_vars, ~lacked' PROVE KeyInv'
  BY DEF KeyInv
<1> DEFINE Full == {"pair", "symmetric"} \subseteq held
<1>0. ~lacked => Full
  BY DEF KeyInv
<1>1. ASSUME NEW c \in Calls, Prepares(c), ~lacked,
             /\ held \subseteq held'
             /\ pairKey' \in {"pair", None} /\ symKey' \in held' \cup {None}
             /\ key' = [key EXCEPT ![c] = key'[c]] /\ key'[c] \in held' \cup {None}
      PROVE  KeyInv'
  <2>1. \A x \in Object : Readable(x) => Readable(x)'
    BY <1>1 DEF Readable
  <2>2. ASSUME NEW d \in Calls, request'[d] # None
        PROVE  request'[d].key \in held' \cup {None}
    <3>1. CASE request' = request
      BY <1>1, <2>2, <3>1 DEF KeyInv
    <3>2. CASE \E k \in Keys \cup {None} : Send(c, k) /\ k \in {key'[c], None}
      BY <1>1, <2>2, <3>2 DEF KeyInv, Send, CallInv, TypeOK
    <3>3. QED  BY <1>1, <3>1, <3>2 DEF Prepares
  <2>3. /\ \A d \in Calls : answer'[d] \notin {None, Refused} => Readable(answer[d])'
        /\ \A o \in Objects : Readable(objects[o])'
    BY <1>1, <2>1 DEF KeyInv, Prepares, CallInv, TypeOK
  <2>4. \A d \in Calls : key'[d] \in held' \cup {None}
    BY <1>1 DEF KeyInv, CallInv, TypeOK
  <2>5. QED  BY <1>0, <1>1, <2>2, <2>3, <2>4 DEF KeyInv
<1>2. ASSUME NEW c \in Calls,
             CheckPassed(c) \/ FindPublicKey(c) \/ FindSymmetricKey(c) \/ Seal(c)
      PROVE  KeyInv'
  <2>1. Prepares(c)
    BY <1>2, PrepareSteps DEF CallInv
  <2>2. ~lacked
    BY <2>1 DEF Prepares
  <2>3. Full /\ pairKey \in {"pair", None} /\ symKey \in held \cup {None}
        /\ key[c] \in held \cup {None} /\ key \in [Calls -> Keys \cup {None}]
    BY <2>2 DEF KeyInv, CallInv, TypeOK
  <2>4. CASE CheckPassed(c) \/ Seal(c)
    BY <1>1, <2>1, <2>2, <2>3, <2>4 DEF CheckPassed, Seal, keyVars
  <2>5. CASE FindPublicKey(c)
    BY <1>1, <2>1, <2>2, <2>3, <2>5 DEF FindPublicKey, CurrentPublicKey
  <2>6. CASE FindSymmetricKey(c)
    BY <1>1, <2>1, <2>2, <2>3, <2>6 DEF FindSymmetricKey
  <2>7. QED  BY <1>2, <2>4, <2>5, <2>6
<1>3. ASSUME NEW c \in Calls, Settles(c) \/ Answered(c) \/ EnsureSignedIn(c) \/ Start(c)
      PROVE  KeyInv'
  BY <1>3 DEF Settles, Answered, EnsureSignedIn, Start, KeyInv, Readable, keyVars
<1>4. ASSUME NEW c \in Calls, Act(c)
      PROVE  KeyInv'
  <2>1. /\ obj[c] \in Objects /\ request[c] # None /\ objects[obj[c]] \in Object
        /\ request[c] \in Request
    BY <1>4 DEF Act, Pending, CallInv, LifeInv, TypeOK, Early
  <2>2. PICK s : objects' = [objects EXCEPT ![obj[c]] = Moved(@, op[c], s, request[c])]
    BY <1>4 DEF Act
  <2>3. Readable(Moved(objects[obj[c]], op[c], s, request[c]))
    BY <1>4, <2>1 DEF Act, Moved, Readable, KeyInv
  <2>4. \A o \in Objects : Readable(objects'[o])
    BY <1>4, <2>1, <2>2, <2>3 DEF Act, KeyInv, CallInv, TypeOK
  <2>5. \A d \in Calls : answer'[d] = answer[d] \/ answer'[d] = objects'[obj[c]]
    BY <1>4 DEF Act, CallInv, TypeOK
  <2>6. held' = held
    BY <1>4 DEF Act, keyVars
  <2>7. /\ \A o \in Objects : Readable(objects[o])'
        /\ \A d \in Calls : answer'[d] \notin {None, Refused} => Readable(answer[d])'
    BY <1>4, <2>1, <2>4, <2>5, <2>6 DEF Act, KeyInv, Readable
  <2>8. QED
    BY <1>4, <2>7 DEF Act, KeyInv, keyVars
<1>5. ASSUME NEW c \in Calls, Read(c) \/ Refuse(c)
      PROVE  KeyInv'
  <2>1. obj[c] \in Objects
    BY <1>5 DEF Read, Refuse, Pending, CallInv, LifeInv, Early
  <2>2. \A d \in Calls : answer'[d] = answer[d] \/ answer'[d] = Refused
                           \/ answer'[d] = objects[obj[c]]
    BY <1>5 DEF Read, Refuse, CallInv, TypeOK
  <2>3. QED
    BY <1>5, <2>1, <2>2 DEF Read, Refuse, KeyInv, Readable, keyVars
<1>6. ASSUME NEW o \in Objects, Elsewhere(o)
      PROVE  KeyInv'
  <2>1. PICK s : objects' = [objects EXCEPT ![o] = Changed(@, s)]
    BY <1>6 DEF Elsewhere
  <2>2. /\ Readable(objects[o]) => Readable(Changed(objects[o], s))
        /\ \A b \in Objects : objects'[b] = IF b = o THEN Changed(objects[o], s)
                                             ELSE objects[b]
        /\ held' = held
    BY <1>6, <2>1 DEF Elsewhere, Readable, Changed, CallInv, TypeOK, keyVars
  <2>3. \A b \in Objects : Readable(objects[b])'
    BY <1>6, <2>2 DEF Elsewhere, KeyInv, Readable
  <2>4. QED
    BY <1>6, <2>2, <2>3 DEF Elsewhere, KeyInv, Readable, keyVars
<1>7. CASE SignOut \/ SignIn \/ UNCHANGED vars
  BY <1>7 DEF SignOut, SignIn, vars, KeyInv, Readable, keyVars
<1>8. CASE Reset \/ ImportKeys
  BY <1>0, <1>8 DEF Reset, ImportKeys
<1>9. QED
  BY <1>2, <1>3, <1>4, <1>5, <1>6, <1>7, <1>8, SettleSteps
     DEF Next, ClientStep, ServiceStep, Finished, CallInv

LEMMA NextRejected ==
  CallInv /\ KeyInv /\ RejectedInv /\ [Next]_vars => RejectedInv'
<1> SUFFICES ASSUME CallInv, KeyInv, RejectedInv, [Next]_vars,
                    NEW c \in Calls, result'[c] = "rejected"
             PROVE  \/ request'[c] = None \/ answer'[c] = Refused
                    \/ op'[c] \in Reads
                    \/ lacked' /\ op'[c] \notin CardMutations
  BY DEF RejectedInv
<1>1. CASE result[c] = "rejected"
  <2>1. pc[c] = "settled"
    BY <1>1 DEF CallInv, LifeInv
  <2>2. request'[c] = request[c] /\ op'[c] = op[c] /\ (lacked => lacked')
    BY <2>1, PrepareSteps, SettleSteps
       DEF Next, ClientStep, ServiceStep, Finished, CallInv, TypeOK, Prepares,
           Settles, Send, Start, EnsureSignedIn, Answered, Act, Read, Refuse,
           Elsewhere, SignOut, SignIn, Reset, ImportKeys, vars, callVars
  <2>3. answer'[c] = answer[c] \/ answer[c] = None
    BY VersionSteps
  <2>4. answer[c] = Refused => answer'[c] = Refused
    BY <2>3, RefusedAssumption
  <2>5. \/ request[c] = None \/ answer[c] = Refused \/ op[c] \in Reads
        \/ lacked /\ op[c] \notin CardMutations
    BY <1>1 DEF RejectedInv
  <2>6. QED  BY <2>2, <2>4, <2>5
<1>2. CASE result[c] # "rejected"
  <2>1. PICK d \in Calls : Settles(d)
    BY <1>2, PrepareSteps, SettleSteps
       DEF Next, ClientStep, ServiceStep, Finished, CallInv, Prepares, Start,
           EnsureSignedIn, Answered, Act, Read, Refuse, Elsewhere, SignOut, SignIn,
           Reset, ImportKeys, vars
  <2>2. d = c
    BY <1>2, <2>1 DEF Settles, Settle, CallInv, TypeOK
  <2>3. /\ \/ request[c] = None \/ answer[c] = Refused
           \/ ~Readable(answer[c]) /\ op[c] \notin CardMutations
        /\ UNCHANGED <<op, request, answer, lacked>>
    BY <2>1, <2>2 DEF Settles, Settle, CallInv, TypeOK, callVars
  <2>4. request[c] # None => answer[c] # None
    BY <1>2, <2>1, <2>2 DEF Settles, Settle, CallInv, TypeOK
  <2>5. QED
    BY <2>3, <2>4 DEF KeyInv
<1>3. QED  BY <1>1, <1>2

LEMMA InitKeys == Init => KeyInv /\ RejectedInv
<1> SUFFICES ASSUME Init PROVE KeyInv /\ RejectedInv  OBVIOUS
<1>1. RejectedInv
  BY DEF Init, RejectedInv
<1>2. \A o \in Objects : objects[o].metadata = None /\ objects[o].key \in {"pair", None}
  BY DEF Init
<1>3. KeyInv
  <2>1. lacked = (held = {}) /\ answer = [c \in Calls |-> None]
    BY DEF Init
  <2>2. ~lacked => held = {"pair", "symmetric"} /\ pairKey \in {"pair", None}
                     /\ symKey = "symmetric"
    <3>1. ~lacked => held # {}
      BY <2>1
    <3>2. QED  BY <3>1 DEF Init
  <2>3. \A o \in Objects : held = {"pair", "symmetric"} => Readable(objects[o])
    BY <1>2 DEF Readable
  <2>4. \A c \in Calls : key[c] = None /\ request[c] = None /\ answer[c] = None
    BY DEF Init
  <2>5. QED  BY <2>2, <2>3, <2>4 DEF KeyInv
<1>4. QED  BY <1>1, <1>3

\* A rejection means that nothing was changed, save for a lost answer or, with
\* funding sources, a device that lacked keys.
THEOREM RejectionsHarmless == Spec => []RejectedUnchanged
<1>1. CallInv /\ RejectedInv => RejectedUnchanged
  BY DEF CallInv, LifeInv, RejectedInv, RejectedUnchanged
<1>2. QED
  BY <1>1, InitKeys, CallsOrdered, NextKeys, NextRejected, PTL DEF Spec

-----------------------------------------------------------------------------
(* Atomicity.                                                               *)

phaseOf == [c \in Calls |-> IF pc[c] \in {"new", "settled"} THEN pc[c] ELSE "open"]
serialCalls == {c \in Calls : Serialised(op[c])}
turnOf == IF queue = <<>> THEN None ELSE Head(queue)

LEMMA AtomicInit == Init => Atomic!Init
<1> SUFFICES ASSUME Init PROVE Atomic!Init  OBVIOUS
<1>1. "none" \notin CardOperations \cup SourceOperations
  BY DEF CardOperations, SourceOperations
<1>2. QED  BY <1>1 DEF Init, Atomic!Init, Serialised

\* What the abstract specification does not see.
LEMMA AtomicStutter ==
  ASSUME UNCHANGED <<objects, phaseOf, obj, serialCalls, turnOf, answer, result, shown>>
  PROVE  UNCHANGED Atomic!vars
BY DEF Atomic!vars, phaseOf, serialCalls, turnOf

LEMMA AtomicOpen == ASSUME CallInv, NEW c \in Calls, Start(c)
                    PROVE  Atomic!Open(c)
<1>1. PICK p \in Operations, b \in Objects :
        op' = [op EXCEPT ![c] = p] /\ obj' = [obj EXCEPT ![c] = b]
  BY DEF Start
<1>2. pc[c] = "new" /\ pc' = [pc EXCEPT ![c] = "guard"] /\ c \notin serialCalls
  BY DEF Start, Goto, CallInv, LifeInv, serialCalls, Serialised, CardOperations,
         SourceOperations
<1>3. phaseOf[c] = "new" /\ phaseOf' = [phaseOf EXCEPT ![c] = "open"]
  BY <1>2 DEF phaseOf, CallInv, TypeOK
<1>4. serialCalls' \in {serialCalls, serialCalls \cup {c}}
  BY <1>1, <1>2 DEF serialCalls, CallInv, TypeOK
<1>5. UNCHANGED <<objects, turnOf, answer, result, shown>>
  BY DEF Start, turnOf
<1>6. QED
  BY <1>1, <1>3, <1>4, <1>5 DEF Atomic!Open, phaseOf, serialCalls, turnOf

LEMMA AtomicTurn == ASSUME CallInv, NEW c \in Calls, EnsureSignedIn(c)
                    PROVE  Atomic!TakeTurn(c) \/ UNCHANGED Atomic!vars
<1>1. pc[c] = "guard" /\ pc' = [pc EXCEPT ![c] = "check"]
  BY DEF EnsureSignedIn, Goto
<1>2. phaseOf[c] = "open" /\ phaseOf' = phaseOf
  BY <1>1 DEF phaseOf, CallInv, TypeOK
<1>3. UNCHANGED <<objects, obj, serialCalls, answer, result, shown>>
  BY DEF EnsureSignedIn, callVars, serialCalls
<1>4. CASE Serialised(op[c]) /\ queue = <<>>
  <2>1. queue' = <<c>>
    BY <1>4 DEF EnsureSignedIn
  <2>2. turnOf = None /\ turnOf' = c /\ c \in serialCalls
    BY <1>4, <2>1 DEF turnOf, serialCalls
  <2>3. QED
    BY <1>2, <1>3, <2>2 DEF Atomic!TakeTurn, phaseOf, serialCalls, turnOf
<1>5. CASE ~(Serialised(op[c]) /\ queue = <<>>)
  <2>1. turnOf' = turnOf
    <3>1. CASE queue' = queue
      BY <3>1 DEF turnOf
    <3>2. CASE queue' = Append(queue, c) /\ queue # <<>>
      BY <3>2 DEF turnOf, CallInv, TypeOK
    <3>3. QED  BY <1>5, <3>1, <3>2 DEF EnsureSignedIn
  <2>2. QED  BY <1>2, <1>3, <2>1, AtomicStutter
<1>6. QED  BY <1>4, <1>5

LEMMA AtomicSettle == ASSUME CallInv, NEW c \in Calls, Settles(c)
                      PROVE  Atomic!Settle(c)
<1>1. PICK o \in Results \ {"none"} :
        /\ Settle(c, o)
        /\ o \in {"success", "partial"} => pc[c] = "unseal"
  BY DEF Settles
<1>2. /\ pc[c] \notin {"new", "settled"} /\ pc' = [pc EXCEPT ![c] = "settled"]
      /\ result' = [result EXCEPT ![c] = o]
  BY <1>1 DEF Settles, Settle, Goto
<1>3. phaseOf[c] = "open" /\ phaseOf' = [phaseOf EXCEPT ![c] = "settled"]
  BY <1>2 DEF phaseOf, CallInv, TypeOK
<1>4. o \in {"success", "partial"} => answer[c] \notin {None, Refused}
  BY <1>1 DEF CallInv, LifeInv
<1>5. UNCHANGED <<objects, obj, op, serialCalls, answer>>
  BY DEF Settles, callVars, serialCalls
<1>6. IF turnOf = c
        THEN turnOf' = None \/ (turnOf' \in serialCalls /\ phaseOf'[turnOf'] = "open")
        ELSE turnOf' = turnOf
  <2>1. CASE Waiting(c)
    <3>1. queue # <<>> /\ Head(queue) = c /\ queue' = Tail(queue)
      BY <1>1, <2>1 DEF Settles, Settle, Turn, Waiting
    <3>2. CASE queue' = <<>>
      BY <3>1, <3>2 DEF turnOf
    <3>3. CASE queue' # <<>>
      <4>1. /\ Len(queue) \in Nat /\ Len(queue) >= 2 /\ queue[1] = c
            /\ Head(queue') = queue[2]
        BY <3>1, <3>3 DEF CallInv, TypeOK
      <4>2. queue[2] # c /\ Waiting(queue[2]) /\ queue[2] \in Calls
        BY <4>1 DEF CallInv, QueueInv, TypeOK
      <4>3. queue[2] \in serialCalls /\ phaseOf'[queue[2]] = "open"
        BY <1>2, <1>5, <4>2 DEF serialCalls, phaseOf, Waiting, CallInv, TypeOK
      <4>4. turnOf = c /\ turnOf' = queue[2]
        BY <3>1, <3>3, <4>1 DEF turnOf
      <4>5. QED  BY <4>3, <4>4
    <3>4. QED  BY <3>2, <3>3
  <2>2. CASE ~Waiting(c)
    <3>1. queue' = queue
      BY <1>1, <2>2 DEF Settle
    <3>2. queue # <<>> => Waiting(Head(queue))
      BY DEF CallInv, QueueInv, TypeOK
    <3>3. turnOf # c /\ turnOf' = turnOf
      BY <2>2, <3>1, <3>2, CallsAssumption DEF turnOf
    <3>4. QED  BY <3>3
  <2>3. QED  BY <2>1, <2>2
<1>7. shown' = IF o \in {"success", "partial"} /\ obj[c] \in Cards
                 THEN [shown EXCEPT ![obj[c]] = answer[c]] ELSE shown
  BY <1>1 DEF Settle
<1>8. o \in {"success", "partial", "rejected", "lost"}
  BY DEF Results
<1>9. QED
  BY <1>2, <1>3, <1>4, <1>5, <1>6, <1>7, <1>8
     DEF Atomic!Settle, Atomic!Shows, phaseOf, serialCalls, turnOf

LEMMA AtomicEffect ==
  ASSUME CallInv, NEW c \in Calls, Act(c) \/ Read(c) \/ Refuse(c)
  PROVE  Atomic!Effect(c)
<1>1. request[c] # None /\ answer[c] = None /\ obj[c] \in Objects
  BY DEF Act, Read, Refuse, Pending, CallInv, LifeInv, Early
<1>2. pc[c] = "sent" \/ result[c] = "lost"
  BY <1>1 DEF CallInv, LifeInv, TypeOK, Pc, Early
<1>3. \/ phaseOf[c] = "open" /\ (c \in serialCalls => turnOf = c)
      \/ result[c] = "lost"
  BY <1>2 DEF phaseOf, serialCalls, turnOf, CallInv, HolderInv
<1>4. \/ /\ objects' = [objects EXCEPT ![obj[c]] = objects'[obj[c]]]
         /\ answer' = [answer EXCEPT ![c] = objects'[obj[c]]]
      \/ /\ objects' = objects
         /\ answer' = [answer EXCEPT ![c] = Refused]
  <2>1. CASE Act(c)
    BY <1>1, <2>1 DEF Act, CallInv, TypeOK
  <2>2. CASE Read(c)
    BY <1>1, <2>2 DEF Read, CallInv, TypeOK
  <2>3. CASE Refuse(c)
    BY <2>3 DEF Refuse
  <2>4. QED  BY <2>1, <2>2, <2>3
<1>5. UNCHANGED <<phaseOf, obj, serialCalls, turnOf, result, shown>>
  BY DEF Act, Read, Refuse, callVars, phaseOf, serialCalls, turnOf
<1>6. QED
  BY <1>1, <1>3, <1>4, <1>5
     DEF Atomic!Effect, Atomic!OnlyChanges, phaseOf, serialCalls, turnOf

LEMMA AtomicStep == CallInv /\ [Next]_vars => [Atomic!Next]_(Atomic!vars)
<1> SUFFICES ASSUME CallInv, [Next]_vars PROVE [Atomic!Next]_(Atomic!vars)
  OBVIOUS
<1>1. ASSUME NEW c \in Calls, Prepares(c) \/ Answered(c)
      PROVE  UNCHANGED Atomic!vars
  <2>1. phaseOf' = phaseOf
    BY <1>1 DEF Prepares, Answered, Send, Goto, phaseOf, CallInv, TypeOK
  <2>2. UNCHANGED <<objects, obj, serialCalls, turnOf, answer, result, shown>>
    BY <1>1 DEF Prepares, Answered, callVars, serialCalls, turnOf
  <2>3. QED  BY <2>1, <2>2, AtomicStutter
<1>2. ASSUME NEW o \in Objects, Elsewhere(o)
      PROVE  Atomic!Elsewhere
  <2>1. objects' = [objects EXCEPT ![o] = objects'[o]]
    BY <1>2 DEF Elsewhere, CallInv, TypeOK
  <2>2. UNCHANGED <<phaseOf, obj, serialCalls, turnOf, answer, result, shown>>
    BY <1>2 DEF Elsewhere, callVars, phaseOf, serialCalls, turnOf
  <2>3. QED
    BY <2>1, <2>2 DEF Atomic!Elsewhere, Atomic!OnlyChanges, phaseOf, serialCalls, turnOf
<1>3. CASE SignOut \/ SignIn \/ Reset \/ ImportKeys \/ UNCHANGED vars
  <2>1. UNCHANGED <<objects, phaseOf, obj, serialCalls, turnOf, answer, result, shown>>
    BY <1>3 DEF SignOut, SignIn, Reset, ImportKeys, vars, callVars, phaseOf,
                serialCalls, turnOf
  <2>2. QED  BY <2>1, AtomicStutter
<1>4. QED
  BY <1>1, <1>2, <1>3, AtomicOpen, AtomicTurn, AtomicSettle, AtomicEffect,
     PrepareSteps, SettleSteps
     DEF Next, ClientStep, ServiceStep, Finished, Atomic!Next, CallInv

\* Whatever is interleaved, lost or late, every call takes effect at most once
\* and in one step, serialised calls in turn: ClientOperations implements
\* AtomicOperations.
THEOREM Atomicity == Spec => OperationsAtomic
BY AtomicInit, AtomicStep, CallsOrdered, PTL DEF Spec, OperationsAtomic, Atomic!Spec

===============================================================================
