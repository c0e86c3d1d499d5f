-------------------------- MODULE DeviceKeysProofs --------------------------
(* Theorems about DeviceKeys, for any number of calls, users and faults.   *)
EXTENDS DeviceKeys, TLAPS

DeviceKey == [id : Calls, ring : Users]

\* A call between its start and its end is at the head of the mutex's queue.
HolderInv ==
  \A c \in Calls : state[c] \in {"running", "unsealing"} => Holds(c)

\* Where the code holds a DeviceKey it is a complete one.
KeyFormInv ==
  /\ cache # NoKey => cache \in DeviceKey
  /\ \A c \in Calls :
       /\ pair[c] \in {"pointer", "genAdd"} => key[c].ring \in Users
       /\ pair[c] \in {"public", "private", "genPair", "genPublic", "fetch",
                       "register", "done"} => key[c] \in DeviceKey

TypeInv == TypeOK /\ HolderInv /\ KeyFormInv

-----------------------------------------------------------------------------
LEMMA InitTypeInv == Init => TypeInv
<1> SUFFICES ASSUME Init PROVE TypeInv  OBVIOUS
<1> USE CallsAssumption, UsersAssumption, BoundAssumption DEF Init
<1>1. EmptyStore \in Store
  BY DEF EmptyStore, Store, Id
<1>2. NoKey \in Key
  BY DEF NoKey, Key, Id
<1>3. TypeOK
  BY <1>1, <1>2 DEF TypeOK, CallState, OpKind, PairPc, SymPc, Id
<1>4. HolderInv /\ KeyFormInv
  BY DEF HolderInv, KeyFormInv
<1>5. QED  BY <1>3, <1>4 DEF TypeInv

\* What getKeyRingId and v4() put into the key a strand holds.
LEMMA KeyWithRing ==
  ASSUME NEW k \in Key, NEW u \in Users
  PROVE  /\ [k EXCEPT !.ring = u] \in Key
         /\ [k EXCEPT !.ring = u].ring = u
         /\ [k EXCEPT !.ring = u].id = k.id
BY DEF Key

LEMMA KeyWithId ==
  ASSUME NEW k \in Key, NEW i \in Calls
  PROVE  /\ [k EXCEPT !.id = i] \in Key
         /\ [k EXCEPT !.id = i].id = i
         /\ [k EXCEPT !.id = i].ring = k.ring
         /\ k.ring \in Users => [k EXCEPT !.id = i] \in DeviceKey
BY DEF Key, DeviceKey, Id

\* A step of c's strand changes no other call's strand, and leaves its key
\* in the form its next step needs.
LEMMA KeyFormStep ==
  ASSUME TypeInv, NEW c \in Calls, NEW k \in Key, NEW pc \in PairPc,
         key' = [key EXCEPT ![c] = k], pair' = [pair EXCEPT ![c] = pc],
         UNCHANGED cache,
         pc \in {"pointer", "genAdd"} => k.ring \in Users,
         pc \in {"public", "private", "genPair", "genPublic", "fetch",
                "register", "done"} => k \in DeviceKey
  PROVE  KeyFormInv' /\ key' \in [Calls -> Key] /\ pair' \in [Calls -> PairPc]
BY DEF TypeInv, TypeOK, KeyFormInv, DeviceKey

LEMMA PairTypeInv ==
  ASSUME TypeInv, NEW c \in Calls, PairStep(c)
  PROVE  TypeInv'
<1> USE CallsAssumption, UsersAssumption
    DEF TypeInv, TypeOK, HolderInv, Holds, pairFrame, PairGoto, PairPc,
        PairStorePc, PairServerPc
<1>1. CASE PairLookup(c)
  BY <1>1 DEF PairLookup, KeyFormInv
<1>2. ASSUME NEW from, NEW to \in {"pointer", "genAdd"}, KeyRing(c, from, to)
      PROVE  TypeInv'
  <2>1. CASE signedIn
    <3>1. key[c] \in Key  OBVIOUS
    <3> DEFINE k == [key[c] EXCEPT !.ring = user]
    <3>2. k \in Key /\ k.ring = user  BY <3>1, KeyWithRing
    <3>3. key' = [key EXCEPT ![c] = k] /\ pair' = [pair EXCEPT ![c] = to]
      BY <1>2, <2>1 DEF KeyRing
    <3> HIDE DEF k
    <3>4. KeyFormInv' /\ key' \in [Calls -> Key] /\ pair' \in [Calls -> PairPc]
      BY <1>2, <3>2, <3>3, KeyFormStep DEF KeyRing
    <3>5. QED  BY <1>2, <3>4 DEF KeyRing
  <2>2. CASE ~signedIn
    BY <1>2, <2>2 DEF KeyRing, KeyFormInv
  <2>3. QED  BY <2>1, <2>2
<1>3. CASE PairSubject(c)
  BY <1>2, <1>3 DEF PairSubject
<1>4. ASSUME NEW i \in Calls, NEW pc \in {"public", "genPair"},
             key[c].ring \in Users,
             key' = [key EXCEPT ![c].id = i], pair' = [pair EXCEPT ![c] = pc],
             UNCHANGED cache
      PROVE  KeyFormInv' /\ key' \in [Calls -> Key] /\ pair' \in [Calls -> PairPc]
  <2>1. key[c] \in Key  OBVIOUS
  <2> DEFINE k == [key[c] EXCEPT !.id = i]
  <2>2. k \in Key /\ k \in DeviceKey  BY <1>4, <2>1, KeyWithId
  <2>3. key' = [key EXCEPT ![c] = k]  BY <1>4
  <2> HIDE DEF k
  <2>4. QED  BY <1>4, <2>2, <2>3, KeyFormStep
<1>5. CASE PairPointer(c)
  <2>1. CASE store.pairPtr = None
    BY <1>5, <2>1 DEF PairPointer, KeyFormInv
  <2>2. CASE store.pairPtr # None
    <3>1. store.pairPtr \in Calls  BY <2>2 DEF Store, Id
    <3>2. key[c].ring \in Users  BY <1>5 DEF PairPointer, KeyFormInv
    <3>3. QED  BY <1>4, <1>5, <2>2, <3>1, <3>2 DEF PairPointer
  <2>3. QED  BY <2>1, <2>2
<1>6. CASE PairPublic(c)
  BY <1>6 DEF PairPublic, KeyFormInv
<1>7. CASE PairPrivate(c)
  BY <1>7 DEF PairPrivate, KeyFormInv
<1>8. CASE PairGenSubject(c)
  BY <1>2, <1>8 DEF PairGenSubject
<1>9. CASE PairGenAdd(c)
  <2>1. CASE pair' = [pair EXCEPT ![c] = "failed"] /\ UNCHANGED <<store, key>>
    BY <1>9, <2>1 DEF PairGenAdd, KeyFormInv
  <2>2. CASE /\ pair' = [pair EXCEPT ![c] = "genPair"]
             /\ store' = [store EXCEPT !.pairPtr = c]
             /\ key' = [key EXCEPT ![c].id = c]
    <3>1. key[c].ring \in Users  BY <1>9 DEF PairGenAdd, KeyFormInv
    <3>2. store' \in Store  BY <2>2 DEF Store, Id
    <3>3. KeyFormInv' /\ key' \in [Calls -> Key] /\ pair' \in [Calls -> PairPc]
      BY <1>4, <1>9, <2>2, <3>1 DEF PairGenAdd
    <3>4. QED  BY <1>9, <3>2, <3>3 DEF PairGenAdd
  <2>3. QED  BY <1>9, <2>1, <2>2 DEF PairGenAdd
<1>10. CASE PairGenPair(c)
  BY <1>10 DEF PairGenPair, Store, KeyFormInv
<1>11. CASE PairGenPublic(c)
  BY <1>11 DEF PairGenPublic, KeyFormInv
<1>12. CASE PairFetch(c)
  BY <1>12 DEF PairFetch, KeyFormInv
<1>13. CASE PairRegister(c)
  BY <1>13 DEF PairRegister, RegistrationOf, Registration, KeyFormInv, DeviceKey
<1>14. QED
  BY <1>1, <1>3, <1>5, <1>6, <1>7, <1>8, <1>9, <1>10, <1>11, <1>12, <1>13
     DEF PairStep

LEMMA SymTypeInv ==
  ASSUME TypeInv, NEW c \in Calls, SymStep(c)
  PROVE  TypeInv'
<1> USE CallsAssumption
    DEF TypeInv, TypeOK, HolderInv, KeyFormInv, Holds, symFrame, SymGoto,
        SymPc, SymStorePc
<1>1. CASE SymPointer(c)
  BY <1>1 DEF SymPointer, Store
<1>2. CASE SymExists(c)
  BY <1>2 DEF SymExists, SymFound
<1>3. CASE SymDelete(c)
  BY <1>3 DEF SymDelete, Store, Id
<1>4. CASE SymAdd(c)
  BY <1>4 DEF SymAdd, Store, Id
<1>5. CASE SymGenerate(c)
  BY <1>5 DEF SymGenerate, SymFound, Store, Id
<1>6. CASE SealMetadata(c)
  BY <1>6 DEF SealMetadata
<1>7. QED
  BY <1>1, <1>2, <1>3, <1>4, <1>5, <1>6 DEF SymStep

\* Settling hands the mutex on; only its holder may do so.
LEMMA SettleTypeInv ==
  ASSUME TypeInv, NEW c \in Calls, Holds(c),
         NEW s \in {"returned", "threw"}, Settle(c, s)
  PROVE  /\ queue' \in Seq(Calls)
         /\ op' = op
         /\ state' \in [Calls -> CallState]
         /\ HolderInv'
<1> USE DEF TypeInv, TypeOK, Settle, Holds
<1>1. queue' \in Seq(Calls)  OBVIOUS
<1>2. state' \in [Calls -> CallState]
  BY DEF CallState
<1>3. \A d \in Calls : state'[d] \notin {"running", "unsealing"}
  BY DEF HolderInv
<1>4. QED  BY <1>1, <1>2, <1>3 DEF HolderInv

LEMMA CardForType ==
  ASSUME TypeOK, NEW c \in Calls
  PROVE  CardFor(c) \in Card
<1>1. RingKeys(key[c].ring) \subseteq Calls
  BY DEF RingKeys, TypeOK, Registration
<1>2. symId[c] \in Id /\ None \in Id
  BY DEF TypeOK, Id
<1>3. QED  BY <1>1, <1>2 DEF CardFor, Card

LEMMA CallTypeInv ==
  ASSUME TypeInv, NEW c \in Calls,
         (\E o \in OpKind \ {"none"} : Submit(c, o)) \/ CallStep(c)
  PROVE  TypeInv'
<1> USE DEF TypeInv, TypeOK, KeyFormInv, callFrame, strandVars, callVars
<1>1. ASSUME NEW o \in OpKind, Submit(c, o)
      PROVE  TypeInv'
  BY <1>1 DEF Submit, CallState, HolderInv, Holds
<1>2. CASE Start(c)
  <2>1. CASE signedIn
    BY <1>2, <2>1 DEF Start, CallState, PairPc, SymPc, SymStorePc, HolderInv, Holds
  <2>2. CASE ~signedIn
    BY <1>2, <2>2, SettleTypeInv DEF Start
  <2>3. QED  BY <2>1, <2>2
<1>3. CASE CreateKeysReturn(c)
  BY <1>3, SettleTypeInv DEF CreateKeysReturn, HolderInv
<1>4. CASE CallThrow(c)
  BY <1>4, SettleTypeInv DEF CallThrow, HolderInv
<1>5. CASE ProvisionMetadata(c)
  BY <1>5 DEF ProvisionMetadata, SymPc, SymStorePc, HolderInv, Holds
<1>6. CASE ProvisionSend(c)
  <2>1. Holds(c)
    BY <1>6 DEF ProvisionSend, HolderInv
  <2>2. cards' \subseteq Card
    BY <1>6, CardForType DEF ProvisionSend
  <2>3. CASE Settle(c, "returned") \/ Settle(c, "threw")
    BY <1>6, <2>1, <2>2, <2>3, SettleTypeInv DEF ProvisionSend
  <2>4. CASE /\ state' = [state EXCEPT ![c] = "unsealing"]
             /\ UNCHANGED <<queue, op>>
    BY <1>6, <2>1, <2>2, <2>4 DEF ProvisionSend, CallState, HolderInv, Holds
  <2>5. QED  BY <1>6, <2>3, <2>4 DEF ProvisionSend
<1>7. CASE ProvisionUnseal(c)
  <2>1. Holds(c)
    BY <1>7 DEF ProvisionUnseal, HolderInv
  <2>2. Settle(c, "returned") \/ Settle(c, "threw")
    BY <1>7 DEF ProvisionUnseal
  <2>3. QED  BY <1>7, <2>1, <2>2, SettleTypeInv DEF ProvisionUnseal
<1>8. QED
  BY <1>1, <1>2, <1>3, <1>4, <1>5, <1>6, <1>7 DEF CallStep

LEMMA FaultTypeInv ==
  ASSUME TypeInv, NEW c \in Calls,
         \/ PairStoreFault(c) \/ PairServerFault(c)
         \/ SymStoreFault(c) \/ ProvisionFault(c)
  PROVE  TypeInv'
<1> USE BoundAssumption
    DEF TypeInv, TypeOK, KeyFormInv, callVars, serverVars, sessionVars, Fault
<1>1. CASE PairStoreFault(c)
  BY <1>1 DEF PairStoreFault, PairPc, HolderInv, Holds
<1>2. CASE PairServerFault(c)
  <2>1. registry' \subseteq Registration
    BY <1>2 DEF PairServerFault, RegistrationOf, Registration, DeviceKey
  <2>2. QED  BY <1>2, <2>1 DEF PairServerFault, PairPc, HolderInv, Holds
<1>3. CASE SymStoreFault(c)
  BY <1>3 DEF SymStoreFault, SymPc, HolderInv, Holds
<1>4. CASE ProvisionFault(c)
  <2>1. cards' \subseteq Card
    BY <1>4, CardForType DEF ProvisionFault
  <2>2. QED
    BY <1>4, <2>1, SettleTypeInv DEF ProvisionFault, HolderInv, strandVars
<1>5. QED  BY <1>1, <1>2, <1>3, <1>4

LEMMA RestoredType ==
  ASSUME TypeOK, NEW base \in Store
  PROVE  Restored(base) \in Store
BY DEF TypeOK, Restored, Store

HostStep ==
  \/ Reset \/ ExportKeys \/ ImportKeys \/ SignOut \/ SignIn
  \/ \E u \in Users : SwitchUser(u) \/ Restart(u)

LEMMA HostTypeInv ==
  ASSUME TypeInv, HostStep
  PROVE  TypeInv'
<1> USE BoundAssumption
    DEF TypeInv, TypeOK, KeyFormInv, HolderInv, Holds, Fault, callVars,
        serverVars, sessionVars, strandVars
<1>1. CASE Reset
  BY <1>1 DEF Reset, EmptyStore, Store, Id
<1>2. CASE ExportKeys
  BY <1>2 DEF ExportKeys
<1>3. CASE ImportKeys
  <2>1. EmptyStore \in Store
    BY DEF EmptyStore, Store, Id
  <2>2. store' \in Store
    BY <1>3, <2>1, RestoredType DEF ImportKeys
  <2>3. QED  BY <1>3, <2>2 DEF ImportKeys
<1>4. CASE SignOut \/ SignIn
  <2>1. signedIn' \in BOOLEAN
    BY <1>4 DEF SignOut, SignIn
  <2>2. UNCHANGED <<store, cache, registry, cards, user, archive, queue, op,
                    state, pair, sym, key, symId>>
    BY <1>4 DEF SignOut, SignIn
  <2>3. faults' \in 0..MaxFaults
    BY <1>4 DEF SignOut, SignIn
  <2>4. QED  BY <2>1, <2>2, <2>3
<1>5. ASSUME NEW u \in Users, SwitchUser(u)
      PROVE  TypeInv'
  BY <1>5 DEF SwitchUser
<1>6. ASSUME NEW u \in Users, Restart(u)
      PROVE  TypeInv'
  <2>1. pair' \in [Calls -> PairPc] /\ sym' \in [Calls -> SymPc]
    BY <1>6 DEF Restart, AtRest, PairPc, SymPc
  <2>2. state' \in [Calls -> CallState]
    BY <1>6 DEF Restart, CallState
  <2>3. \A c \in Calls : state'[c] \notin {"running", "unsealing"}
    BY <1>6 DEF Restart
  <2>4. \A c \in Calls : pair'[c] \in {pair[c], "failed"}
    BY <1>6 DEF Restart
  <2>5. cache' \in Key /\ cache' = NoKey
    BY <1>6 DEF Restart, NoKey, Key, Id
  <2>6. queue' \in Seq(Calls) /\ faults' \in 0..MaxFaults
    BY <1>6 DEF Restart
  <2>7. QED  BY <1>6, <2>1, <2>2, <2>3, <2>4, <2>5, <2>6 DEF Restart
<1>7. QED  BY <1>1, <1>2, <1>3, <1>4, <1>5, <1>6 DEF HostStep

\* Next, by who takes the step.
LEMMA NextCases ==
  ASSUME Next
  PROVE  \/ \E c \in Calls :
              \/ (\E o \in OpKind \ {"none"} : Submit(c, o)) \/ CallStep(c)
              \/ PairStep(c) \/ SymStep(c)
              \/ PairStoreFault(c) \/ PairServerFault(c)
              \/ SymStoreFault(c) \/ ProvisionFault(c)
         \/ HostStep
         \/ UNCHANGED vars
BY DEF Next, HostStep, Quiescent

LEMMA NextTypeInv == TypeInv /\ [Next]_vars => TypeInv'
<1> SUFFICES ASSUME TypeInv, [Next]_vars PROVE TypeInv'  OBVIOUS
<1>1. CASE UNCHANGED vars
  BY <1>1 DEF vars, TypeInv, TypeOK, HolderInv, Holds, KeyFormInv
<1>2. CASE Next
  BY <1>1, <1>2, NextCases, PairTypeInv, SymTypeInv, CallTypeInv,
     FaultTypeInv, HostTypeInv
<1>3. QED  BY <1>1, <1>2

\* Every variable keeps its type, and every call between its start and its end
\* holds the mutex of the client.
THEOREM TypeCorrect == Spec => [](TypeOK /\ HolderInv /\ KeyFormInv)
<1>1. Spec => []TypeInv
  BY InitTypeInv, NextTypeInv, PTL DEF Spec
<1>2. QED  BY <1>1, PTL DEF TypeInv

-----------------------------------------------------------------------------
(* Registration.  Only the service's answers end a key-pair strand in       *)
(* "done", and nothing takes a registration back.                           *)

LEMMA NextRegistered ==
  TypeInv /\ ReportedKeyRegistered /\ [Next]_vars => ReportedKeyRegistered'
<1> SUFFICES ASSUME TypeInv, ReportedKeyRegistered, [Next]_vars
             PROVE  ReportedKeyRegistered'
  OBVIOUS
<1> USE DEF TypeInv, TypeOK, ReportedKeyRegistered, PairPc
<1>1. ASSUME NEW c \in Calls, PairStep(c)
      PROVE  ReportedKeyRegistered'
  <2> USE DEF PairGoto, pairFrame
  <2>1. CASE PairFetch(c)
    BY <2>1 DEF PairFetch, Registered
  <2>2. CASE PairRegister(c)
    <3>1. CASE registry' = registry \cup {RegistrationOf(c)}
      <4>1. RegistrationOf(c) \in registry' /\ RegistrationOf(c).id = key'[c].id
        BY <2>2, <3>1 DEF PairRegister, RegistrationOf
      <4>2. registry \subseteq registry' /\ key' = key
        BY <2>2, <3>1 DEF PairRegister
      <4>3. \A d \in Calls \ {c} : pair'[d] = pair[d]
        BY <2>2 DEF PairRegister
      <4>4. QED  BY <4>1, <4>2, <4>3
    <3>2. CASE pair' = [pair EXCEPT ![c] = "failed"] /\ UNCHANGED registry
      BY <2>2, <3>2 DEF PairRegister
    <3>3. QED  BY <2>2, <3>1, <3>2 DEF PairRegister
  <2>3. CASE PairLookup(c) \/ PairSubject(c) \/ PairPointer(c) \/ PairPublic(c)
    BY <2>3 DEF PairLookup, PairSubject, KeyRing, PairPointer, PairPublic
  <2>4. CASE PairPrivate(c) \/ PairGenSubject(c) \/ PairGenAdd(c)
    BY <2>4 DEF PairPrivate, PairGenSubject, KeyRing, PairGenAdd
  <2>5. CASE PairGenPair(c) \/ PairGenPublic(c)
    BY <2>5 DEF PairGenPair, PairGenPublic
  <2>6. QED  BY <1>1, <2>1, <2>2, <2>3, <2>4, <2>5 DEF PairStep
<1>2. ASSUME NEW c \in Calls, SymStep(c) \/ SymStoreFault(c)
      PROVE  ReportedKeyRegistered'
  BY <1>2 DEF SymStep, SymPointer, SymExists, SymDelete, SymAdd, SymGenerate,
              SealMetadata, SymStoreFault, symFrame, serverVars
<1>3. ASSUME NEW c \in Calls, NEW o \in OpKind, Submit(c, o)
      PROVE  ReportedKeyRegistered'
  BY <1>3 DEF Submit, callFrame, strandVars
<1>4. ASSUME NEW c \in Calls, CallStep(c) \/ ProvisionFault(c)
      PROVE  ReportedKeyRegistered'
  BY <1>4 DEF CallStep, Start, CreateKeysReturn, CallThrow, ProvisionMetadata,
              ProvisionSend, ProvisionUnseal, ProvisionFault, callFrame, strandVars
<1>5. ASSUME NEW c \in Calls, PairStoreFault(c) \/ PairServerFault(c)
      PROVE  ReportedKeyRegistered'
  BY <1>5 DEF PairStoreFault, PairServerFault, serverVars
<1>6. CASE HostStep
  BY <1>6 DEF HostStep, Reset, ExportKeys, ImportKeys, SignOut, SignIn,
              SwitchUser, Restart, AtRest, serverVars, strandVars
<1>7. CASE UNCHANGED vars
  BY <1>7 DEF vars
<1>8. QED  BY <1>1, <1>2, <1>3, <1>4, <1>5, <1>6, <1>7, NextCases

\* A key pair handed on as usable is registered with the service, whatever
\* faults, restarts, resets and imports the instance allows.
THEOREM KeysRegistered == Spec => []ReportedKeyRegistered
<1>1. Init => ReportedKeyRegistered
  BY DEF Init, ReportedKeyRegistered
<1>2. Spec => []TypeInv
  BY InitTypeInv, NextTypeInv, PTL DEF Spec
<1>3. QED  BY <1>1, <1>2, NextRegistered, PTL DEF Spec

-----------------------------------------------------------------------------
(* Possession.  The cache and the strands only name pairs that were seen in *)
(* the store or put there, and only reset and importKeys take one away.     *)

StoreKept == Faults \cap {"reset", "racingReset", "import"} = {}

HeldInv ==
  /\ cache # NoKey => cache.id \in store.pairs
  /\ \A c \in Calls :
       /\ pair[c] \in {"genPair", "genPublic"} => key[c].id = c
       /\ pair[c] \in {"fetch", "register", "done"} => key[c].id \in store.pairs

LEMMA NextHeld ==
  ASSUME StoreKept, TypeInv, HeldInv, [Next]_vars
  PROVE  HeldInv'
<1> USE DEF TypeInv, TypeOK, HeldInv, PairPc, Store
<1>1. ASSUME NEW c \in Calls, PairStep(c)
      PROVE  HeldInv'
  <2> USE DEF PairGoto, pairFrame
  <2>1. CASE PairLookup(c)
    BY <2>1 DEF PairLookup
  <2>2. CASE PairSubject(c) \/ PairGenSubject(c)
    BY <2>2 DEF PairSubject, PairGenSubject, KeyRing
  <2>3. CASE PairPointer(c) \/ PairPublic(c)
    BY <2>3 DEF PairPointer, PairPublic
  <2>4. CASE PairPrivate(c)
    BY <2>4 DEF PairPrivate
  <2>5. CASE PairGenAdd(c)
    BY <2>5 DEF PairGenAdd, Key
  <2>6. CASE PairGenPair(c)
    BY <2>6 DEF PairGenPair
  <2>7. CASE PairGenPublic(c)
    BY <2>7 DEF PairGenPublic
  <2>8. CASE PairFetch(c) \/ PairRegister(c)
    BY <2>8 DEF PairFetch, PairRegister
  <2>9. QED
    BY <1>1, <2>1, <2>2, <2>3, <2>4, <2>5, <2>6, <2>7, <2>8 DEF PairStep
<1>2. ASSUME NEW c \in Calls, SymStep(c) \/ SymStoreFault(c)
      PROVE  HeldInv'
  <2>1. store'.pairs = store.pairs
    BY <1>2 DEF SymStep, SymPointer, SymExists, SymDelete, SymAdd, SymGenerate,
                SealMetadata, SymStoreFault
  <2>2. UNCHANGED <<cache, pair, key>>
    BY <1>2 DEF SymStep, SymPointer, SymExists, SymDelete, SymAdd, SymGenerate,
                SealMetadata, SymStoreFault, symFrame
  <2>3. QED  BY <2>1, <2>2
<1>3. ASSUME NEW c \in Calls, NEW o \in OpKind, Submit(c, o)
      PROVE  HeldInv'
  BY <1>3 DEF Submit, callFrame, strandVars
<1>4. ASSUME NEW c \in Calls, CallStep(c) \/ ProvisionFault(c)
      PROVE  HeldInv'
  BY <1>4 DEF CallStep, Start, CreateKeysReturn, CallThrow, ProvisionMetadata,
              ProvisionSend, ProvisionUnseal, ProvisionFault, callFrame, strandVars
<1>5. ASSUME NEW c \in Calls, PairStoreFault(c) \/ PairServerFault(c)
      PROVE  HeldInv'
  BY <1>5 DEF PairStoreFault, PairServerFault
<1>6. CASE HostStep
  BY <1>6 DEF HostStep, Reset, ExportKeys, ImportKeys, SignOut, SignIn, Fault,
              SwitchUser, Restart, AtRest, strandVars, StoreKept
<1>7. CASE UNCHANGED vars
  BY <1>7 DEF vars
<1>8. QED  BY <1>1, <1>2, <1>3, <1>4, <1>5, <1>6, <1>7, NextCases

\* Short of a reset or an import, the private key of every pair handed on as
\* usable is on the device, whatever is lost, restarted or run side by side.
THEOREM KeysHeld ==
  ASSUME StoreKept
  PROVE  Spec => []ReportedKeyHeld
<1>1. Init => HeldInv
  BY DEF Init, HeldInv
<1>2. TypeInv /\ HeldInv /\ [Next]_vars => HeldInv'
  BY NextHeld
<1>3. HeldInv => ReportedKeyHeld
  BY DEF HeldInv, ReportedKeyHeld
<1>4. Spec => []TypeInv
  BY InitTypeInv, NextTypeInv, PTL DEF Spec
<1>5. QED  BY <1>1, <1>2, <1>3, <1>4, PTL DEF Spec

-----------------------------------------------------------------------------
(* Ownership.  Within a page every ring read is that of its user; across a  *)
(* reload nothing of the old page is left to register a key.                *)

OwnerInv ==
  /\ KeysFiledUnderOwner
  /\ cache # NoKey => cache.ring = user
  /\ \A c \in Calls :
       pair[c] \in {"pointer", "public", "private", "genAdd", "genPair",
                   "genPublic", "fetch", "register"} => key[c].ring = user

LEMMA NextOwner ==
  ASSUME "switch" \notin Faults, TypeInv, OwnerInv, [Next]_vars
  PROVE  OwnerInv'
<1> USE DEF TypeInv, TypeOK, OwnerInv, KeysFiledUnderOwner, PairPc, Key
<1>1. ASSUME NEW c \in Calls, PairStep(c)
      PROVE  OwnerInv'
  <2> USE DEF PairGoto, pairFrame
  <2>1. CASE PairLookup(c)
    BY <2>1 DEF PairLookup
  <2>2. CASE PairSubject(c) \/ PairGenSubject(c)
    BY <2>2 DEF PairSubject, PairGenSubject, KeyRing
  <2>3. CASE PairPointer(c) \/ PairPublic(c)
    BY <2>3 DEF PairPointer, PairPublic
  <2>4. CASE PairPrivate(c)
    BY <2>4 DEF PairPrivate
  <2>5. CASE PairGenAdd(c)
    BY <2>5 DEF PairGenAdd
  <2>6. CASE PairGenPair(c) \/ PairGenPublic(c) \/ PairFetch(c)
    BY <2>6 DEF PairGenPair, PairGenPublic, PairFetch
  <2>7. CASE PairRegister(c)
    BY <2>7 DEF PairRegister, RegistrationOf
  <2>8. QED
    BY <1>1, <2>1, <2>2, <2>3, <2>4, <2>5, <2>6, <2>7 DEF PairStep
<1>2. ASSUME NEW c \in Calls, SymStep(c) \/ SymStoreFault(c)
      PROVE  OwnerInv'
  BY <1>2 DEF SymStep, SymPointer, SymExists, SymDelete, SymAdd, SymGenerate,
              SealMetadata, SymStoreFault, symFrame, serverVars, sessionVars
<1>3. ASSUME NEW c \in Calls, NEW o \in OpKind, Submit(c, o)
      PROVE  OwnerInv'
  BY <1>3 DEF Submit, callFrame, strandVars
<1>4. ASSUME NEW c \in Calls, CallStep(c) \/ ProvisionFault(c)
      PROVE  OwnerInv'
  <2>1. UNCHANGED <<cache, registry, user, key>>
    BY <1>4 DEF CallStep, Start, CreateKeysReturn, CallThrow, ProvisionSend,
                ProvisionMetadata, ProvisionUnseal, ProvisionFault, callFrame,
                strandVars, sessionVars
  <2>2. pair' = pair \/ pair' = [pair EXCEPT ![c] = "lookup"]
    BY <1>4 DEF CallStep, Start, CreateKeysReturn, CallThrow, ProvisionSend,
                ProvisionMetadata, ProvisionUnseal, ProvisionFault, strandVars
  <2>3. QED  BY <2>1, <2>2
<1>5. ASSUME NEW c \in Calls, PairStoreFault(c) \/ PairServerFault(c)
      PROVE  OwnerInv'
  BY <1>5 DEF PairStoreFault, PairServerFault, serverVars, sessionVars,
              RegistrationOf
<1>6. CASE HostStep
  BY <1>6 DEF HostStep, Reset, ExportKeys, ImportKeys, SignOut, SignIn, Fault,
              SwitchUser, Restart, AtRest, strandVars, serverVars, sessionVars
<1>7. CASE UNCHANGED vars
  BY <1>7 DEF vars
<1>8. QED  BY <1>1, <1>2, <1>3, <1>4, <1>5, <1>6, <1>7, NextCases

\* Users who take turns on one device, each on a page of its own, never file a
\* key under one another's ring, although they share the key store.
THEOREM KeysOwned ==
  ASSUME "switch" \notin Faults
  PROVE  Spec => []KeysFiledUnderOwner
<1>1. Init => OwnerInv
  BY DEF Init, OwnerInv, KeysFiledUnderOwner
<1>2. TypeInv /\ OwnerInv /\ [Next]_vars => OwnerInv'
  BY NextOwner
<1>3. OwnerInv => KeysFiledUnderOwner
  BY DEF OwnerInv
<1>4. Spec => []TypeInv
  BY InitTypeInv, NextTypeInv, PTL DEF Spec
<1>5. QED  BY <1>1, <1>2, <1>3, <1>4, PTL DEF Spec

-----------------------------------------------------------------------------
(* Readability of the cards, from possession and ownership: the ring named  *)
(* in the request holds the key of the strand, which the device holds too.  *)

CardInv ==
  /\ CardsReadable
  /\ \A c \in Calls :
       /\ state[c] = "running" /\ pair[c] = "done"
            => \E r \in registry : r.id = key[c].id /\ r.ring = key[c].ring
                                   /\ r.owner = user
       /\ sym[c] = "sealed" => symId[c] \in store.symKeys

\* The card the service makes for a call that is ready to send.
LEMMA CardForReadable ==
  ASSUME TypeInv, HeldInv, CardInv, NEW c \in Calls,
         state[c] = "running", pair[c] = "done"
  PROVE  /\ CardFor(c).keys \cap store.pairs # {}
         /\ CardFor(c).meta \in store.symKeys \cup {None}
<1>1. key[c].id \in CardFor(c).keys
  BY DEF CardInv, CardFor, RingKeys
<1>2. key[c].id \in store.pairs
  BY DEF HeldInv
<1>3. CardFor(c).meta \in store.symKeys \cup {None}
  BY DEF CardInv, CardFor
<1>4. QED  BY <1>1, <1>2, <1>3

LEMMA NextCards ==
  ASSUME StoreKept, "switch" \notin Faults,
         TypeInv, HeldInv, OwnerInv, CardInv, [Next]_vars
  PROVE  CardInv'
<1> USE DEF TypeInv, TypeOK, CardInv, PairPc
<1>1. ASSUME NEW c \in Calls, PairStep(c)
      PROVE  CardInv'
  <2>1. /\ UNCHANGED <<cards, state, sym, symId, user>>
        /\ registry \subseteq registry'
        /\ store.pairs \subseteq store'.pairs
        /\ store.symKeys \subseteq store'.symKeys
    BY <1>1 DEF PairStep, PairLookup, PairSubject, PairPointer, PairPublic,
                PairPrivate, PairGenSubject, KeyRing, PairGenAdd, PairGenPair,
                PairGenPublic, PairFetch, PairRegister, pairFrame, Store
  <2>2. CardsReadable'
    BY <2>1 DEF CardsReadable
  <2>3. \A d \in Calls \ {c} : pair'[d] = pair[d] /\ key'[d] = key[d]
    BY <1>1 DEF PairStep, PairLookup, PairSubject, PairPointer, PairPublic,
                PairPrivate, PairGenSubject, KeyRing, PairGenAdd, PairGenPair,
                PairGenPublic, PairFetch, PairRegister, PairGoto
  <2>4. ASSUME pair'[c] = "done"
        PROVE  \E r \in registry' : /\ r.id = key'[c].id
                                    /\ r.ring = key'[c].ring /\ r.owner = user'
    <3>1. PairFetch(c) \/ PairRegister(c)
      BY <1>1, <2>4 DEF PairStep, PairLookup, PairSubject, PairPointer,
         PairPublic, PairPrivate, PairGenSubject, KeyRing, PairGenAdd,
         PairGenPair, PairGenPublic, PairGoto
    <3>2. key[c].ring = user /\ key' = key
      BY <3>1 DEF PairFetch, PairRegister, PairGoto, OwnerInv
    <3>3. CASE PairFetch(c)
      <4>1. PICK r \in registry : r.id = key[c].id /\ r.owner = user
        BY <2>4, <3>3 DEF PairFetch, PairGoto, Registered
      <4>2. r.ring = user
        BY <4>1 DEF OwnerInv, KeysFiledUnderOwner
      <4>3. QED  BY <2>1, <3>2, <4>1, <4>2
    <3>4. CASE PairRegister(c)
      <4>1. RegistrationOf(c) \in registry'
        BY <2>4, <3>4 DEF PairRegister, PairGoto
      <4>2. QED  BY <2>1, <3>2, <4>1 DEF RegistrationOf
    <3>5. QED  BY <3>1, <3>3, <3>4
  <2>5. QED  BY <2>1, <2>2, <2>3, <2>4
<1>2. ASSUME NEW c \in Calls, SymStep(c) \/ SymStoreFault(c)
      PROVE  CardInv'
  <2>1. UNCHANGED <<cards, state, pair, key, registry, user>>
    BY <1>2 DEF SymStep, SymPointer, SymExists, SymDelete, SymAdd, SymGenerate,
                SealMetadata, SymStoreFault, symFrame, serverVars, sessionVars,
                callVars
  <2>2. store.pairs = store'.pairs /\ store.symKeys \subseteq store'.symKeys
    BY <1>2 DEF SymStep, SymPointer, SymExists, SymDelete, SymAdd, SymGenerate,
                SealMetadata, SymStoreFault, Store
  <2>3. \A d \in Calls \ {c} : sym'[d] = sym[d] /\ symId'[d] = symId[d]
    BY <1>2 DEF SymStep, SymPointer, SymExists, SymDelete, SymAdd, SymGenerate,
                SealMetadata, SymStoreFault, SymGoto
  <2>4. sym'[c] = "sealed" => symId'[c] \in store'.symKeys
    BY <1>2 DEF SymStep, SymPointer, SymExists, SymDelete, SymAdd, SymGenerate,
                SymFound, SealMetadata, SymStoreFault, SymGoto, SymPc, SymStorePc
  <2>5. CardsReadable'
    BY <2>1, <2>2 DEF CardsReadable
  <2>6. QED  BY <2>1, <2>2, <2>3, <2>4, <2>5
<1>3. ASSUME NEW c \in Calls, NEW o \in OpKind, Submit(c, o)
      PROVE  CardInv'
  BY <1>3 DEF Submit, callFrame, strandVars, CardsReadable
<1>4. ASSUME NEW c \in Calls, CallStep(c) \/ ProvisionFault(c)
      PROVE  CardInv'
  <2>1. UNCHANGED <<store, registry, user, key, symId>>
    BY <1>4 DEF CallStep, Start, CreateKeysReturn, CallThrow, ProvisionSend,
                ProvisionMetadata, ProvisionUnseal, ProvisionFault, callFrame,
                strandVars, sessionVars
  <2>2. CASE Start(c)
    BY <2>1, <2>2 DEF Start, Settle, CardsReadable
  <2>3. CASE CreateKeysReturn(c) \/ CallThrow(c)
    BY <2>1, <2>3 DEF CreateKeysReturn, CallThrow, Settle, strandVars,
                      CardsReadable
  <2>4. CASE ProvisionMetadata(c)
    BY <2>1, <2>4 DEF ProvisionMetadata, callVars, CardsReadable
  <2>5. CASE ProvisionSend(c) \/ ProvisionFault(c)
    <3>1. /\ state[c] = "running" /\ pair[c] = "done"
          /\ cards' = cards \/ cards' = cards \cup {CardFor(c)}
          /\ UNCHANGED <<pair, sym>>
          /\ \A d \in Calls : state'[d] = "running" => state[d] = "running"
      BY <2>5 DEF ProvisionSend, ProvisionFault, Settle, strandVars
    <3>2. CardsReadable'
      BY <2>1, <3>1, CardForReadable DEF CardsReadable
    <3>3. QED  BY <2>1, <3>1, <3>2
  <2>6. CASE ProvisionUnseal(c)
    BY <2>1, <2>6 DEF ProvisionUnseal, Settle, strandVars, CardsReadable
  <2>7. QED  BY <1>4, <2>2, <2>3, <2>4, <2>5, <2>6 DEF CallStep
<1>5. ASSUME NEW c \in Calls, PairStoreFault(c) \/ PairServerFault(c)
      PROVE  CardInv'
  <2>1. /\ UNCHANGED <<store, cards, state, sym, symId, key, user>>
        /\ registry \subseteq registry'
        /\ pair' = [pair EXCEPT ![c] = "failed"]
    BY <1>5 DEF PairStoreFault, PairServerFault, serverVars, sessionVars,
                callVars
  <2>2. QED  BY <2>1 DEF CardsReadable
<1>6. CASE HostStep
  <2>1. UNCHANGED <<cards, registry, key, symId, store>>
    BY <1>6 DEF HostStep, Reset, ExportKeys, ImportKeys, SignOut, SignIn, Fault,
                SwitchUser, Restart, strandVars, serverVars, StoreKept
  <2>2. \A c \in Calls : sym'[c] = "sealed" => sym[c] = "sealed"
    BY <1>6 DEF HostStep, Reset, ExportKeys, ImportKeys, SignOut, SignIn,
                SwitchUser, Restart, AtRest, strandVars
  <2>3. \/ user' = user /\ UNCHANGED <<state, pair>>
        \/ \A c \in Calls : state'[c] # "running"
    BY <1>6 DEF HostStep, Reset, ExportKeys, ImportKeys, SignOut, SignIn, Fault,
                SwitchUser, Restart, strandVars, callVars, sessionVars
  <2>4. QED  BY <2>1, <2>2, <2>3 DEF CardsReadable
<1>7. CASE UNCHANGED vars
  BY <1>7 DEF vars, CardsReadable
<1>8. QED  BY <1>1, <1>2, <1>3, <1>4, <1>5, <1>6, <1>7, NextCases

\* Short of a reset, an import or a change of user within a page, every card
\* the service provisions for this device can be read on it.
THEOREM CardsAlwaysReadable ==
  ASSUME StoreKept, "switch" \notin Faults
  PROVE  Spec => []CardsReadable
<1>1. Init => HeldInv /\ OwnerInv /\ CardInv
  BY DEF Init, HeldInv, OwnerInv, KeysFiledUnderOwner, CardInv, CardsReadable
<1>2. TypeInv /\ HeldInv /\ [Next]_vars => HeldInv'
  BY NextHeld
<1>3. TypeInv /\ OwnerInv /\ [Next]_vars => OwnerInv'
  BY NextOwner
<1>4. TypeInv /\ HeldInv /\ OwnerInv /\ CardInv /\ [Next]_vars => CardInv'
  BY NextCards
<1>5. CardInv => CardsReadable
  BY DEF CardInv
<1>6. Spec => []TypeInv
  BY InitTypeInv, NextTypeInv, PTL DEF Spec
<1>7. QED  BY <1>1, <1>2, <1>3, <1>4, <1>5, <1>6, PTL DEF Spec

-----------------------------------------------------------------------------
(* Stability.  With reloads as the only faults nothing fails, so that only   *)
(* the holder of the mutex has strands under way, and a key that is there   *)
(* and pointed to is never replaced.                                        *)

OnlyReloads == Faults \subseteq {"restart"} /\ AddPasswordReplaces

PairKept == store.pairPtr \in store.pairs
SymKept == store.symPtr \in store.symKeys

\* What the strands of the running call know of the store.
PairKnows(c) ==
  /\ pair[c] \in {"public", "private"} => key[c].id = store.pairPtr
  /\ pair[c] \in {"genSubject", "genAdd"} => ~PairKept
  /\ pair[c] \in {"genPair", "genPublic"} => key[c].id = c /\ store.pairPtr = c
  /\ pair[c] = "genPublic" => c \in store.pairs
  /\ pair[c] \in {"fetch", "register", "done"}
       => key[c].id = store.pairPtr /\ PairKept

SymKnows(c) ==
  /\ sym[c] = "exists" => symId[c] = store.symPtr
  /\ sym[c] \in {"delete", "add"} => ~SymKept
  /\ sym[c] = "generate" => store.symPtr = c
  /\ sym[c] \in {"seal", "done"} => symId[c] = store.symPtr /\ SymKept

StableInv ==
  /\ signedIn
  /\ cache # NoKey => cache.id = store.pairPtr /\ PairKept
  /\ RecoversFromRestart
  /\ \A c \in Calls :
       /\ ~AtRest(pair[c]) \/ ~AtRest(sym[c]) => state[c] = "running"
       /\ state[c] \in {"new", "queued"} => sym[c] = "idle"
       /\ state[c] = "unsealing" => op[c] = "provisionVirtualCard"
       /\ state[c] = "running" => /\ pair[c] # "failed" /\ sym[c] # "failed"
                                  /\ PairKnows(c) /\ SymKnows(c)
       /\ Reports(c) => /\ key[c].id = store.pairPtr /\ PairKept
                        /\ symId[c] = store.symPtr /\ SymKept

LEMMA OneRuns ==
  ASSUME TypeInv, NEW c \in Calls, NEW d \in Calls,
         state[c] = "running", state[d] = "running"
  PROVE  c = d
BY DEF TypeInv, HolderInv, Holds

LEMMA PairStable ==
  ASSUME OnlyReloads, TypeInv, StableInv, NEW c \in Calls, PairStep(c)
  PROVE  StableInv'
<1> USE CallsAssumption DEF TypeInv, TypeOK, PairGoto, pairFrame
<1>0. pair[c] \in PairPc /\ ~AtRest(pair[c]) /\ state[c] = "running"
  <2>1. ~AtRest(pair[c])
    BY DEF PairStep, PairLookup, PairSubject, PairPointer, PairPublic, PairPrivate,
           PairGenSubject, KeyRing, PairGenAdd, PairGenPair, PairGenPublic,
           PairFetch, PairRegister, AtRest
  <2>2. QED  BY <2>1 DEF StableInv
<1>1. \A d \in Calls \ {c} : /\ pair'[d] = pair[d] /\ key'[d] = key[d]
                             /\ state[d] # "running"
  <2>1. \A d \in Calls \ {c} : pair'[d] = pair[d] /\ key'[d] = key[d]
    BY DEF PairStep, PairLookup, PairSubject, PairPointer, PairPublic, PairPrivate,
           PairGenSubject, KeyRing, PairGenAdd, PairGenPair, PairGenPublic,
           PairFetch, PairRegister
  <2>2. QED  BY <1>0, <2>1, OneRuns
<1>2. /\ UNCHANGED <<signedIn, state, sym, symId, op>>
      /\ store'.symPtr = store.symPtr /\ store'.symKeys = store.symKeys
  BY DEF PairStep, PairLookup, PairSubject, PairPointer, PairPublic, PairPrivate,
         PairGenSubject, KeyRing, PairGenAdd, PairGenPair, PairGenPublic,
         PairFetch, PairRegister, Store
<1> DEFINE Good ==
      /\ pair'[c] # "failed" /\ PairKnows(c)'
      /\ cache' # NoKey => cache'.id = store'.pairPtr /\ PairKept'
      /\ PairKept => store'.pairPtr = store.pairPtr /\ PairKept'
<1> SUFFICES Good
  BY <1>0, <1>1, <1>2
     DEF StableInv, RecoversFromRestart, Reports, SymKnows, SymKept, AtRest
<1>3. CASE PairLookup(c)
  BY <1>0, <1>3 DEF PairLookup, StableInv, PairKnows, PairKept, PairPc
<1>4. CASE PairSubject(c) \/ PairGenSubject(c)
  BY <1>0, <1>4 DEF PairSubject, PairGenSubject, KeyRing, StableInv, PairKnows,
                    PairKept, Key
<1>5. CASE PairPointer(c)
  <2>1. key[c] \in Key
    BY DEF PairPc
  <2>2. store.pairPtr = None => ~PairKept
    BY DEF PairKept, Store
  <2>3. QED
    BY <1>0, <1>5, <2>1, <2>2 DEF PairPointer, StableInv, PairKnows, PairKept, Key
<1>6. CASE PairPublic(c)
  BY <1>0, <1>6 DEF PairPublic, StableInv, PairKnows, PairKept
<1>7. CASE PairPrivate(c)
  BY <1>0, <1>7 DEF PairPrivate, StableInv, PairKnows, PairKept
<1>8. CASE PairGenAdd(c)
  <2>1. /\ pair' = [pair EXCEPT ![c] = "genPair"]
        /\ store' = [store EXCEPT !.pairPtr = c]
        /\ key' = [key EXCEPT ![c].id = c]
        /\ UNCHANGED cache
    BY <1>8 DEF PairGenAdd, OnlyReloads
  <2>2. ~PairKept
    BY <1>0, <1>8 DEF PairGenAdd, StableInv, PairKnows
  <2>3. store'.pairPtr = c /\ key'[c].id = c /\ pair'[c] = "genPair"
    BY <2>1 DEF Store, Key
  <2>4. cache' = NoKey
    BY <2>1, <2>2 DEF StableInv
  <2>5. QED  BY <2>2, <2>3, <2>4 DEF PairKnows
<1>9. CASE PairGenPair(c)
  BY <1>0, <1>9 DEF PairGenPair, StableInv, PairKnows, PairKept, Store
<1>10. CASE PairGenPublic(c)
  BY <1>0, <1>10 DEF PairGenPublic, StableInv, PairKnows, PairKept
<1>11. CASE PairFetch(c) \/ PairRegister(c)
  BY <1>0, <1>11 DEF PairFetch, PairRegister, StableInv, PairKnows, PairKept
<1>12. QED
  BY <1>3, <1>4, <1>5, <1>6, <1>7, <1>8, <1>9, <1>10, <1>11 DEF PairStep

LEMMA SymStable ==
  ASSUME OnlyReloads, TypeInv, StableInv, NEW c \in Calls, SymStep(c)
  PROVE  StableInv'
<1> USE CallsAssumption DEF TypeInv, TypeOK, SymGoto, symFrame
<1>0. ~AtRest(sym[c]) /\ state[c] = "running"
  <2>1. ~AtRest(sym[c])
    BY DEF SymStep, SymPointer, SymExists, SymDelete, SymAdd, SymGenerate,
           SealMetadata, AtRest
  <2>2. QED  BY <2>1 DEF StableInv
<1>1. \A d \in Calls \ {c} : /\ sym'[d] = sym[d] /\ symId'[d] = symId[d]
                             /\ state[d] # "running"
  <2>1. \A d \in Calls \ {c} : sym'[d] = sym[d] /\ symId'[d] = symId[d]
    BY DEF SymStep, SymPointer, SymExists, SymDelete, SymAdd, SymGenerate,
           SealMetadata
  <2>2. QED  BY <1>0, <2>1, OneRuns
<1>2. /\ UNCHANGED <<signedIn, state, pair, key, op, cache>>
      /\ store'.pairPtr = store.pairPtr /\ store'.pairs = store.pairs
  BY DEF SymStep, SymPointer, SymExists, SymDelete, SymAdd, SymGenerate,
         SealMetadata, Store
<1> DEFINE Good ==
      /\ sym'[c] # "failed" /\ SymKnows(c)'
      /\ SymKept => store'.symPtr = store.symPtr /\ SymKept'
<1> SUFFICES Good
  BY <1>0, <1>1, <1>2
     DEF StableInv, RecoversFromRestart, Reports, PairKnows, PairKept, AtRest
<1>3. CASE SymPointer(c)
  <2>1. store.symPtr = None => ~SymKept
    BY DEF SymKept, Store
  <2>2. QED
    BY <1>0, <1>3, <2>1 DEF SymPointer, StableInv, SymKnows, SymKept
<1>4. CASE SymExists(c)
  BY <1>0, <1>4 DEF SymExists, SymFound, StableInv, SymKnows, SymKept
<1>5. CASE SymDelete(c)
  <2>1. /\ sym'[c] = "add" /\ store'.symPtr = None /\ store'.symKeys = store.symKeys
    BY <1>5 DEF SymDelete, Store
  <2>2. ~SymKept /\ None \notin store.symKeys
    BY <1>0, <1>5 DEF SymDelete, StableInv, SymKnows, Store
  <2>3. QED  BY <2>1, <2>2 DEF SymKnows, SymKept
<1>6. CASE SymAdd(c)
  <2>1. /\ sym'[c] = "generate" /\ store'.symPtr = c
    BY <1>6 DEF SymAdd, Store, OnlyReloads
  <2>2. ~SymKept
    BY <1>0, <1>6 DEF SymAdd, StableInv, SymKnows
  <2>3. QED  BY <2>1, <2>2 DEF SymKnows
<1>7. CASE SymGenerate(c)
  BY <1>0, <1>7 DEF SymGenerate, SymFound, StableInv, SymKnows, SymKept, Store
<1>8. CASE SealMetadata(c)
  BY <1>0, <1>8 DEF SealMetadata, StableInv, SymKnows, SymKept
<1>9. QED
  BY <1>3, <1>4, <1>5, <1>6, <1>7, <1>8 DEF SymStep

LEMMA CallStable ==
  ASSUME OnlyReloads, TypeInv, StableInv, CardsReadable, NEW c \in Calls,
         (\E o \in OpKind \ {"none"} : Submit(c, o)) \/ CallStep(c)
  PROVE  StableInv'
<1> USE DEF TypeInv, TypeOK, callFrame, strandVars, callVars
<1>1. ASSUME NEW o \in OpKind \ {"none"}, Submit(c, o)
      PROVE  StableInv'
  <2>1. /\ UNCHANGED <<store, cache, signedIn, pair, sym, key, symId>>
        /\ state[c] = "new" /\ state'[c] = "queued"
        /\ \A d \in Calls \ {c} : state'[d] = state[d] /\ op'[d] = op[d]
    BY <1>1 DEF Submit
  <2>2. QED
    BY <2>1 DEF StableInv, RecoversFromRestart, Reports, PairKnows, SymKnows,
                PairKept, SymKept
<1>2. CASE Start(c)
  <2>1. /\ UNCHANGED <<store, cache, signedIn, key, symId, op>>
        /\ state[c] = "queued" /\ state' = [state EXCEPT ![c] = "running"]
        /\ pair' = [pair EXCEPT ![c] = "lookup"]
        /\ sym'[c] \in {"pointer", "idle"} /\ pair'[c] = "lookup"
        /\ \A d \in Calls \ {c} : sym'[d] = sym[d]
    BY <1>2 DEF Start, StableInv
  <2>2. PairKnows(c)' /\ SymKnows(c)'
    BY <2>1 DEF PairKnows, SymKnows
  <2>3. QED
    BY <2>1, <2>2 DEF StableInv, RecoversFromRestart, Reports, PairKnows, SymKnows,
                      PairKept, SymKept
<1>3. CASE CreateKeysReturn(c)
  <2>1. /\ UNCHANGED <<store, cache, signedIn, pair, sym, key, symId, op>>
        /\ state[c] = "running" /\ state' = [state EXCEPT ![c] = "returned"]
        /\ pair[c] = "done" /\ sym[c] = "done"
    BY <1>3 DEF CreateKeysReturn, Settle
  <2>2. QED
    BY <2>1 DEF StableInv, RecoversFromRestart, Reports, PairKnows, SymKnows,
                PairKept, SymKept, AtRest
<1>4. CASE CallThrow(c)
  BY <1>4 DEF CallThrow, StableInv
<1>5. CASE ProvisionMetadata(c)
  <2>1. /\ UNCHANGED <<store, cache, signedIn, pair, key, symId, op, state>>
        /\ state[c] = "running"
        /\ \E next \in {"pointer", "skipped"} : sym' = [sym EXCEPT ![c] = next]
    BY <1>5 DEF ProvisionMetadata
  <2>2. QED
    BY <2>1 DEF StableInv, RecoversFromRestart, Reports, PairKnows, SymKnows,
                PairKept, SymKept, AtRest
<1>6. ASSUME op[c] = "provisionVirtualCard", state[c] \in {"running", "unsealing"},
             state[c] = "running" => AtRest(pair[c]) /\ AtRest(sym[c]),
             NEW s \in {"unsealing", "returned"},
             state' = [state EXCEPT ![c] = s],
             UNCHANGED <<store, cache, signedIn, pair, sym, key, symId, op>>
      PROVE  StableInv'
  BY <1>6 DEF StableInv, RecoversFromRestart, Reports, PairKnows, SymKnows,
              PairKept, SymKept
<1>7. CASE ProvisionSend(c)
  <2>1. AtRest(pair[c]) /\ AtRest(sym[c])
    BY <1>7 DEF ProvisionSend, AtRest
  <2>2. \E s \in {"unsealing", "returned"} : state' = [state EXCEPT ![c] = s]
    BY <1>7 DEF ProvisionSend, Settle, StableInv
  <2>3. UNCHANGED <<store, cache, signedIn, pair, sym, key, symId, op>>
    BY <1>7 DEF ProvisionSend, Settle
  <2>4. QED  BY <1>6, <1>7, <2>1, <2>2, <2>3 DEF ProvisionSend
<1>8. CASE ProvisionUnseal(c)
  <2>1. state' = [state EXCEPT ![c] = "returned"]
    BY <1>8 DEF ProvisionUnseal, Settle, CardsReadable
  <2>2. UNCHANGED <<store, cache, signedIn, pair, sym, key, symId, op>>
    BY <1>8 DEF ProvisionUnseal, Settle
  <2>3. op[c] = "provisionVirtualCard" /\ state[c] = "unsealing"
    BY <1>8 DEF ProvisionUnseal, StableInv
  <2>4. QED  BY <1>6, <2>1, <2>2, <2>3
<1>9. QED
  BY <1>1, <1>2, <1>3, <1>4, <1>5, <1>7, <1>8 DEF CallStep

LEMMA NextStable ==
  ASSUME OnlyReloads, TypeInv, StableInv, CardsReadable, [Next]_vars
  PROVE  StableInv'
<1> USE DEF TypeInv, TypeOK
<1>1. ASSUME NEW c \in Calls,
             \/ PairStoreFault(c) \/ PairServerFault(c)
             \/ SymStoreFault(c) \/ ProvisionFault(c)
      PROVE  FALSE
  BY <1>1 DEF PairStoreFault, PairServerFault, SymStoreFault, ProvisionFault,
              Fault, OnlyReloads
<1>2. ASSUME NEW u \in Users, Restart(u)
      PROVE  StableInv'
  <2>1. /\ UNCHANGED <<store, signedIn, op, key, symId>> /\ cache' = NoKey
        /\ \A c \in Calls : /\ AtRest(pair'[c]) /\ AtRest(sym'[c])
                            /\ sym[c] = "idle" => sym'[c] = "idle"
    BY <1>2 DEF Restart, AtRest
  <2>2. \A c \in Calls :
          \/ state'[c] = "lost"
          \/ state'[c] = state[c] /\ state[c] \notin {"queued", "running", "unsealing"}
    BY <1>2 DEF Restart
  <2>3. QED
    BY <2>1, <2>2 DEF StableInv, RecoversFromRestart, Reports, PairKept, SymKept
<1>3. ASSUME NEW u \in Users, SwitchUser(u) \/ SignIn
      PROVE  FALSE
  BY <1>3 DEF SwitchUser, SignIn, StableInv
<1>4. CASE ExportKeys \/ ImportKeys \/ Reset \/ SignOut
  BY <1>4 DEF ExportKeys, ImportKeys, Reset, SignOut, Fault, OnlyReloads
<1>5. CASE UNCHANGED vars
  BY <1>5 DEF vars, StableInv, RecoversFromRestart, Reports, PairKnows, SymKnows,
              PairKept, SymKept
<1>6. QED
  BY <1>1, <1>2, <1>3, <1>4, <1>5, PairStable, SymStable, CallStable, NextCases
     DEF HostStep

LEMMA StableAlways ==
  ASSUME OnlyReloads
  PROVE  Spec => []StableInv
<1>1. Init => StableInv
  BY DEF Init, StableInv, RecoversFromRestart, Reports, AtRest
<1>2. TypeInv /\ StableInv /\ CardsReadable /\ [Next]_vars => StableInv'
  BY NextStable
<1>3. StoreKept /\ "switch" \notin Faults
  BY DEF OnlyReloads, StoreKept
<1>4. Spec => []TypeInv
  BY InitTypeInv, NextTypeInv, PTL DEF Spec
<1>5. Spec => []CardsReadable
  BY <1>3, CardsAlwaysReadable
<1>6. QED  BY <1>1, <1>2, <1>4, <1>5, PTL DEF Spec

\* Whatever pages are reloaded between any two steps, and for however many
\* users, createKeysIfAbsent reports the same keys every time it succeeds.
THEOREM KeysStaySame ==
  ASSUME OnlyReloads
  PROVE  Spec => []SameKeysReported
<1>1. StableInv => SameKeysReported
  BY DEF StableInv, SameKeysReported, KeysOf
<1>2. QED  BY <1>1, StableAlways, PTL

\* Nor does any call ever fail because of what a closed page left half done.
THEOREM RestartsHarmless ==
  ASSUME OnlyReloads
  PROVE  Spec => []RecoversFromRestart
<1>1. StableInv => RecoversFromRestart
  BY DEF StableInv
<1>2. QED  BY <1>1, StableAlways, PTL
=============================================================================
