--------------------------- MODULE AtomicKeysProofs ---------------------------
(* DeviceKeys implements AtomicKeys while reloads are the only faults, for   *)
(* any number of calls, users and reloads.                                   *)
EXTENDS DeviceKeysProofs

Phases == [c \in Calls |-> Phase(c)]
Reported == [c \in Calls |-> IF Reports(c) THEN KeysOf(c) ELSE <<None, None>>]
atomicVars == <<user, DevicePair, DeviceSymmetric, KnownKeys, cards, Phases, Reported>>

-----------------------------------------------------------------------------
(* What holds of the device between any two steps.                           *)

\* The service knows no key but the one the device will keep, metadata is sealed
\* under the symmetric key it will keep, and a call has a card only once it has
\* sent for it.
OneKeyInv ==
  /\ \A r \in registry : r.id = store.pairPtr /\ PairKept
  /\ \A c \in Calls :
       /\ sym[c] = "sealed" /\ state[c] = "running"
            => symId[c] = store.symPtr /\ SymKept
       /\ state[c] \in {"new", "queued", "running"}
            => \A card \in cards : card.call # c

ReloadInv ==
  /\ TypeInv /\ HeldInv /\ OwnerInv /\ CardInv
  /\ StableInv /\ OneKeyInv

\* A key that is there and pointed to stays so.
KeptForGood ==
  /\ PairKept => store'.pairPtr = store.pairPtr /\ PairKept'
  /\ SymKept => store'.symPtr = store.symPtr /\ SymKept'

LEMMA PairStepRuns ==
  ASSUME ReloadInv, NEW c \in Calls, PairStep(c)
  PROVE  /\ state[c] = "running"
         /\ UNCHANGED <<cards, user, signedIn, queue, op, state, sym, symId>>
         /\ \A d \in Calls \ {c} : pair'[d] = pair[d] /\ key'[d] = key[d]
<1>1. ~AtRest(pair[c])
  BY DEF PairStep, PairLookup, PairSubject, PairPointer, PairPublic, PairPrivate,
         PairGenSubject, KeyRing, PairGenAdd, PairGenPair, PairGenPublic,
         PairFetch, PairRegister, PairGoto, AtRest
<1>2. state[c] = "running"
  BY <1>1 DEF ReloadInv, StableInv
<1>3. UNCHANGED <<cards, user, signedIn, queue, op, state, sym, symId>>
  BY DEF PairStep, PairLookup, PairSubject, PairPointer, PairPublic, PairPrivate,
         PairGenSubject, KeyRing, PairGenAdd, PairGenPair, PairGenPublic,
         PairFetch, PairRegister, pairFrame
<1>4. \A d \in Calls \ {c} : pair'[d] = pair[d] /\ key'[d] = key[d]
  BY DEF PairStep, PairLookup, PairSubject, PairPointer, PairPublic, PairPrivate,
         PairGenSubject, KeyRing, PairGenAdd, PairGenPair, PairGenPublic,
         PairFetch, PairRegister, PairGoto, ReloadInv, TypeInv, TypeOK
<1>5. QED  BY <1>2, <1>3, <1>4

\* The steps of a key-pair strand, as far as the store and the service go.
LEMMA PairStepKinds ==
  ASSUME OnlyReloads, ReloadInv, NEW c \in Calls, PairStep(c)
  PROVE  \/ UNCHANGED <<store, registry>>
         \/ /\ ~PairKept \/ store.pairPtr = c
            /\ store'.pairPtr = c
            /\ store.pairs \subseteq store'.pairs
            /\ UNCHANGED <<store.symPtr, store.symKeys, registry>>
         \/ /\ key[c].id = store.pairPtr /\ PairKept
            /\ registry' = registry \cup {RegistrationOf(c)}
            /\ UNCHANGED store
<1> USE DEF ReloadInv, TypeInv, TypeOK, PairGoto
<1>1. state[c] = "running"
  BY PairStepRuns
<1>2. CASE PairGenAdd(c)
  <2>1. store' = [store EXCEPT !.pairPtr = c] /\ UNCHANGED registry
    BY <1>2 DEF PairGenAdd, OnlyReloads
  <2>2. ~PairKept
    BY <1>1, <1>2 DEF PairGenAdd, StableInv, PairKnows
  <2>3. QED  BY <2>1, <2>2 DEF Store
<1>3. CASE PairGenPair(c)
  <2>1. store' = [store EXCEPT !.pairs = @ \cup {c}] /\ UNCHANGED registry
    BY <1>3 DEF PairGenPair
  <2>2. store.pairPtr = c
    BY <1>1, <1>3 DEF PairGenPair, StableInv, PairKnows
  <2>3. QED  BY <2>1, <2>2 DEF Store
<1>4. CASE PairRegister(c)
  BY <1>1, <1>4 DEF PairRegister, StableInv, PairKnows
<1>5. CASE ~(PairGenAdd(c) \/ PairGenPair(c) \/ PairRegister(c))
  BY <1>5 DEF PairStep, PairLookup, PairSubject, PairPointer, PairPublic, PairPrivate,
         PairGenSubject, KeyRing, PairGenPublic, PairFetch
<1>6. QED  BY <1>2, <1>3, <1>4, <1>5

\* The same for a symmetric-key strand.
LEMMA SymStepKinds ==
  ASSUME OnlyReloads, ReloadInv, NEW c \in Calls, SymStep(c)
  PROVE  /\ state[c] = "running"
         /\ UNCHANGED <<registry, cards, user, op, state, pair, key>>
         /\ UNCHANGED <<store.pairPtr, store.pairs>>
         /\ \A d \in Calls \ {c} : sym'[d] = sym[d] /\ symId'[d] = symId[d]
         /\ \/ UNCHANGED store
            \/ ~SymKept /\ ~SymKept'
            \/ /\ ~SymKept \/ store.symPtr = c
               /\ store'.symPtr = c
               /\ store.symKeys \subseteq store'.symKeys
<1> USE DEF ReloadInv, TypeInv, TypeOK, SymGoto
<1>1. ~AtRest(sym[c])
  BY DEF SymStep, SymPointer, SymExists, SymDelete, SymAdd, SymGenerate,
         SealMetadata, AtRest
<1>2. state[c] = "running"
  BY <1>1 DEF StableInv
<1>3. UNCHANGED <<registry, cards, user, op, state, pair, key>>
  BY DEF SymStep, SymPointer, SymExists, SymDelete, SymAdd, SymGenerate,
         SealMetadata, symFrame
<1>4. \A d \in Calls \ {c} : sym'[d] = sym[d] /\ symId'[d] = symId[d]
  BY DEF SymStep, SymPointer, SymExists, SymDelete, SymAdd, SymGenerate,
         SealMetadata
<1>5. UNCHANGED <<store.pairPtr, store.pairs>>
  BY DEF SymStep, SymPointer, SymExists, SymDelete, SymAdd, SymGenerate,
         SealMetadata, Store
<1>6. CASE SymDelete(c)
  <2>1. store'.symPtr = None /\ store'.symKeys = store.symKeys
    BY <1>6 DEF SymDelete, Store
  <2>2. ~SymKept /\ None \notin store.symKeys
    BY <1>2, <1>6, CallsAssumption DEF SymDelete, StableInv, SymKnows, Store
  <2>3. QED  BY <1>2, <1>3, <1>4, <1>5, <2>1, <2>2 DEF SymKept
<1>7. CASE SymAdd(c)
  <2>1. store' = [store EXCEPT !.symPtr = c]
    BY <1>7 DEF SymAdd, OnlyReloads
  <2>2. ~SymKept
    BY <1>2, <1>7 DEF SymAdd, StableInv, SymKnows
  <2>3. QED  BY <1>2, <1>3, <1>4, <1>5, <2>1, <2>2 DEF Store
<1>8. CASE SymGenerate(c)
  <2>1. store' = [store EXCEPT !.symKeys = @ \cup {c}]
    BY <1>8 DEF SymGenerate
  <2>2. store.symPtr = c
    BY <1>2, <1>8 DEF SymGenerate, StableInv, SymKnows
  <2>3. QED  BY <1>2, <1>3, <1>4, <1>5, <2>1, <2>2 DEF Store
<1>9. CASE SymPointer(c) \/ SymExists(c) \/ SealMetadata(c)
  BY <1>2, <1>3, <1>4, <1>5, <1>9 DEF SymPointer, SymExists, SealMetadata
<1>10. QED  BY <1>6, <1>7, <1>8, <1>9 DEF SymStep

\* What a call does apart from its strands, while nothing fails.
LEMMA CallStepKinds ==
  ASSUME OnlyReloads, ReloadInv, NEW c \in Calls,
         (\E o \in OpKind \ {"none"} : Submit(c, o)) \/ CallStep(c)
  PROVE  /\ UNCHANGED <<store, registry, user, key, symId>>
         /\ \A d \in Calls \ {c} : UNCHANGED <<state[d], op[d], pair[d], sym[d]>>
         /\ \/ /\ state[c] = "new" /\ state'[c] = "queued"
               /\ UNCHANGED cards
            \/ /\ state[c] \in {"queued", "running"} /\ state'[c] = "running"
               /\ sym'[c] # "sealed"
               /\ UNCHANGED <<op, cards>>
            \/ CreateKeysReturn(c) \/ ProvisionSend(c)
            \/ /\ state[c] = "unsealing" /\ state'[c] = "returned"
               /\ \E card \in cards : card.call = c
               /\ op[c] = "provisionVirtualCard"
               /\ UNCHANGED <<op, cards>>
<1> USE DEF ReloadInv, TypeInv, TypeOK, Settle, callFrame, strandVars, callVars
<1>1. ASSUME NEW o \in OpKind, Submit(c, o)
      PROVE  /\ UNCHANGED <<store, registry, user, key, symId, cards>>
             /\ state[c] = "new" /\ state'[c] = "queued"
             /\ \A d \in Calls \ {c} : UNCHANGED <<state[d], op[d], pair[d], sym[d]>>
  BY <1>1 DEF Submit
<1>2. CASE Start(c)
  <2>1. sym[c] = "idle" /\ signedIn /\ state[c] = "queued"
    BY <1>2 DEF Start, StableInv
  <2>2. QED  BY <1>2, <2>1 DEF Start
<1>3. CASE CreateKeysReturn(c)
  BY <1>3 DEF CreateKeysReturn
<1>4. CASE CallThrow(c)
  BY <1>4 DEF CallThrow, StableInv
<1>5. CASE ProvisionMetadata(c)
  BY <1>5 DEF ProvisionMetadata
<1>6. CASE ProvisionSend(c)
  BY <1>6 DEF ProvisionSend
<1>7. CASE ProvisionUnseal(c)
  <2>1. state' = [state EXCEPT ![c] = "returned"]
    BY <1>7 DEF ProvisionUnseal, CardInv, CardsReadable
  <2>2. op[c] = "provisionVirtualCard"
    BY <1>7 DEF ProvisionUnseal, StableInv
  <2>3. QED  BY <1>7, <2>1, <2>2 DEF ProvisionUnseal
<1>8. QED
  BY <1>1, <1>2, <1>3, <1>4, <1>5, <1>6, <1>7 DEF CallStep

\* Of what the host and the device do, and of what may fail, reloads are left.
LEMMA ReloadCases ==
  ASSUME OnlyReloads, ReloadInv, [Next]_vars
  PROVE  \/ \E c \in Calls :
              \/ (\E o \in OpKind \ {"none"} : Submit(c, o)) \/ CallStep(c)
              \/ PairStep(c) \/ SymStep(c)
         \/ \E u \in Users : Restart(u)
         \/ UNCHANGED vars
<1>1. ASSUME NEW c \in Calls,
             \/ PairStoreFault(c) \/ PairServerFault(c)
             \/ SymStoreFault(c) \/ ProvisionFault(c)
      PROVE  FALSE
  BY <1>1 DEF PairStoreFault, PairServerFault, SymStoreFault, ProvisionFault,
              Fault, OnlyReloads
<1>2. ASSUME NEW u \in Users, SwitchUser(u) \/ SignIn
      PROVE  FALSE
  BY <1>2 DEF SwitchUser, SignIn, ReloadInv, StableInv
<1>3. CASE ExportKeys \/ ImportKeys \/ Reset \/ SignOut
  BY <1>3 DEF ExportKeys, ImportKeys, Reset, SignOut, Fault, OnlyReloads
<1>4. CASE SignIn
  BY <1>4 DEF SignIn, ReloadInv, StableInv
<1>5. QED  BY <1>1, <1>2, <1>3, <1>4, NextCases DEF HostStep

-----------------------------------------------------------------------------
(* The invariant.                                                            *)

LEMMA NextOneKey ==
  ASSUME OnlyReloads, ReloadInv, [Next]_vars
  PROVE  OneKeyInv'
<1> USE DEF OneKeyInv
<1>1. ASSUME NEW c \in Calls, PairStep(c)
      PROVE  OneKeyInv'
  <2>1. UNCHANGED <<sym, symId, state, cards>>
    BY <1>1, PairStepRuns
  <2>2. CASE UNCHANGED <<store, registry>>
    BY <2>1, <2>2 DEF ReloadInv, PairKept, SymKept
  <2>3. CASE /\ ~PairKept \/ store.pairPtr = c
             /\ store'.pairPtr = c
             /\ store.pairs \subseteq store'.pairs
             /\ UNCHANGED <<store.symPtr, store.symKeys, registry>>
    BY <2>1, <2>3 DEF ReloadInv, PairKept, SymKept
  <2>4. CASE /\ key[c].id = store.pairPtr /\ PairKept
             /\ registry' = registry \cup {RegistrationOf(c)}
             /\ UNCHANGED store
    BY <2>1, <2>4 DEF ReloadInv, PairKept, SymKept, RegistrationOf
  <2>5. QED  BY <1>1, <2>2, <2>3, <2>4, PairStepKinds
<1>2. ASSUME NEW c \in Calls, SymStep(c)
      PROVE  OneKeyInv'
  <2>1. /\ UNCHANGED <<registry, cards, state, store.pairPtr, store.pairs>>
        /\ \A d \in Calls \ {c} : sym'[d] = sym[d] /\ symId'[d] = symId[d]
        /\ state[c] = "running"
    BY <1>2, SymStepKinds
  <2>2. \A d \in Calls \ {c} : state[d] # "running"
    BY <2>1, OneRuns DEF ReloadInv
  <2>3. sym'[c] = "sealed" => symId'[c] = store'.symPtr /\ SymKept'
    BY <1>2, <2>1 DEF SymStep, SymPointer, SymExists, SymDelete, SymAdd, SymGenerate,
                      SealMetadata, SymGoto, SymFound, ReloadInv, StableInv, SymKnows,
                      SymKept, TypeInv, TypeOK
  <2>4. QED  BY <2>1, <2>2, <2>3 DEF ReloadInv, PairKept
<1>3. ASSUME NEW c \in Calls,
             (\E o \in OpKind \ {"none"} : Submit(c, o)) \/ CallStep(c)
      PROVE  OneKeyInv'
  <2>1. /\ UNCHANGED <<store, registry, symId>>
        /\ \A d \in Calls \ {c} : UNCHANGED <<state[d], sym[d]>>
    BY <1>3, CallStepKinds
  <2>2. CASE UNCHANGED cards /\ sym'[c] # "sealed" /\ state[c] \in {"new", "queued", "running"}
    BY <2>1, <2>2 DEF ReloadInv, PairKept, SymKept
  <2>3. CASE /\ state'[c] \notin {"new", "queued", "running"}
             /\ \A card \in cards' \ cards : card.call = c
    BY <2>1, <2>3 DEF ReloadInv, PairKept, SymKept
  <2>4. CASE state[c] = "new" /\ state'[c] = "queued" /\ UNCHANGED cards
    BY <2>1, <2>4 DEF ReloadInv, PairKept, SymKept
  <2>5. CASE CreateKeysReturn(c)
    <3>1. state'[c] = "returned" /\ UNCHANGED cards
      BY <2>5 DEF CreateKeysReturn, Settle, ReloadInv, TypeInv, TypeOK
    <3>2. QED  BY <2>3, <3>1
  <2>6. CASE ProvisionSend(c)
    <3>1. signedIn
      BY DEF ReloadInv, StableInv
    <3>2. state'[c] \in {"unsealing", "returned"}
      BY <2>6, <3>1 DEF ProvisionSend, Settle, ReloadInv, TypeInv, TypeOK
    <3>3. cards' = cards \cup {CardFor(c)} /\ CardFor(c).call = c
      BY <2>6, <3>1 DEF ProvisionSend, CardFor
    <3>4. QED  BY <2>3, <3>2, <3>3
  <2>7. QED  BY <1>3, <2>2, <2>3, <2>4, <2>5, <2>6, CallStepKinds
<1>4. ASSUME NEW u \in Users, Restart(u)
      PROVE  OneKeyInv'
  <2>1. UNCHANGED <<store, registry, cards, symId>>
    BY <1>4 DEF Restart, serverVars
  <2>2. \A c \in Calls : \/ state'[c] = "lost"
                         \/ state'[c] = state[c] /\ state[c] # "running"
    BY <1>4 DEF Restart, ReloadInv, TypeInv, TypeOK
  <2>3. QED  BY <2>1, <2>2 DEF ReloadInv, PairKept
<1>5. CASE UNCHANGED vars
  BY <1>5 DEF vars, ReloadInv, PairKept, SymKept
<1>6. QED  BY <1>1, <1>2, <1>3, <1>4, <1>5, ReloadCases

LEMMA ReloadAlways ==
  ASSUME OnlyReloads
  PROVE  Spec => []ReloadInv
<1>1. Init => ReloadInv
  <2>1. Init => HeldInv /\ OwnerInv /\ CardInv /\ StableInv /\ OneKeyInv
    BY DEF Init, HeldInv, OwnerInv, KeysFiledUnderOwner, CardInv, CardsReadable,
           StableInv, RecoversFromRestart, Reports, AtRest, OneKeyInv
  <2>2. QED  BY <2>1, InitTypeInv DEF ReloadInv
<1>2. ReloadInv /\ [Next]_vars => ReloadInv'
  <2>1. StoreKept /\ "switch" \notin Faults
    BY DEF OnlyReloads, StoreKept
  <2>2. ReloadInv => CardsReadable
    BY DEF ReloadInv, CardInv
  <2>3. QED
    BY <2>1, <2>2, NextTypeInv, NextHeld, NextOwner, NextCards, NextStable,
       NextOneKey DEF ReloadInv
<1>3. QED  BY <1>1, <1>2, PTL DEF Spec

-----------------------------------------------------------------------------
(* The refinement.                                                           *)

\* What the abstract specification does not see.
LEMMA AtomicStutter ==
  ASSUME UNCHANGED atomicVars
  PROVE  UNCHANGED Atomic!vars
BY DEF Atomic!vars, atomicVars, Phases, Reported

\* A key held by a running strand that is done is the device's, and the service
\* knows it.
LEMMA DoneIsKnown ==
  ASSUME ReloadInv, NEW c \in Calls, state[c] = "running", pair[c] = "done"
  PROVE  /\ DevicePair # None /\ key[c].id = DevicePair
         /\ <<DevicePair, user>> \in KnownKeys
         /\ RingKeys(key[c].ring) = {DevicePair}
<1> USE DEF ReloadInv
<1>1. key[c].id = store.pairPtr /\ PairKept
  BY DEF StableInv, PairKnows
<1>2. DevicePair = store.pairPtr /\ DevicePair # None
  BY <1>1, CallsAssumption DEF DevicePair, PairKept, TypeInv, TypeOK, Store
<1>3. PICK r \in registry : r.id = key[c].id /\ r.ring = key[c].ring /\ r.owner = user
  BY DEF CardInv
<1>4. <<DevicePair, user>> \in KnownKeys
  BY <1>1, <1>2, <1>3 DEF KnownKeys
<1>5. \A q \in registry : q.id = DevicePair
  BY <1>2 DEF OneKeyInv
<1>6. RingKeys(key[c].ring) = {DevicePair}
  BY <1>3, <1>5 DEF RingKeys
<1>7. QED  BY <1>1, <1>2, <1>4, <1>6

LEMMA AtomicInit == Init => Atomic!Init
<1> SUFFICES ASSUME Init PROVE Atomic!Init  OBVIOUS
<1>1. DevicePair = None /\ DeviceSymmetric = None
  BY DEF Init, EmptyStore, DevicePair, DeviceSymmetric
<1>2. KnownKeys = {}
  BY DEF Init, KnownKeys
<1>3. \A c \in Calls : Phase(c) = "new" /\ ~Reports(c)
  BY DEF Init, Phase, Reports
<1>4. QED
  BY <1>1, <1>2, <1>3 DEF Init, Atomic!Init, Atomic!Nothing

\* A key-pair strand makes the pair, registers it, or does nothing visible.
LEMMA AtomicPair ==
  ASSUME OnlyReloads, ReloadInv, NEW c \in Calls, PairStep(c)
  PROVE  \/ Atomic!MakePair(c) \/ Atomic!Register(c) \/ UNCHANGED Atomic!vars
<1> USE CallsAssumption DEF ReloadInv
<1>1. state[c] = "running" /\ Phases[c] = "open"
  BY PairStepRuns DEF Phases, Phase
<1>2. UNCHANGED <<user, cards, Phases>>
  BY PairStepRuns DEF Phases, Phase
<1>3. UNCHANGED Reported
  BY <1>1, PairStepRuns DEF Reported, Reports, KeysOf
<1>4. CASE UNCHANGED <<store, registry>>
  BY <1>2, <1>3, <1>4, AtomicStutter
     DEF atomicVars, DevicePair, DeviceSymmetric, KnownKeys
<1>5. CASE /\ ~PairKept \/ store.pairPtr = c
           /\ store'.pairPtr = c
           /\ store.pairs \subseteq store'.pairs
           /\ UNCHANGED <<store.symPtr, store.symKeys, registry>>
  <2>1. UNCHANGED <<DeviceSymmetric, KnownKeys>>
    BY <1>5 DEF DeviceSymmetric, KnownKeys
  <2>2. CASE DevicePair' = DevicePair
    BY <1>2, <1>3, <2>1, <2>2, AtomicStutter DEF atomicVars
  <2>3. CASE DevicePair' # DevicePair
    <3>1. DevicePair = None /\ DevicePair' = c
      BY <1>5, <2>3 DEF DevicePair, PairKept
    <3>2. QED
      BY <1>1, <1>2, <1>3, <2>1, <3>1 DEF Atomic!MakePair, Phases, Reported
  <2>4. QED  BY <2>2, <2>3
<1>6. CASE /\ key[c].id = store.pairPtr /\ PairKept
           /\ registry' = registry \cup {RegistrationOf(c)}
           /\ UNCHANGED store
  <2>1. DevicePair = store.pairPtr /\ DevicePair # None
    BY <1>6 DEF DevicePair, PairKept, TypeInv, TypeOK, Store
  <2>2. UNCHANGED <<DevicePair, DeviceSymmetric>>
    BY <1>6 DEF DevicePair, DeviceSymmetric
  <2>3. KnownKeys' = KnownKeys \cup {<<DevicePair, user>>}
    <3> DEFINE q == RegistrationOf(c)
    <3>1. q.id = DevicePair /\ q.owner = user
      BY <1>6, <2>1 DEF RegistrationOf
    <3>2. registry' = registry \cup {q}
      BY <1>6
    <3> HIDE DEF q
    <3>3. QED  BY <3>1, <3>2 DEF KnownKeys
  <2>4. QED
    BY <1>1, <1>2, <1>3, <2>1, <2>2, <2>3 DEF Atomic!Register, Phases, Reported
<1>7. QED  BY <1>4, <1>5, <1>6, PairStepKinds

\* A symmetric-key strand makes the symmetric key, or does nothing visible.
LEMMA AtomicSymmetric ==
  ASSUME OnlyReloads, ReloadInv, NEW c \in Calls, SymStep(c)
  PROVE  Atomic!MakeSymmetric(c) \/ UNCHANGED Atomic!vars
<1> USE CallsAssumption DEF ReloadInv
<1>1. state[c] = "running" /\ Phases[c] = "open"
  BY SymStepKinds DEF Phases, Phase
<1>2. UNCHANGED <<user, cards, Phases, DevicePair, KnownKeys>>
  BY SymStepKinds DEF Phases, Phase, DevicePair, KnownKeys
<1>3. UNCHANGED Reported
  BY <1>1, SymStepKinds DEF Reported, Reports, KeysOf
<1>4. CASE DeviceSymmetric' = DeviceSymmetric
  BY <1>2, <1>3, <1>4, AtomicStutter DEF atomicVars
<1>5. CASE DeviceSymmetric' # DeviceSymmetric
  <2>1. DeviceSymmetric = None /\ DeviceSymmetric' = c
    BY <1>5, SymStepKinds DEF DeviceSymmetric, SymKept
  <2>2. QED
    BY <1>1, <1>2, <1>3, <2>1 DEF Atomic!MakeSymmetric, Phases, Reported
<1>6. QED  BY <1>4, <1>5

\* A call opens, reports the keys, has its card made, reports it, or does nothing
\* visible.
LEMMA AtomicCall ==
  ASSUME OnlyReloads, ReloadInv, NEW c \in Calls,
         (\E o \in OpKind \ {"none"} : Submit(c, o)) \/ CallStep(c)
  PROVE  \/ Atomic!Open(c) \/ Atomic!ReportKeys(c)
         \/ Atomic!Provision(c) \/ Atomic!ReportCard(c)
         \/ UNCHANGED Atomic!vars
<1> USE DEF ReloadInv
<1>1. /\ UNCHANGED <<store, registry, user, key, symId>>
      /\ \A d \in Calls \ {c} : UNCHANGED <<state[d], op[d]>>
  BY CallStepKinds
<1>2. UNCHANGED <<user, DevicePair, DeviceSymmetric, KnownKeys>>
  BY <1>1 DEF DevicePair, DeviceSymmetric, KnownKeys
<1>3. ASSUME NEW p, Phase(c)' = p
      PROVE  Phases' = [Phases EXCEPT ![c] = p]
  BY <1>1, <1>3 DEF Phases, Phase
<1>4. ASSUME ~Reports(c), ~Reports(c)'
      PROVE  UNCHANGED Reported
  BY <1>1, <1>4 DEF Reported, Reports, KeysOf
<1>5. CASE /\ state[c] = "new" /\ state'[c] = "queued"
           /\ UNCHANGED cards
  <2>1. Phases[c] = "new" /\ Phase(c)' = "open" /\ ~Reports(c) /\ ~Reports(c)'
    BY <1>5 DEF Phases, Phase, Reports
  <2>2. QED
    BY <1>2, <1>3, <1>4, <1>5, <2>1 DEF Atomic!Open, Phases, Reported
<1>6. CASE /\ state[c] \in {"queued", "running"} /\ state'[c] = "running"
           /\ UNCHANGED cards
  <2>1. Phase(c) = "open" /\ Phase(c)' = "open" /\ ~Reports(c) /\ ~Reports(c)'
    BY <1>6 DEF Phase, Reports
  <2>2. Phases' = Phases
    BY <1>3, <2>1 DEF Phases
  <2>3. QED  BY <1>2, <1>4, <1>6, <2>1, <2>2, AtomicStutter DEF atomicVars
<1>7. CASE CreateKeysReturn(c)
  <2>1. /\ state[c] = "running" /\ state'[c] = "returned"
        /\ op[c] = "createKeysIfAbsent" /\ op' = op
        /\ pair[c] = "done" /\ sym[c] = "done" /\ UNCHANGED cards
    BY <1>7 DEF CreateKeysReturn, Settle, TypeInv, TypeOK
  <2>2. symId[c] = DeviceSymmetric /\ DeviceSymmetric # None
    BY <2>1, CallsAssumption
       DEF StableInv, SymKnows, SymKept, DeviceSymmetric, TypeInv, TypeOK, Store
  <2>3. Phases[c] = "open" /\ Phase(c)' = "reported" /\ Reports(c)'
    BY <2>1 DEF Phases, Phase, Reports
  <2>4. KeysOf(c)' = <<DevicePair, DeviceSymmetric>>
    BY <1>1, <2>1, <2>2, DoneIsKnown DEF KeysOf
  <2>5. Reported' = [Reported EXCEPT ![c] = <<DevicePair, DeviceSymmetric>>]
    BY <1>1, <2>3, <2>4 DEF Reported, Reports, KeysOf
  <2>6. Atomic!KnownToService
    BY <2>1, DoneIsKnown DEF Atomic!KnownToService
  <2>7. QED
    BY <1>2, <1>3, <2>1, <2>2, <2>3, <2>5, <2>6
       DEF Atomic!ReportKeys, Phases, Reported
<1>8. CASE ProvisionSend(c)
  <2>1. /\ state[c] = "running" /\ state'[c] \in {"unsealing", "returned"}
        /\ op[c] = "provisionVirtualCard" /\ op' = op
        /\ pair[c] = "done" /\ cards' = cards \cup {CardFor(c)}
    BY <1>8 DEF ProvisionSend, Settle, StableInv, TypeInv, TypeOK
  <2>2. /\ CardFor(c) = [call |-> c, keys |-> {DevicePair}, meta |-> CardFor(c).meta]
        /\ CardFor(c).meta \in {None, DeviceSymmetric}
    <3>1. sym[c] = "sealed" => symId[c] = DeviceSymmetric
      BY <2>1 DEF OneKeyInv, SymKept, DeviceSymmetric
    <3>2. QED  BY <2>1, <3>1, DoneIsKnown DEF CardFor
  <2>3. \A card \in cards : card.call # c
    BY <2>1 DEF OneKeyInv
  <2>4. Phases[c] = "open" /\ Phase(c)' \in {"open", "provisioned"}
    BY <2>1 DEF Phases, Phase
  <2>5. Phases' \in {Phases, [Phases EXCEPT ![c] = "provisioned"]}
    BY <1>3, <2>4 DEF Phases
  <2>6. UNCHANGED Reported
    BY <1>4, <2>1 DEF Reports
  <2>7. Atomic!KnownToService
    BY <2>1, DoneIsKnown DEF Atomic!KnownToService
  <2>8. QED
    BY <1>2, <2>1, <2>2, <2>3, <2>4, <2>5, <2>6, <2>7
       DEF Atomic!Provision, Phases, Reported
<1>9. CASE /\ state[c] = "unsealing" /\ state'[c] = "returned"
           /\ \E card \in cards : card.call = c
           /\ op[c] = "provisionVirtualCard"
           /\ UNCHANGED <<op, cards>>
  <2>1. Phases[c] = "open" /\ Phase(c)' = "provisioned"
    BY <1>9 DEF Phases, Phase
  <2>2. UNCHANGED Reported
    BY <1>4, <1>9 DEF Reports
  <2>3. QED
    BY <1>2, <1>3, <1>9, <2>1, <2>2 DEF Atomic!ReportCard, Phases, Reported
<1>10. QED  BY <1>5, <1>6, <1>7, <1>8, <1>9, CallStepKinds

LEMMA AtomicReload ==
  ASSUME ReloadInv, NEW u \in Users, Restart(u)
  PROVE  Atomic!Reload(u)
<1>1. UNCHANGED <<DevicePair, DeviceSymmetric, KnownKeys, cards, op, key, symId>>
  BY DEF Restart, serverVars, DevicePair, DeviceSymmetric, KnownKeys
<1>2. state' = [c \in Calls |-> IF state[c] \in {"queued", "running", "unsealing"}
                                  THEN "lost" ELSE state[c]]
  BY DEF Restart
<1>3. \A c \in Calls : state[c] \in CallState
  BY DEF ReloadInv, TypeInv, TypeOK
<1>4. \A c \in Calls :
        Phase(c)' = IF Phase(c) = "open" THEN "lost" ELSE Phase(c)
  BY <1>1, <1>2, <1>3 DEF Phase, CallState
<1>5. Phases' = [c \in Calls |-> IF Phases[c] = "open" THEN "lost" ELSE Phases[c]]
  BY <1>4 DEF Phases
<1>6. UNCHANGED Reported
  BY <1>1, <1>2 DEF Reported, Reports, KeysOf
<1>7. user' = u
  BY DEF Restart
<1>8. QED  BY <1>1, <1>5, <1>6, <1>7 DEF Atomic!Reload, Phases, Reported

LEMMA AtomicStep ==
  ASSUME OnlyReloads, ReloadInv, [Next]_vars
  PROVE  [Atomic!Next]_(Atomic!vars)
<1>1. CASE UNCHANGED vars
  <2>1. UNCHANGED atomicVars
    BY <1>1 DEF vars, atomicVars, DevicePair, DeviceSymmetric, KnownKeys, Phases,
                Phase, Reported, Reports, KeysOf
  <2>2. QED  BY <2>1, AtomicStutter
<1>2. QED
  BY <1>1, ReloadCases, AtomicPair, AtomicSymmetric, AtomicCall, AtomicReload
     DEF Atomic!Next

\* However many pages are reloaded between the steps in which keys are made,
\* looked up and registered, and whoever's pages they are, the device gets each of
\* its keys in one step, once and for good, the service knows no other, and no call
\* fails: DeviceKeys implements AtomicKeys.
THEOREM KeysAppearOnce ==
  ASSUME OnlyReloads
  PROVE  Spec => KeysAtomic
BY AtomicInit, AtomicStep, ReloadAlways, PTL DEF Spec, KeysAtomic, Atomic!Spec
=============================================================================
