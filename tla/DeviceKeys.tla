----------------------------- MODULE DeviceKeys -----------------------------
(***************************************************************************)
(* The client's cryptographic keys: the key pair registered with the       *)
(* service, to which virtual cards are sealed, and the symmetric key that  *)
(* seals card metadata.                                                    *)
(*                                                                         *)
(* The module models DefaultDeviceKeyWorker, DefaultKeyService, the use    *)
(* case createKeysIfAbsent and the part of provisionVirtualCard that uses  *)
(* keys, all of it under the client's mutex `serialise`, together with the *)
(* operations that do not take the mutex (reset, importKeys, exportKeys).  *)
(*                                                                         *)
(* Every step is one run-to-completion segment of an asynchronous          *)
(* function: it ends where the code awaits the key manager, the user       *)
(* client or the service, so whatever else the page runs may come between  *)
(* two steps.  A call runs two strands, the key-pair strand and the        *)
(* symmetric-key strand: in parallel under Promise.all for                 *)
(* createKeysIfAbsent, one after the other for provisionVirtualCard.       *)
(*                                                                         *)
(* A call draws at most one v4() identifier of each kind, and identifiers  *)
(* of different calls differ: the identifier drawn by call c is c itself.  *)
(***************************************************************************)
EXTENDS Naturals, Sequences, FiniteSets

CONSTANTS
  Calls,     \* calls made over the life of the key store; also key ids
  Users,     \* subjects that may sign in on this device
  None,      \* no identifier
  Faults,    \* kinds of fault and of host-app interference allowed
  MaxFaults, \* bound on how many of them happen
  AddPasswordReplaces
             \* whether SudoKeyManager.addPassword overwrites an existing
             \* entry (TRUE) or rejects (FALSE); the library is external

ASSUME CallsAssumption == None \notin Calls
ASSUME UsersAssumption == None \notin Users
ASSUME FaultsAssumption ==
  Faults \subseteq {"store", "server", "restart", "signout", "switch",
                    "reset", "racingReset", "import"}
ASSUME BoundAssumption == MaxFaults \in Nat
ASSUME ReplaceAssumption == AddPasswordReplaces \in BOOLEAN

VARIABLES
  store,    \* the key manager's persistent store
  cache,    \* DefaultDeviceKeyWorker.currentPublicKey
  registry, \* public keys registered with the service
  cards,    \* virtual cards provisioned by the service
  user,     \* subject of the session
  signedIn, \* whether the session is signed in
  archive,  \* the store as last exported
  queue,    \* the mutex: its holder, then the calls waiting for it
  op,       \* operation of a call
  state,    \* progress of the call itself
  pair,     \* progress of its key-pair strand
  sym,      \* progress of its symmetric-key strand
  key,      \* the DeviceKey the key-pair strand holds
  symId,    \* the symmetric key id the other strand holds
  faults    \* faults so far

sessionVars == <<user, signedIn>>
strandVars == <<pair, sym, key, symId>>
callVars == <<queue, op, state>>
serverVars == <<registry, cards>>
vars == <<store, cache, registry, cards, user, signedIn, archive, queue,
          op, state, pair, sym, key, symId, faults>>

Id == Calls \cup {None}
Key == [id : Id, ring : Users \cup {None}]
NoKey == [id |-> None, ring |-> None]
Store == [pairPtr : Id, pairs : SUBSET Calls,
          symPtr : Id, symKeys : SUBSET Calls]
EmptyStore == [pairPtr |-> None, pairs |-> {}, symPtr |-> None, symKeys |-> {}]
Registration == [id : Calls, ring : Users, owner : Users]
Card == [call : Calls, keys : SUBSET Calls, meta : Id]

OpKind == {"createKeysIfAbsent", "provisionVirtualCard", "none"}
CallState == {"new", "queued", "running", "unsealing", "returned", "threw",
              "lost"}
PairStorePc == {"pointer", "public", "private", "genAdd", "genPair",
                "genPublic"}
PairServerPc == {"fetch", "register"}
PairPc == PairStorePc \cup PairServerPc
            \cup {"idle", "lookup", "subject", "genSubject", "done", "failed"}
SymStorePc == {"pointer", "exists", "delete", "add", "generate", "seal"}
SymPc == SymStorePc \cup {"idle", "skipped", "done", "sealed", "failed"}

AtRest(pc) == pc \in {"idle", "skipped", "done", "sealed", "failed"}
Ended(c) == state[c] \in {"returned", "threw", "lost"}

TypeOK ==
  /\ store \in Store
  /\ cache \in Key
  /\ registry \subseteq Registration
  /\ cards \subseteq Card
  /\ user \in Users /\ signedIn \in BOOLEAN
  /\ archive \in Store
  /\ queue \in Seq(Calls)
  /\ op \in [Calls -> OpKind]
  /\ state \in [Calls -> CallState]
  /\ pair \in [Calls -> PairPc]
  /\ sym \in [Calls -> SymPc]
  /\ key \in [Calls -> Key]
  /\ symId \in [Calls -> Id]
  /\ faults \in 0..MaxFaults

Init ==
  /\ store = EmptyStore
  /\ cache = NoKey
  /\ registry = {} /\ cards = {}
  /\ user \in Users /\ signedIn = TRUE
  /\ archive = EmptyStore
  /\ queue = <<>>
  /\ op = [c \in Calls |-> "none"]
  /\ state = [c \in Calls |-> "new"]
  /\ pair = [c \in Calls |-> "idle"]
  /\ sym = [c \in Calls |-> "idle"]
  /\ key = [c \in Calls |-> NoKey]
  /\ symId = [c \in Calls |-> None]
  /\ faults = 0

\* A fault of kind k happens, if the instance allows it and the bound does.
Fault(k) ==
  /\ k \in Faults
  /\ faults < MaxFaults
  /\ faults' = faults + 1

PairGoto(c, from, to) == pair[c] = from /\ pair' = [pair EXCEPT ![c] = to]
SymGoto(c, from, to) == sym[c] = from /\ sym' = [sym EXCEPT ![c] = to]

-----------------------------------------------------------------------------
(* The key-pair strand: DefaultDeviceKeyWorker.getCurrentPublicKey, then   *)
(* the service's lookup or generateKeyPair, then registration.             *)

pairFrame == <<cards, user, signedIn, archive, queue, op, state, sym, symId,
               faults>>

\* A cached key is returned at once, whatever the store holds by now.
PairLookup(c) ==
  /\ \/ /\ cache # NoKey
        /\ PairGoto(c, "lookup", "fetch")
        /\ key' = [key EXCEPT ![c] = cache]
     \/ /\ cache = NoKey
        /\ PairGoto(c, "lookup", "subject")
        /\ UNCHANGED key
  /\ UNCHANGED <<store, cache, registry, pairFrame>>

\* getKeyRingId: the ring is named after the subject, or NotSignedInError.
KeyRing(c, from, to) ==
  /\ \/ /\ signedIn
        /\ PairGoto(c, from, to)
        /\ key' = [key EXCEPT ![c].ring = user]
     \/ /\ ~signedIn
        /\ PairGoto(c, from, "failed")
        /\ UNCHANGED key
  /\ UNCHANGED <<store, cache, registry, pairFrame>>

\* Variant: the key ring id is left for later.
PairSubjectUnread(c) ==
  /\ PairGoto(c, "subject", "pointer")
  /\ UNCHANGED <<key, store, cache, registry, pairFrame>>

PairSubject(c) == KeyRing(c, "subject", "pointer")

\* Variant: a pointer is taken for proof that the key exists.
PairPointerTrusted(c) ==
  /\ PairGoto(c, "pointer", IF store.pairPtr = None THEN "genSubject" ELSE "fetch")
  /\ key' = [key EXCEPT ![c].id = store.pairPtr]
  /\ UNCHANGED <<store, cache, registry, pairFrame>>

\* getPassword('vc-keypair').
PairPointer(c) ==
  /\ \/ /\ store.pairPtr = None
        /\ PairGoto(c, "pointer", "genSubject")
        /\ UNCHANGED key
     \/ /\ store.pairPtr # None
        /\ PairGoto(c, "pointer", "public")
        /\ key' = [key EXCEPT ![c].id = store.pairPtr]
  /\ UNCHANGED <<store, cache, registry, pairFrame>>

\* getPublicKey(id): a pointer to a missing key counts as no key.
PairPublic(c) ==
  /\ PairGoto(c, "public",
              IF key[c].id \in store.pairs THEN "private" ELSE "genSubject")
  /\ UNCHANGED <<store, cache, registry, key, pairFrame>>

\* doesPrivateKeyExist(id), and the key found is cached.
PairPrivate(c) ==
  /\ \/ /\ key[c].id \in store.pairs
        /\ PairGoto(c, "private", "fetch")
        /\ cache' = key[c]
     \/ /\ key[c].id \notin store.pairs
        /\ PairGoto(c, "private", "genSubject")
        /\ UNCHANGED cache
  /\ UNCHANGED <<store, registry, key, pairFrame>>

\* generateKeyPair: ring, v4(), pointer, key pair, public key.
PairGenSubject(c) == KeyRing(c, "genSubject", "genAdd")

\* Variant: a rejected pointer sends the strand back to look for the key.
PairGenAddRetried(c) ==
  /\ \/ /\ store.pairPtr = None \/ AddPasswordReplaces
        /\ PairGoto(c, "genAdd", "genPair")
        /\ store' = [store EXCEPT !.pairPtr = c]
        /\ key' = [key EXCEPT ![c].id = c]
     \/ /\ store.pairPtr # None /\ ~AddPasswordReplaces
        /\ PairGoto(c, "genAdd", "lookup")
        /\ UNCHANGED <<store, key>>
  /\ UNCHANGED <<cache, registry, pairFrame>>

PairGenAdd(c) ==
  /\ \/ /\ store.pairPtr = None \/ AddPasswordReplaces
        /\ PairGoto(c, "genAdd", "genPair")
        /\ store' = [store EXCEPT !.pairPtr = c]
        /\ key' = [key EXCEPT ![c].id = c]
     \/ /\ store.pairPtr # None /\ ~AddPasswordReplaces
        /\ PairGoto(c, "genAdd", "failed")
        /\ UNCHANGED <<store, key>>
  /\ UNCHANGED <<cache, registry, pairFrame>>

PairGenPair(c) ==
  /\ PairGoto(c, "genPair", "genPublic")
  /\ store' = [store EXCEPT !.pairs = @ \cup {c}]
  /\ UNCHANGED <<cache, registry, key, pairFrame>>

PairGenPublic(c) ==
  /\ PairGoto(c, "genPublic",
              IF c \in store.pairs THEN "register" ELSE "failed")
  /\ UNCHANGED <<store, cache, registry, key, pairFrame>>

\* The public keys the service holds for the signed-in user.
Registered(id) == \E r \in registry : r.id = id /\ r.owner = user

\* Variant: a key found locally is taken to be registered.
PairFetchSkipped(c) ==
  /\ PairGoto(c, "fetch", "done")
  /\ UNCHANGED <<store, cache, registry, key, pairFrame>>

\* A key found locally is registered only if the service does not know it.
PairFetch(c) ==
  /\ \/ /\ signedIn
        /\ PairGoto(c, "fetch",
                    IF Registered(key[c].id) THEN "done" ELSE "register")
     \/ ~signedIn /\ PairGoto(c, "fetch", "failed")
  /\ UNCHANGED <<store, cache, registry, key, pairFrame>>

RegistrationOf(c) == [id |-> key[c].id, ring |-> key[c].ring, owner |-> user]

PairRegister(c) ==
  /\ \/ /\ signedIn
        /\ PairGoto(c, "register", "done")
        /\ registry' = registry \cup {RegistrationOf(c)}
     \/ ~signedIn /\ PairGoto(c, "register", "failed") /\ UNCHANGED registry
  /\ UNCHANGED <<store, cache, key, pairFrame>>

\* The key manager rejects.
PairStoreFault(c) ==
  /\ Fault("store")
  /\ pair[c] \in PairStorePc
  /\ pair' = [pair EXCEPT ![c] = "failed"]
  /\ UNCHANGED <<store, cache, serverVars, sessionVars, archive, callVars,
                 sym, key, symId>>

\* The service call rejects: the request, or only its answer, was lost.
PairServerFault(c) ==
  /\ Fault("server")
  /\ pair[c] \in PairServerPc
  /\ pair' = [pair EXCEPT ![c] = "failed"]
  /\ \/ UNCHANGED registry
     \/ /\ pair[c] = "register" /\ signedIn
        /\ registry' = registry \cup {RegistrationOf(c)}
  /\ UNCHANGED <<store, cache, cards, sessionVars, archive, callVars,
                 sym, key, symId>>

PairStep(c) ==
  \/ PairLookup(c) \/ PairSubject(c) \/ PairPointer(c) \/ PairPublic(c)
  \/ PairPrivate(c) \/ PairGenSubject(c) \/ PairGenAdd(c) \/ PairGenPair(c)
  \/ PairGenPublic(c) \/ PairFetch(c) \/ PairRegister(c)

-----------------------------------------------------------------------------
(* The symmetric-key strand: getCurrentSymmetricKeyId, then                *)
(* generateCurrentSymmetricKey if there is none.                           *)

symFrame == <<cache, registry, cards, user, signedIn, archive, queue, op,
              state, pair, key, faults>>

\* Variant: the current key is not looked up.
SymPointerUnread(c) ==
  /\ SymGoto(c, "pointer", "delete")
  /\ UNCHANGED <<symId, store, symFrame>>

\* getPassword('vc-secret-key').
SymPointer(c) ==
  /\ \/ /\ store.symPtr = None
        /\ SymGoto(c, "pointer", "delete")
        /\ UNCHANGED symId
     \/ /\ store.symPtr # None
        /\ SymGoto(c, "pointer", "exists")
        /\ symId' = [symId EXCEPT ![c] = store.symPtr]
  /\ UNCHANGED <<store, symFrame>>

\* What a strand does once it holds a key: provisionVirtualCard seals.
SymFound(c) == IF op[c] = "provisionVirtualCard" THEN "seal" ELSE "done"

\* Variant: a pointer is taken for proof that the symmetric key exists.
SymExistsTrusted(c) ==
  /\ SymGoto(c, "exists", SymFound(c))
  /\ UNCHANGED <<store, symId, symFrame>>

\* doesSymmetricKeyExist(id).
SymExists(c) ==
  /\ SymGoto(c, "exists",
             IF symId[c] \in store.symKeys THEN SymFound(c) ELSE "delete")
  /\ UNCHANGED <<store, symId, symFrame>>

SymDelete(c) ==
  /\ SymGoto(c, "delete", "add")
  /\ store' = [store EXCEPT !.symPtr = None]
  /\ UNCHANGED <<symId, symFrame>>

SymAdd(c) ==
  /\ \/ /\ store.symPtr = None \/ AddPasswordReplaces
        /\ SymGoto(c, "add", "generate")
        /\ store' = [store EXCEPT !.symPtr = c]
     \/ /\ store.symPtr # None /\ ~AddPasswordReplaces
        /\ SymGoto(c, "add", "failed")
        /\ UNCHANGED store
  /\ UNCHANGED <<symId, symFrame>>

SymGenerate(c) ==
  /\ SymGoto(c, "generate", SymFound(c))
  /\ store' = [store EXCEPT !.symKeys = @ \cup {c}]
  /\ symId' = [symId EXCEPT ![c] = c]
  /\ UNCHANGED symFrame

\* sealString: the metadata is encrypted under the key, which must exist.
SealMetadata(c) ==
  /\ SymGoto(c, "seal",
             IF symId[c] \in store.symKeys THEN "sealed" ELSE "failed")
  /\ UNCHANGED <<store, symId, symFrame>>

SymStoreFault(c) ==
  /\ Fault("store")
  /\ sym[c] \in SymStorePc
  /\ sym' = [sym EXCEPT ![c] = "failed"]
  /\ UNCHANGED <<store, cache, serverVars, sessionVars, archive, callVars,
                 pair, key, symId>>

SymStep(c) ==
  \/ SymPointer(c) \/ SymExists(c) \/ SymDelete(c) \/ SymAdd(c)
  \/ SymGenerate(c) \/ SealMetadata(c)

-----------------------------------------------------------------------------
(* Calls: runExclusive queues them in order, and releases the mutex when   *)
(* the call settles, be it with a result or with an error.                 *)

callFrame == <<store, cache, registry, user, signedIn, archive, faults>>

Submit(c, o) ==
  /\ state[c] = "new"
  /\ state' = [state EXCEPT ![c] = "queued"]
  /\ op' = [op EXCEPT ![c] = o]
  /\ queue' = Append(queue, c)
  /\ UNCHANGED <<cards, strandVars, callFrame>>

Holds(c) == queue # <<>> /\ Head(queue) = c

\* The call settles and the mutex passes to the next in line.
Settle(c, s) ==
  /\ state' = [state EXCEPT ![c] = s]
  /\ queue' = Tail(queue)
  /\ UNCHANGED op

\* The use case checks isSignedIn, then starts the strands: both at once for
\* createKeysIfAbsent, the key pair first for provisionVirtualCard.
Start(c) ==
  /\ Holds(c) /\ state[c] = "queued"
  /\ \/ /\ signedIn
        /\ state' = [state EXCEPT ![c] = "running"]
        /\ pair' = [pair EXCEPT ![c] = "lookup"]
        /\ sym' = IF op[c] = "createKeysIfAbsent"
                    THEN [sym EXCEPT ![c] = "pointer"] ELSE sym
        /\ UNCHANGED <<queue, op>>
     \/ ~signedIn /\ Settle(c, "threw") /\ UNCHANGED <<pair, sym>>
  /\ UNCHANGED <<cards, key, symId, callFrame>>

\* Promise.all resolves once both strands have.
CreateKeysReturn(c) ==
  /\ op[c] = "createKeysIfAbsent" /\ state[c] = "running"
  /\ pair[c] = "done" /\ sym[c] = "done"
  /\ Settle(c, "returned")
  /\ UNCHANGED <<cards, strandVars, callFrame>>

\* A failed strand rejects the call.  For createKeysIfAbsent Promise.all
\* rejects at the first failure, and the other strand runs on.
CallThrow(c) ==
  /\ state[c] = "running"
  /\ pair[c] = "failed" \/ sym[c] = "failed"
  /\ Settle(c, "threw")
  /\ UNCHANGED <<cards, strandVars, callFrame>>

\* sealMetadata: absent metadata needs no key.
ProvisionMetadata(c) ==
  /\ op[c] = "provisionVirtualCard" /\ state[c] = "running"
  /\ pair[c] = "done" /\ sym[c] = "idle"
  /\ \E next \in {"pointer", "skipped"} : sym' = [sym EXCEPT ![c] = next]
  /\ UNCHANGED <<cards, callVars, pair, key, symId, callFrame>>

\* The service seals the card to every key of the caller in the ring named.
RingKeys(ring) == {r.id : r \in {q \in registry : q.ring = ring /\ q.owner = user}}
CardFor(c) == [call |-> c, keys |-> RingKeys(key[c].ring),
               meta |-> IF sym[c] = "sealed" THEN symId[c] ELSE None]

\* The mutation; its answer may hold the card, or none while it is pending.
ProvisionSend(c) ==
  /\ op[c] = "provisionVirtualCard" /\ state[c] = "running"
  /\ pair[c] = "done" /\ sym[c] \in {"sealed", "skipped"}
  /\ \/ /\ signedIn
        /\ cards' = cards \cup {CardFor(c)}
        /\ \/ /\ state' = [state EXCEPT ![c] = "unsealing"]
              /\ UNCHANGED <<queue, op>>
           \/ Settle(c, "returned")
     \/ ~signedIn /\ Settle(c, "threw") /\ UNCHANGED cards
  /\ UNCHANGED <<strandVars, callFrame>>

ProvisionFault(c) ==
  /\ op[c] = "provisionVirtualCard" /\ state[c] = "running"
  /\ pair[c] = "done" /\ sym[c] \in {"sealed", "skipped"}
  /\ Fault("server")
  /\ cards' = cards \/ (signedIn /\ cards' = cards \cup {CardFor(c)})
  /\ Settle(c, "threw")
  /\ UNCHANGED <<strandVars, store, cache, registry, sessionVars, archive>>

\* A copy of the card sealed to a private key on this device is unsealed,
\* its metadata with it; FatalError if there is none.
ProvisionUnseal(c) ==
  /\ state[c] = "unsealing"
  /\ \E card \in cards :
       /\ card.call = c
       /\ Settle(c, IF /\ card.keys \cap store.pairs # {}
                       /\ card.meta \in store.symKeys \cup {None}
                      THEN "returned" ELSE "threw")
  /\ UNCHANGED <<cards, strandVars, callFrame>>

CallStep(c) ==
  \/ Start(c) \/ CreateKeysReturn(c) \/ CallThrow(c)
  \/ ProvisionMetadata(c) \/ ProvisionSend(c) \/ ProvisionUnseal(c)

-----------------------------------------------------------------------------
(* The host application and the device.  None of these takes the mutex.    *)

Idle ==
  queue = <<>> /\ \A c \in Calls : AtRest(pair[c]) /\ AtRest(sym[c])

\* SudoVirtualCardsClient.reset: removeAllKeys, and nothing else.  The host
\* application may wait for its calls to settle first, or may not.
Reset ==
  /\ Fault("racingReset") \/ (Fault("reset") /\ Idle)
  /\ store' = EmptyStore
  /\ UNCHANGED <<cache, serverVars, sessionVars, archive, callVars, strandVars>>

ExportKeys ==
  /\ "import" \in Faults /\ archive # store
  /\ archive' = store
  /\ UNCHANGED <<store, cache, serverVars, sessionVars, callVars, strandVars,
                 faults>>

\* The entries of the archive are saved over those of `base`.
Restored(base) ==
  [pairPtr |-> IF archive.pairPtr # None THEN archive.pairPtr ELSE base.pairPtr,
   pairs |-> base.pairs \cup archive.pairs,
   symPtr |-> IF archive.symPtr # None THEN archive.symPtr ELSE base.symPtr,
   symKeys |-> base.symKeys \cup archive.symKeys]

\* An empty archive is rejected.  Whether the key archive library clears the
\* store before it saves is external: both are allowed.
ImportKeys ==
  /\ Fault("import")
  /\ archive # EmptyStore
  /\ \E base \in {store, EmptyStore} : store' = Restored(base)
  /\ UNCHANGED <<cache, serverVars, sessionVars, archive, callVars, strandVars>>

SignOut ==
  /\ Fault("signout")
  /\ signedIn
  /\ signedIn' = FALSE
  /\ UNCHANGED <<store, cache, serverVars, user, archive, callVars, strandVars>>

SignIn ==
  /\ ~signedIn
  /\ signedIn' = TRUE
  /\ UNCHANGED <<store, cache, serverVars, user, archive, callVars, strandVars,
                 faults>>

\* Another user signs in without the page being reloaded.
SwitchUser(u) ==
  /\ "switch" \in Faults
  /\ ~signedIn /\ u # user
  /\ signedIn' = TRUE /\ user' = u
  /\ UNCHANGED <<store, cache, serverVars, archive, callVars, strandVars,
                 faults>>

\* Variant: the cached key outlives the page.
RestartKeepingCache(u) ==
  /\ Fault("restart")
  /\ user' = u
  /\ queue' = <<>>
  /\ state' = [c \in Calls |-> IF state[c] \in {"queued", "running", "unsealing"}
                                 THEN "lost" ELSE state[c]]
  /\ pair' = [c \in Calls |-> IF AtRest(pair[c]) THEN pair[c] ELSE "failed"]
  /\ sym' = [c \in Calls |-> IF AtRest(sym[c]) THEN sym[c] ELSE "failed"]
  /\ UNCHANGED <<store, cache, serverVars, signedIn, archive, op, key, symId>>

\* The page is reloaded, perhaps for another user: the store persists, the
\* client object, its cache, its mutex and its pending promises do not.
Restart(u) ==
  /\ Fault("restart")
  /\ user' = u
  /\ cache' = NoKey
  /\ queue' = <<>>
  /\ state' = [c \in Calls |-> IF state[c] \in {"queued", "running", "unsealing"}
                                 THEN "lost" ELSE state[c]]
  /\ pair' = [c \in Calls |-> IF AtRest(pair[c]) THEN pair[c] ELSE "failed"]
  /\ sym' = [c \in Calls |-> IF AtRest(sym[c]) THEN sym[c] ELSE "failed"]
  /\ UNCHANGED <<store, serverVars, signedIn, archive, op, key, symId>>

\* Everything has settled: the only way for the system to stop.
Quiescent ==
  /\ \A c \in Calls : Ended(c) /\ AtRest(pair[c]) /\ AtRest(sym[c])
  /\ UNCHANGED vars

Next ==
  \/ \E c \in Calls :
       \/ \E o \in OpKind \ {"none"} : Submit(c, o)
       \/ CallStep(c) \/ PairStep(c) \/ SymStep(c)
       \/ PairStoreFault(c) \/ PairServerFault(c) \/ SymStoreFault(c)
       \/ ProvisionFault(c)
  \/ Reset \/ ExportKeys \/ ImportKeys
  \/ SignOut \/ SignIn
  \/ \E u \in Users : SwitchUser(u) \/ Restart(u)
  \/ Quiescent

Spec == Init /\ [][Next]_vars

\* The event loop runs every settled promise, and the key manager and the
\* network answer or time out: no strand and no call is left aside for ever.
Fairness ==
  \A c \in Calls :
    WF_vars(CallStep(c)) /\ WF_vars(PairStep(c)) /\ WF_vars(SymStep(c))

FairSpec == Spec /\ Fairness

-----------------------------------------------------------------------------
(* Properties.                                                             *)

\* A key pair handed on as usable (by createKeysIfAbsent to its caller, by
\* getPublicKeyOrRegisterNewKey to provisioning) is registered with the
\* service, whatever was lost, reset, imported or restarted on the way.
ReportedKeyRegistered ==
  \A c \in Calls : pair[c] = "done" => \E r \in registry : r.id = key[c].id

\* The device holds the private key of such a pair: what the service seals to
\* it can be unsealed.  Not so after reset or importKeys.
ReportedKeyHeld ==
  \A c \in Calls : pair[c] = "done" => key[c].id \in store.pairs

\* createKeysIfAbsent creates the key pair if there is none: a call that
\* succeeds leaves the caller with a pair whose private key is on the device.
\* Stated per call, so that a reset between two calls is no excuse.
CreatesIfAbsent ==
  [][\A c \in Calls : CreateKeysReturn(c) => key[c].id \in store.pairs]_vars

\* Every card the service has provisioned can be read on this device: one of
\* its copies is sealed to a private key held, and its metadata was sealed
\* under a symmetric key that is still there.
CardsReadable ==
  \A card \in cards : /\ card.keys \cap store.pairs # {}
                      /\ card.meta \in store.symKeys \cup {None}

\* A key is filed with the service under its owner's key ring, also when
\* users take turns on a device whose key store they share.
KeysFiledUnderOwner == \A r \in registry : r.ring = r.owner

KeysOf(c) == <<key[c].id, symId[c]>>
Reports(c) == op[c] = "createKeysIfAbsent" /\ state[c] = "returned"

\* createKeysIfAbsent reports the same keys every time it succeeds: a second
\* call returns the existing ids and creates nothing.
SameKeysReported ==
  \A c, d \in Calls : Reports(c) /\ Reports(d) => KeysOf(c) = KeysOf(d)

\* No call ever fails because of what an earlier page left half done: with
\* restarts as the only faults, no call throws.  (KeysAtomic checks it: no call
\* of AtomicKeys throws.)
RecoversFromRestart == \A c \in Calls : state[c] # "threw"

\* The keys as a user of the device sees them: a key counts once it is there and
\* pointed to.
DevicePair == IF store.pairPtr \in store.pairs THEN store.pairPtr ELSE None
DeviceSymmetric == IF store.symPtr \in store.symKeys THEN store.symPtr ELSE None
KnownKeys == {<<r.id, r.owner>> : r \in registry}
Phase(c) ==
  CASE state[c] = "new" -> "new"
    [] state[c] \in {"queued", "running", "unsealing"} -> "open"
    [] state[c] = "returned" ->
         IF op[c] = "createKeysIfAbsent" THEN "reported" ELSE "provisioned"
    [] OTHER -> state[c]

Atomic == INSTANCE AtomicKeys WITH
  pair <- DevicePair,
  symmetric <- DeviceSymmetric,
  registered <- KnownKeys,
  phase <- [c \in Calls |-> Phase(c)],
  reported <- [c \in Calls |-> IF Reports(c) THEN KeysOf(c) ELSE <<None, None>>]

\* However many reloads come between the steps of its making, each key of the
\* device appears once and for good, is the only one the service ever knows,
\* every card is sealed to or every call reports, and no call fails.
KeysAtomic == Atomic!Spec

\* Every call submitted settles, or the page that made it is gone: no strand
\* waits for ever and the mutex is always released.
CallsSettle == \A c \in Calls : state[c] = "queued" ~> Ended(c)

=============================================================================
