# sudo-virtual-cards-js: a TLA+ verification project

This directory models the parts of the Sudo Platform virtual cards SDK
(`src/src`) whose correctness depends on the order of things: key creation
and registration, the subscription to funding source changes, the reading of
what the service keeps sealed, and the operations on cards and funding sources;
and the part whose correctness depends on tables that must fit each other: the
requests, the GraphQL documents, the answers, the provider data and the errors of
every operation. TLC checks the models on small instances, and TLAPS proves the
main invariants for every value of the constants.

Source paths below are relative to `src/src`.

## 1. The system

The SDK is a library in a browser page. It has one thread, so everything
between two `await`s runs to completion. What interleaves is the continuations
of the promises under way. The *host* is the application that calls the SDK,
the *service* is the GraphQL backend, and the *key manager* is the persistent
store of keys on the device (IndexedDB behind `SudoKeyManager`, an external
library).

| Component | Code | State it keeps | Operations | Talks to |
|---|---|---|---|---|
| Client facade | `public/sudoVirtualCardsClient.ts` | one mutex (`serialise`), a sign-in guard | every public operation; most run inside the mutex, but `reset`, `importKeys`, `exportKeys`, the get and the list of funding sources, the list and the cancellation of provisional ones, the client configuration, the card configuration and the subscriptions do not | use cases |
| Device keys | `private/data/common/deviceKeyWorker.ts`, `private/data/key/defaultKeyService.ts`, `private/domain/use-cases/key` | the cached `currentPublicKey`; in the key manager the two pointers, the key pairs and the symmetric keys; at the service the registered public keys | `createKeysIfAbsent`, `getCurrentPublicKey`, `generateKeyPair`, `getCurrentSymmetricKeyId`, `generateCurrentSymmetricKey`, `exportKeys`, `importKeys` | key manager, service |
| Virtual card service | `private/data/virtualCard` | none (cards are at the service) | provision, update, cancel, get, list; get and list of provisional cards | device keys, service |
| Transactions | `private/data/transaction`, `private/data/common/transactionWorker.ts` | none | get, three lists | device keys, service |
| Funding source life cycle | `private/data/fundingSource` | none (funding sources are at the service) | setup, complete, refresh, cancel, review, get, list | device keys (signature), service |
| Funding source subscription | `private/data/common/subscriptionManager.ts` and the end of `defaultFundingSourceService.ts` | registered subscribers, the current watch and its subscription | subscribe, unsubscribe, the callbacks of the watch | service, host callbacks |
| API client and error mapping | `private/data/common/apiClient.ts`, `transformer/errorTransformer.ts` | none | queries, mutations, one subscription | service |
| Provider data decoders | `private/data/fundingSourceProviderData` | none | io-ts decoding | - |
| Configuration, entities, transformers, generated types | `private/data/configuration`, `*/transformer`, `gen` | none | copying of fields | - |

What makes each hard, and what makes it correct:

* **Device keys.** Two strands (key pair, symmetric key) run side by side under
  `Promise.all`; the first failure settles the call and releases the mutex
  while the other strand runs on. The page may be reloaded between any two
  writes. `reset` and `importKeys` do not wait for the mutex. The public key
  is cached and never compared with the store again. *Correct:* a key handed
  on is registered and on the device; the same keys are reported every time;
  every card provisioned can be read; every call settles.
* **Subscription.** Nothing is serialised. A watch is opened behind an `await`
  that nobody awaits, changes are unsealed one by one before they are passed
  on, the connection may end at any time, and the subscribers are called one by
  one from a list made before, while their callbacks may subscribe and unsubscribe.
  *Correct:* Connected means connected; who left is in no later delivery; one
  watch; no change told twice; no change lost.
* **Reading sealed lists.** A copy per key, some unreadable; the keys on the
  device may change between two turns of the loop, since `reset` and `importKeys`
  do not wait for the mutex it runs in. *Correct:* each item
  reported once; nothing readable reported as failed; the service's order kept.
* **Requests, answers and errors.** An option passes through three layers that
  each name the fields they hand on; an answer is read by nested transformers
  that rely on fields being there; an error comes in one of several forms, and
  reporting one may itself throw. *Correct:* what the host gives arrives; no
  answer that is good by the schema breaks the SDK; the host gets the error that
  is documented, and one that is documented means that nothing happened; the
  service holds no funding source the host never hears of without a reason.
* **Serialisation and sign-in.** The guard runs before the mutex is taken, so a
  sign-out may come between the check and the call.
* **Funding source life cycle and card updates.** What was signed or versioned
  may be stale when it reaches the service; a retry draws a fresh client
  reference.

`PROJECT.json` lists every hazard at its line with the properties that cover it.

## 2. Plan

| Order | Module | What it covers | State |
|---|---|---|---|
| 1 | `DeviceKeys`, `AtomicKeys` | keys, `createKeysIfAbsent`, `provisionVirtualCard`, the mutex, `reset`, export and import; the abstract specification they implement while reloads are the only faults | done, with proofs |
| 2 | `FundingSourceSubscription` | subscription manager and the watch | done, with proofs |
| 3 | `SealedLists` | list and get operations over sealed copies | done, with proofs |
| 4 | `ClientOperations`, `AtomicOperations` | sign-in guard, mutex, use case check, preparation, request and answer of the operations on cards and funding sources; the abstract specification they implement | done, with proofs |
| 5 | `GraphQLDocuments`, `GraphQLSchema`, `ApiRequests`, `AnswerHandling` | what every operation sends, asks for and reads | done, with proofs |
| 6 | `ApiErrors`, `ProviderData` | error mapping; which provider data is accepted | done |
| 7 | `ApiClient` | composition of 5 and 6 with the life of the funding sources, their lists included | done, with proofs |
| 8 | composition of `ClientOperations` with `FundingSourceSubscription` | the changes the service announces are those the operations make | planned |
| 9 | composition of `ClientOperations` with `DeviceKeys` | operations that queue behind `createKeysIfAbsent` | planned |

What is left are the two compositions: a change the service announces would be
that of an operation, and an operation would wait for the steps of
`createKeysIfAbsent`, which each side now takes for any that may come.

## 3. The modules

Each module `M` with a state of its own has an `MCM` that declares model values and
symmetry, and a `MProofs` that holds its theorems; three more modules hold the longest
arguments, `AtomicKeysProofs`, `SealedListsResultProofs` and `ApiTablesProofs`. Actions have the names of the functions they
model, and `PROJECT.json` ("map") gives the lines of every definition.
Definitions marked `Variant` in a comment are deliberate mistakes: each replaces
one definition to show that a property would notice it.

### DeviceKeys

| Variable | Code |
|---|---|
| `store` | the key manager: `pairPtr` and `symPtr` are the two passwords that name the current keys, `pairs` and `symKeys` the keys themselves |
| `cache` | `DefaultDeviceKeyWorker.currentPublicKey` |
| `registry`, `cards` | what the service holds: public keys with ring and owner; provisioned cards with the keys they are sealed to |
| `user`, `signedIn`, `archive` | the signed-in user, and the last exported archive |
| `queue` | the mutex: waiting calls, the holder first |
| `op`, `state` | each call's operation and progress |
| `pair`, `sym`, `key`, `symId` | program counters and results of a call's two strands |

Every action is one segment between two `await`s. A call has two strands, which
run side by side for `createKeysIfAbsent` and one after the other for
`provisionVirtualCard`. `CallThrow` settles a call at its first failure and
leaves the other strand running, as `Promise.all` does. A key id is the name of
the call that drew it (`v4()` draws fresh ids).

Faults, each enabled by a member of `Faults` and together bounded by
`MaxFaults`: the key manager rejects a call (`store`), the service rejects one
before or after acting on it (`server`), the page is reloaded, perhaps for
another user (`restart`), the user signs out (`signout`) and another signs in
without a reload (`switch`; it needs a sign-out and is not counted), `reset`
between calls or among them (`racingReset`), and `importKeys` (`import`).

Assumptions about code outside the repository: the service finds a public key
by owner and id; it seals a card to every key of the caller in the ring named;
`addPassword` overwrites or rejects an existing entry (`AddPasswordReplaces`,
both are checked); saving an archive clears the store first or does not (both
are allowed).

`AtomicKeys` is what users of the device may rely on while pages are reloaded and
nothing else goes wrong: the device gets its key pair in one step and its symmetric key in
one step, once each and for good; the service knows no other pair; a card is sealed to
this pair alone; a call that reports keys reports these; and a call either does its work
or goes down with its page, but never fails. The refinement counts a key once it is in the
store and the pointer names it (`DevicePair`, `DeviceSymmetric`); what the service has
registered and the cards are taken as they are. Half-made keys (a pointer without its key, a
key no pointer names), the cached values and the progress of the strands are not visible above.

### FundingSourceSubscription

| Variable | Code |
|---|---|
| `subscribers`, `watcher`, `subscription` | the fields of `SubscriptionManager` |
| `live`, `seen`, `version` | the watches the service serves, the last change announced on each, the changes there were |
| `unsealing` | changes received and being unsealed, which finish in any order |
| `pc` | progress of each subscribe call |
| `notifying`, `informing` | the rest of the loop of `connectionStatusChanged` and of the `map` of `fundingSourceChanged`: whom it has still to call, and with what |
| `status`, `got`, `ended`, `thrown` | what the host was told and did: the connection's state, how often it was told of each change, the subscribers it unsubscribed or replaced, whether a callback threw |

The loops of the subscription manager go over `Object.values(this.subscribers)`, which
is made once (`Notify`, `FundingSourceChanged`). Each call of a subscriber is a step of
its own (`Notified`, `Informed`): nothing of the SDK runs between two of them (`Idle`), but
the host does, and it may unsubscribe anyone or make another call. So a subscriber that is
unsubscribed by another's callback is still called by that delivery. `SilentAfterLeaving`
says that this is the last that may reach it: only those still to be called when they
leave (`Audience`) are called.
A callback that throws when the connection changes ends the loop (`NotifiedThrows`); one
that throws when a change arrives keeps nothing from the others, who are called in
promises of their own.

`Host` says how the host makes its subscribe calls. Under `"any"` they overlap as they
like. Under `"awaiting"` each is made when the one before has settled. That is not enough
for a single watch, since the use case does not await the service
(`subscribeToFundingSourceChangesUseCase.ts:45`): the promise settles when the subscriber is
registered, and the watch is opened afterwards. Under `"patient"` the host goes by what it is
told besides: it makes a call only while one of its subscribers is connected (told Connected,
not told Disconnected, and not ended), or when every subscriber has heard something. A callback
of `connectionStatusChanged` that throws keeps others from hearing, and such a host makes no
further call after it; after a watch that was refused, of which nobody hears, it makes one only
if another of its subscribers is connected. `connectionStatusChanged` is optional in the type; a
patient host gives it, and for a subscriber without it `status` is what it would have been told.

`MaxVersion` bounds the changes and `MaxFaults` the refused calls,
the changes that cannot be unsealed (or are null, which the handler refuses likewise) and the
callbacks that throw; a watch may end at any time without being counted.
Not modelled: the owner for whom the watch is opened.

### SealedLists

| Variable | Code |
|---|---|
| `kind`, `page`, `items` | the operation, the page the service returned, its copies grouped by item |
| `i`, `k`, `found`, `failedForId` | the loops' position, `cardToUnseal`, the failures kept back |
| `success`, `failed`, `status` | the result |
| `held`, `changes` | private keys on the device, and how often they changed |
| `ever`, `always` | history: the keys held at some time and at all times since the start |

Each turn of a loop that awaits the key manager is an action, and `ChangeKeys`
(`reset`, `importKeys`, which do not wait for the mutex) may come between any two. A copy is a key and whether
the rest of what unsealing needs is sound; unsealing a copy, which awaits once
per field, is one action, since it gives what it would give at the moment of
the first field that fails. `getProvisionalCard` is a list of at most one item;
`provisionVirtualCard` chooses a copy in the same way. Lists of provisional cards
may hold items without a card. Pages and lists are constants of the module, and
`MCSealedLists` enumerates all of them up to a length.

### ClientOperations and AtomicOperations

| Variable | Code |
|---|---|
| `objects` | cards and funding sources at the service: state, version, the key they and their metadata are sealed with |
| `op`, `obj`, `expected`, `data` | a call: the operation, its object, `expectedCardVersion`, the kind of data passed |
| `pc`, `key` | how far a call is, and the key it seals or signs with |
| `request`, `answer` | what it sent, and what the service did with it |
| `result` | how it settled: `success`, `partial` (`APIResultStatus.Partial`), `rejected`, or `lost` (rejected for a network error) |
| `queue` | the mutex `serialise`: the holder and those waiting |
| `signedIn` | what `isSignedIn` returns |
| `held`, `pairKey`, `symKey` | keys on the device, the cached public key, the current symmetric key |
| `shown`, `barred`, `lacked` | history: the card the host saw last, the calls a sign-out overtook, whether keys were ever missing |

A call goes through `guard` (`ensureSignedIn`), `check` (the use case, in its turn
if the operation is serialised), `key` and `seal` (only with metadata, or with the
data of a bank account), `sent` and `unseal`. `getFundingSource` and
`cancelProvisionalFundingSource` do not take the mutex. `reset` and `importKeys`
do not either, and the sign-out may come at any step. Credit cards need no key;
bank accounts are the funding sources with one.

`AtomicOperations` is what a host may think: a call is made, acts once on its
object in one step, and settles, reporting what it found or made in that step;
serialised calls take turns. The refinement maps a call's progress to
new, open or settled, the head of the queue to the turn, and `answer` to the
effect. A call whose answer was lost may still take effect afterwards: that is
part of the abstract specification because it is what the code does.

The service is outside the repository. The model lets it decline any mutation;
when it acts it follows `Transitions`, raises the version by one, and acts on an
update only if the expected version, when there is one, is the current one. A
request that left reaches it in the end, even after its call was given up.
`setCallback` is used once, before the first call (`Callback`). Key generation by
`sealMetadata` is one action here, and `DeviceKeys` has its steps.
Provisioning and the list operations take the same way through guard and
mutex; their own steps are in `DeviceKeys` and `SealedLists`.

`RejectedUnchanged` says that a rejection can be taken at its word. For funding
sources it excepts devices that lacked keys, because there it fails:
`cancelFundingSource` has the funding source cancelled and then rejects when the
bank account cannot be unsealed, where `cancelVirtualCard` reports a partial
result.

### ApiClient and its tables

Five modules of constants say what the code says once for each operation, each in
the form in which the layers can be compared:

| Module | Code | Holds |
|---|---|---|
| `GraphQLDocuments` | the documents in `gen/graphqlTypes.ts` | variables and selection (a set of paths) of each query, mutation and subscription, fragments by reference |
| `GraphQLSchema` | the types in `gen/graphqlTypes.ts` | fields of each input with those required; fields of each answer that may be null |
| `ApiRequests` | facade, use cases and services, down to `apiClient.ts` | the input of each operation, and under which field each option of the host is sent |
| `AnswerHandling` | services, workers and transformers | the fields read of each answer, and those read without a test for null |
| `ApiErrors`, `ProviderData` | `errorTransformer.ts`, `errors.ts`, `apiClient.ts`; `provisioningData.ts`, `interactionData.ts` | the class each reply becomes; which data decodes, and what is encoded for a completion or refresh |

`ApiClient` looks every operation up in them (`Calls`) and has the state:

| Variable | Code |
|---|---|
| `source`, `cards` | the service's funding sources, provisional or finished, with their provider data and the key a bank account's institution is sealed with; the number of cards |
| `key` | the key pair in use on the device between calls |
| `held` | the key pairs in use while the last call read them |
| `last` | the last call, until the host goes on (`goOn`) and may make another: operation, options given, fields null in the answer, reply, and what the host got |
| `told`, `known`, `lost` | history: provisional and finished funding sources the host was given, and the calls whose answer would have told of one, with what was in the way: the answer was lost, or the keys changed |

A call is one action. What it does at the service it does at one moment between its
call and its settling (`ClientOperations` shows it). Its keys are another matter: `reset`
and `importKeys` wait for no call, so what is looked up, signed with and unsealed with is
read at several moments. `Meanwhile` is the set of key pairs in use at those moments:
a completion may name one and be unsealed under another or none, each item of a list is
unsealed under one of its own, and a call that needs a key may not be sent although there
is one, or may be sent although it is gone by then. `completeFundingSource` therefore rejects
with `KeyNotFoundError` while the account is active, when `reset` runs between its
request (`defaultFundingSourceService.ts:174`) and the unsealing (`:180`): nothing was lost on
the way, and `OrphanExplained` has to name the change of keys as a reason of its own. A
refresh without an authorization text names the key the SDK remembers and needs none on the
device. Provider data is a provider, a version, a type (which
older data lacks) and the set of parts present; data that cannot be parsed is one
value. An answer is good by the schema when nothing is null that it declares
required, and `AnswersSuffice` is about every such answer with one null. It excepts one:
`onFundingSourceUpdate` as a whole, nullable in the schema (`gen/graphqlTypes.ts:765`), of which the handler makes a
`FatalError` that nobody hears (`defaultFundingSourceService.ts:487`).

Assumptions about the service: with an error it has not carried out the request; it
knows a provisional funding source and the one it becomes by one name here (the real
ids differ, and the host gets both); it refuses completion data that does not match
what it issued (`Matches`); the two calls of a refresh behave as
`test/integration/fundingsource/refreshFundingSource.test.ts` has them; it seals a
refreshed institution with the old key or the one in use.

## 4. What the runs check

| Run | Instance | Shows |
|---|---|---|
| `keys_every_fault` | 2 calls, 2 users, every fault, 1 at a time, pointers not overwritten; fair | `TypeOK`; `ReportedKeyRegistered`: a pair handed on is registered; `CallsSettle`: every queued call settles |
| `keys_same` | 3 calls, 2 users, up to 2 restarts | `SameKeysReported`: the same keys every time; `KeysFiledUnderOwner`: keys are filed under their owner's ring although users share the store; `ReportedKeyHeld`: the device has the private key of a pair handed on; `CardsReadable`: and can read every card provisioned; `KeysAtomic`: `DeviceKeys` implements `AtomicKeys`, where no call fails, so nothing an earlier page left half done makes one fail |
| `keys_reset` | 1 reset while nothing is under way | *violates* `CreatesIfAbsent`: the cached pair is reported although `reset` removed it |
| `keys_early_release` | 1 rejected service call | *violates* `SameKeysReported`: the strand left behind replaces a key already reported |
| `subs_overlap` | 3 calls, 2 ids, 2 changes, 1 fault, `Host = "any"`; 1,345,013 states up to symmetry | `TypeOK`; `ConnectedIsLive`; `JoinersAreServed`; `EndIsKnown`: who is dropped hears of it, unless a callback throws; `SilentAfterLeaving`: who left is in no later delivery; `DisconnectedIsFinal` |
| `subs_one_at_a_time` | the same with `Host = "patient"`; fair; 233,391 states | `OneWatch`; `ToldOnce`; `HearsOfConnection`: who opens a watch hears of it; `NewsReaches`: a change not yet announced reaches who stays |
| `subs_second_watch` | `Host = "awaiting"`, 1 change, no fault | *violates* `OneWatch`: of two calls, each awaited, both open a watch, and nothing can end the first |
| `lists` | every page of up to 3 copies of 2 items under 2 keys, every list of up to 2 provisional cards with up to 2 copies, up to 2 changes of the keys | `TypeOK`; `EachReportedOnce`; `OutcomeJustified`; `ReadableIsReported`; `OrderKept`; `StableResult`: without changes the result is the reference's |
| `calls_cards` | 3 calls on 1 card, no sign-in callback, 1 fault, 1 change elsewhere before it | `TypeOK`; `RejectedUnchanged`; `CardsNeverOlder`: the host never sees an older card than before; `NoLostUpdate`: an update replaces the version it expects |
| `calls_sources` | 2 calls on 1 funding source, sign-in callback, 1 fault; fair | `RejectedUnchanged`; `SignedOutSendsNothing`: nothing is sent for calls that had not passed their check when the user signed out; `CallsSettle`; `OperationsAtomic`: `ClientOperations` implements `AtomicOperations` |
| `api` | every operation, 2 funding sources, 2 key pairs that change between calls and within them, 1 card, every kind of provisioning data, every option but two, every error in every form; 768,123 states | `TypeOK`; `AnswersSuffice`: no answer good by the schema breaks the SDK, but for the null change; `RefusalsExplained`: a documented error arrives as its class; `OptionsReachService`: what the host gives is in the request, in a field the service knows; `CompletionFits`: completing with the data told is not refused as wrong data; `ListTellsAll`: a list tells of all or fails for a reason; `OrphanExplained`: the service holds no funding source the host never heard of, but for a lost answer, data that cannot be read or keys that changed during the call; `DocumentedMeansUnacted`: a documented error means nothing happened |
| `api_language` | 1 funding source, `setupFundingSource` alone, no option withheld | *violates* `OptionsReachService`: the preferred language is not sent |

The four violations are disagreements between the code and what the repository
says of it; `PROJECT.json` ("findings") quotes both sides. Others of the kind, met
while modelling and not given a run of their own:

* "onFundingSourceChanged should not call unsubscribed callback" says
  `test/unit/private/data/common/subscriptionManager.test.ts:93`, which unsubscribes between two
  deliveries. A subscriber that another's callback unsubscribes within a delivery is still
  called (`subscriptionManager.ts:66` and `:84`).
* A subscriber that joins a watch is never told Connected, though
  `public/typings/fundingSource.ts:479` promises it before any change.
* A change of a funding source that is null becomes a `FatalError` in a handler nobody
  awaits (`defaultFundingSourceService.ts:487`), though the schema allows it.
* `UpdateVirtualCardInput` says that a property is removed by null
  (`sudoVirtualCardsClient.ts:327`) and that `billingAddress` is removed by undefined (`:333`).
  The code goes by the former.
* `reset` during `completeFundingSource` leaves an active bank account of which the host gets a
  `KeyNotFoundError` only; the next `listFundingSources` fails for it, too.
* `ProvisionVirtualCardInput.clientRefId` (`sudoVirtualCardsClient.ts:307`) is used
  nowhere; `defaultVirtualCardService.ts:82` sends a fresh `v4()`. It is the other
  option `api` withholds.
* `cachePolicy` of the inputs is not used, and the documentation of
  `completeFundingSource` (`sudoVirtualCardsClient.ts:580`) names a property
  `provisioningData` where the error class has `interactionData`.
* `completeFundingSource` may end with `FundingSourceNotSetupError`
  (`test/integration/fundingsource/completeFundingSource.test.ts:484`), which its
  documentation does not list.
* A call for the interaction of the user with data for a card (Stripe) becomes a
  `FatalError`: `interactionData.ts` decodes checkout data only.
* `getFundingSourceClientConfiguration` has no sign-in check, and the facade parses
  its answer outside any handler, so that bad data throws a `SyntaxError`.
* `listFundingSources` fails as a whole for one bank account it cannot unseal, and
  `listProvisionalFundingSources` for one whose data it does not know; the lists of
  cards and transactions report such items one by one.

`listVirtualCards` reports every copy of a card, unlike `listTransactions`, which
reports a transaction once; `EachReportedOnce` is therefore not asked of it, and
`StableResult` states what it does. Likewise `listProvisionalCards` unseals the
first copy whose key is on the device and `getProvisionalCard` the last.

**Bounds.** Two calls are enough for a call and its retry, three for a call whose
left-over strand meets two later ones, or for two that report and one that
disturbs them. Two users are enough for one to find what the other left. Two
faults let a recovery fail as well. Two versions let changes overtake each other,
two ids let one subscriber leave while another stays, three calls let a
replacement meet a watch being opened. Three calls on a card are two that race and one that
shows what they left; two on a funding source are one serialised call and one that does
not wait for it; one object is enough, since the only thing calls on different objects
share is the mutex and the keys. Every call starts with the user signed in, since a
sign-out may come first. Three copies of two items are the
shortest pages in which a group is split by another item and a failure precedes
a success; two changes of the keys let a key go and come back. Two funding sources let a list hold one
that can be read and one that cannot; two key pairs let one be lost for another. In
`ApiClient` calls that change nothing are made on a fresh account only (`Fresh`), nulls
and the various losses of an answer are tried while there is one source at most (`Sparse`), and so are keys that change within a call,
no source is set up once there is a card, and a card needs all others to be away: what
these calls do depends on one source at most, and the bounds keep their number from
multiplying with what they do not depend on. Symmetry (calls,
users, ids, keys are interchangeable) is used only in runs without liveness.
The theorems below have no bounds.

**Deadlock** is checked in every run: each specification has a stuttering action
enabled only when everything has settled, so a state in which something waits
for ever would be reported.

**Fairness.** `DeviceKeys` assumes weak fairness of each call's own steps and of
each strand: the event loop runs every settled promise, and the key manager and
the network answer or time out. Faults are never required. No fairness is
assumed between calls; the order of the mutex is its queue. `FundingSourceSubscription`
assumes it of each call's steps up to its watch being open or refused (the event loop,
and the service answering), of the calls of subscribers taken together (a loop that has begun goes on to
its end), of the service announcing a change on an open watch, and of the unsealings of each watch: the
announcements are what the AppSync connection promises while it is up, and a watch may still
end at any time. The host's own steps (calling, unsubscribing) are not fair.
`ClientOperations` assumes weak fairness of all continuations and service answers together:
the event loop does not idle while something can run, and an answer, if only an error,
comes. It needs no fairness between calls, and losing an answer is never required.

## 5. What is proved

All proofs are in `DeviceKeysProofs`, `AtomicKeysProofs`,
`FundingSourceSubscriptionProofs`, `SealedListsProofs`, `SealedListsResultProofs`,
`ClientOperationsProofs`, `ApiClientProofs` and `ApiTablesProofs`, and hold for any number of calls,
users, objects, faults, changes, and for pages of any length. They use the constant assumptions of the modules
(`CallsAssumption` and the like) and nothing else except where named.

**DeviceKeys.** `TypeCorrect` shows `TypeOK` with two facts that make it
inductive: a running call is at the head of the mutex (`HolderInv`), and a
`DeviceKey` in use is complete (`KeyFormInv`). From there:
`KeysRegistered` (`ReportedKeyRegistered`, all faults) strengthens the invariant
with what each strand knows of the registry at each step. `KeysHeld`
(`ReportedKeyHeld`) assumes that nothing is removed from the store
(`StoreKept`: neither reset nor import), and shows that the cache, every strand past
the check of the private key, and every pair handed on refer to a pair in the
store. `KeysOwned` (`KeysFiledUnderOwner`) assumes that no other user signs in within
a page, and ties the ring in the cache and in every running strand to the user.
`CardsAlwaysReadable` (`CardsReadable`) combines the three: a card is sealed to
the pair handed on, which is registered under the caller's ring and held.
`KeysStaySame` (`SameKeysReported`) and `RestartsHarmless` (`RecoversFromRestart`) assume
that reloads are the only faults and that pointers can be overwritten (`OnlyReloads`).
`StableInv` says that then nothing fails, so that only the holder of the mutex has strands
under way; that each strand on its way to make a key knows there is none, so that what was reported
is never replaced; and, with `CardsReadable`, that no answer turns out unreadable.
Without the assumption `SameKeysReported` is false (`keys_early_release`).
`KeysAppearOnce` (in `AtomicKeysProofs`, with the same assumption) is the refinement of
`AtomicKeys`. `OneKeyInv` adds to `StableInv` what the store and the service hold besides:
every registered key is the pair pointed to and it is in the store, the symmetric key a
running call has sealed with is the current one, and a call that has not got past its
running phase has no card. That a key once there stays there (`KeptForGood`) is shown for
every step; the steps of each strand are sorted into those that make a key appear, register
it or leave it (`PairStepKinds`, `SymStepKinds`), those of the calls likewise
(`CallStepKinds`), and each kind is one step of `AtomicKeys` or none.

**FundingSourceSubscription.** The invariant `ManagerInv` joins `TypeOK`, the agreement of
the manager's fields (`WatchInv`), what registered subscribers may rely on (`ServedInv`),
that a subscriber is registered only after its call and before its disconnection
(`OnceInv`), and that there is one delivery at a time, to subscribers that were not
disconnected before, of a connection there is or of an end they were dropped for
(`DeliveryInv`). From it follow `ConnectedMeansLive`, `JoinersStayServed`, and the action
properties `SilenceAfterLeaving` and `DisconnectionIsFinal`; for the former, who is not
registered enters no delivery (`NextAudience`), and only a delivery tells anybody anything
(`NextTells`). `OneWatchAtATime` and `ToldOnceAtATime` assume `Host = "patient"`, and are
false without it (`subs_second_watch`). `OneWatchInv` adds that a watch is being opened only
while there is none, and by one call only. The key lemma is `OpeningUnknown`: while a watch
is being opened the host has not heard of a connection, so it makes no call and no other
call can find the manager without a watch; a subscriber told Connected that is not
registered now would know of its end (`EndAlwaysKnown`). For `ToldOnceAtATime`, whatever was received, be
it being unsealed, being told or told, is not ahead of what the current watch has announced
(`ReceivedInv`), so a watch opened later announces other changes. `EndAlwaysKnown` is
inductive given `ManagerInv`.

**SealedLists.** `TypeCorrect`; `ReportedOnce` (`EachReportedOnce` is inductive given the
types); `JustifiedAlways`, with `PendingInv` on the failures kept back and the copies
looked at; `ReadableAlwaysReported`, with `ReadInv` on the copies behind the loop. The
key lemma is `JudgementStands`: since `always` only shrinks and `ever` only grows, an
entry once justified stays so whatever happens to the keys.

`OrderAlwaysKept` (`OrderKept`) and `ResultAsReference` (`StableResult`), in
`SealedListsResultProofs`, are about what the loops make of a whole page. Both need that
`InOrder`, which lists a finite set of positions, names each once and in order. That looks
like an induction over data, which is out of reach; the proof goes by counting instead: the
rank of a position is an injection of the set into `1 .. n`, sets of equal size make it
onto, and so every place of the list is taken by exactly one position. On it rest `PlacesInv`
and `SortedInv`: every item of a result comes from a place the loop has passed, and items of
earlier places come first. `OrderAlwaysKept` assumes that the service names no provisional
card twice in one list (`ItemsDistinct`): such an item would be reported twice, and which is
first is then a matter of the name alone. `ResultAsReference` has no such assumption:
`SteadyInv` says that as long as the keys have not changed, what has been reported is exactly
what the reference definition makes of the places passed.

**ClientOperations.** `CallInv` joins `TypeOK`, what a call's progress says of its request,
answer and result (`LifeInv`), that only the head of the mutex is past its check
(`HolderInv`), and that those in the queue wait, once each (`QueueInv`). Most steps follow
two patterns, `Prepares` and `Settles`, and the lemmas speak of these. From `CallInv`:
`SignedOutIsSilent` adds that calls are overtaken only while the user is signed out
(`BarredInv`); `UpdatesLandOnTheirVersion` needs nothing more; `CardsGrow` adds `VersionInv`:
no card shown is ahead of the service, and an answer still to be shown is not behind what was
shown, because its call holds the mutex; `RejectionsHarmless` adds `KeyInv`, that a device
that never lacked keys can read everything, and `RejectedInv`, why a call was rejected.
`Atomicity` is the refinement: one lemma per action of `AtomicOperations` (`AtomicOpen`,
`AtomicTurn`, `AtomicEffect`, `AtomicSettle`), everything else being a stutter.

**ApiClient.** `TypeCorrect` needs that only a bank account is ever in the state
`refresh` (`Sealed`): a card is never sealed. The lemma `EveryStep` abstracts each action into one
of three: the service rests, it acts on one source and the host learns of it or the
answer is lost, or it provisions a card. From it: `DocumentedUnacted`
(`DocumentedMeansUnacted`: a step that acts ends with a result, `FatalError`,
`KeyNotFoundError` or what a lost answer becomes, none of which is documented), `Explained`
(`OrphanExplained`: a bank account whose answer came and was sound is unreadable only under another
key than the one it was sealed with, so the keys changed during its completion), `Fits` (`CompletionFits`), `TellsAll` (`ListTellsAll`) and
`Reported` (`RefusalsExplained`), for any number of sources, keys and cards and any
provisioning data.

`ApiTablesProofs` is about the tables. One lemma per kind of object (`DetailKind`,
`TransactionKind`, `CardKind`, `BankAccountKind` and so on) compares what is read of it with
its fragment and what may be null in it with what is tested; `PageSuits` and `AbsentSuits`
lift this to pages and to answers that may be absent, and one lemma per table
(`FundingSourceTable`, `CardTable`, `TransactionTable`, `OtherTable`) to all operations. Two
kinds of null are not tested and do no harm, because nothing of them is read: those of the
last transaction of a card within a provisional card, and the format of a public key. There
every null has a name at a position where no read has it (`HitsAt`, `AvoidsAt`), so that it
is no prefix of one. The lemma `EveryCallEnds` sorts the steps of `ApiClient` by how the
call ends (`Ended`), which gives `AnswersReadable` (`AnswersSuffice`); the change that is null,
which the handler of `onFundingSourceUpdate` refuses, is excepted throughout
(`SoundUnlessAbsent`, `SuitableUnlessAbsent`). `OptionsArrive`
(`OptionsReachService`) uses the same lemma with `Carries`: for every operation what is
always sent is declared and includes what is required, and each option offered is passed on
to a declared field. It assumes that the two options known to be lost, `language` of a setup
and `clientRefId` of a card, are withheld (`LostOptions`): with them it is false
(`api_language`).

Only model-checked is liveness (`CallsSettle`, `HearsOfConnection`, `NewsReaches`), which
needs fairness and `ENABLED`, out of the prover's reach. Every other property of a passing
run is a theorem. No module declares a RECURSIVE operator, and the operators `:>` and `@@`,
which the prover does not know, are not used for the tables.

## 6. What is not modelled

* Encryption, encoding and JSON: keys and copies are names, and sealing, signing and
  unsealing succeed or fail.
* `removeKey`, which has no caller.
* The owner a watch is opened for (`defaultFundingSourceService.ts:351`): a user who signs in
  without a reload joins the watch of another. What the service announces to whom is not
  in the repository.
* What the service makes of a `clientRefId` or of a key id sent without a signature.
* The values of fields: entities and transformers are modelled by which fields they
  read and what they do with a null, generated types by what is required, and
  enumerations not at all.
* The JSON of the three configuration documents (`clientConfiguration.ts` and
  `virtualCardsConfigApiTransformer.ts`): stateless decoding. A null entry there throws
  a `TypeError` (`clientConfiguration.ts:89`).
* The two documents without a caller, `EnableUserDocument` and `DisableUserDocument`.
* The services and libraries outside the repository: only what the code relies on,
  stated above and marked external in the map.
