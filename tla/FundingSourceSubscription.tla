---------------------- MODULE FundingSourceSubscription ----------------------
(***************************************************************************)
(* Change notifications for funding sources: SubscriptionManager and the   *)
(* part of DefaultFundingSourceService that opens the service's            *)
(* subscription and feeds it to the subscribers.                           *)
(*                                                                         *)
(* None of this takes the client's mutex.  A step is a run-to-completion   *)
(* segment (a subscribe call up to the opening of the watch, the           *)
(* continuation once it is open, one callback of the watch, the            *)
(* continuation of `next` once the funding source is unsealed) up to where *)
(* it calls the subscribers.  From there on each call of a subscriber is a *)
(* step of its own, since the host's code runs in it: it may subscribe or  *)
(* unsubscribe whom it likes, while those still to be called were chosen   *)
(* before.  No other segment runs until all of them have been called.      *)
(*                                                                         *)
(* A subscriber is named by the call that registers it, and so is the      *)
(* watch that call opens.  A change is the version of a funding source the *)
(* service announces; versions are announced in order on every live watch. *)
(***************************************************************************)
EXTENDS Naturals, FiniteSets

CONSTANTS
  Calls,      \* subscribe calls; also subscribers and watches
  Ids,        \* subscription ids the host application uses
  None,
  MaxVersion, \* bound on the changes the service announces
  MaxFaults,  \* bound on rejected calls, changes that cannot be unsealed and
              \* callbacks that throw
  Host        \* how the host makes its subscribe calls: "any" way, "awaiting"
              \* each, or "patient": awaiting that it hears of the connection

ASSUME CallsAssumption == None \notin Calls
ASSUME BoundAssumption == MaxVersion \in Nat /\ MaxFaults \in Nat
ASSUME HostAssumption == Host \in {"any", "awaiting", "patient"}

VARIABLES
  subscribers,  \* SubscriptionManager.subscribers, by id
  watcher,      \* SubscriptionManager._watcher
  subscription, \* SubscriptionManager._subscription
  live,         \* watches the service still serves
  seen,         \* the last version announced on a watch
  unsealing,    \* changes received and not yet handed on: <<watch, version>>
  version,      \* current version at the service
  pc,           \* progress of a subscribe call
  notifying,    \* whom connectionStatusChanged has still to call, and with what
  informing,    \* whom fundingSourceChanged has still to call, and with what
  status,       \* what its subscriber was last told of the connection
  got,          \* how often its subscriber was told of a version
  ended,        \* subscribers the host unsubscribed or replaced
  thrown,       \* whether a callback threw when told of the connection
  faults

managerVars == <<subscribers, watcher, subscription>>
watchVars == <<live, seen, unsealing, version>>
loopVars == <<notifying, informing>>
hostVars == <<status, got, ended, thrown>>
vars == <<subscribers, watcher, subscription, live, seen, unsealing, version,
          pc, notifying, informing, status, got, ended, thrown, faults>>

Versions == 1..MaxVersion
Pc == {"new", "called", "opening", "open", "joined", "failed", "rejected"}
ConnectionState == {"connected", "disconnected"}
Status == ConnectionState \cup {"none"}

TypeOK ==
  /\ subscribers \in [Ids -> Calls \cup {None}]
  /\ watcher \in Calls \cup {None}
  /\ subscription \in Calls \cup {None}
  /\ live \subseteq Calls
  /\ seen \in [Calls -> 0..MaxVersion]
  /\ unsealing \subseteq Calls \X Versions
  /\ version \in 0..MaxVersion
  /\ pc \in [Calls -> Pc]
  /\ notifying \subseteq Calls \X ConnectionState
  /\ informing \subseteq Calls \X Versions
  /\ status \in [Calls -> Status]
  /\ got \in [Calls -> [Versions -> Nat]]
  /\ ended \subseteq Calls
  /\ thrown \in BOOLEAN
  /\ faults \in 0..MaxFaults

Init ==
  /\ subscribers = [i \in Ids |-> None]
  /\ watcher = None /\ subscription = None
  /\ live = {} /\ unsealing = {} /\ version = 0
  /\ seen = [c \in Calls |-> 0]
  /\ pc = [c \in Calls |-> "new"]
  /\ notifying = {} /\ informing = {}
  /\ status = [c \in Calls |-> "none"]
  /\ got = [c \in Calls |-> [v \in Versions |-> 0]]
  /\ ended = {} /\ thrown = FALSE /\ faults = 0

Registered(c) == \E i \in Ids : subscribers[i] = c
Subscribers == {c \in Calls : Registered(c)}

\* No subscriber is being called: the next segment may run.
Idle == notifying = {} /\ informing = {}
Goto(c, from, to) == pc[c] = from /\ pc' = [pc EXCEPT ![c] = to]
Fault == faults < MaxFaults /\ faults' = faults + 1

-----------------------------------------------------------------------------
(* SubscriptionManager.                                                    *)

\* Variant: whoever subscribed is told.
InformEver(v) == informing' = {c \in Calls : pc[c] \in {"open", "joined"}} \X {v}

\* fundingSourceChanged: every subscriber registered now is to be called.
FundingSourceChanged(v) == informing' = Subscribers \X {v}

\* connectionStatusChanged: every subscriber registered now is to be called.
Notify(state) == notifying' = Subscribers \X {state}

\* Subscriber c is called, in the order the ids were first used in, which may
\* be any.  It may have left since.
Notified(c, state) ==
  /\ <<c, state>> \in notifying
  /\ notifying' = notifying \ {<<c, state>>}
  /\ status' = [status EXCEPT ![c] = state]
  /\ UNCHANGED <<managerVars, watchVars, pc, informing, got, ended, thrown, faults>>

\* Its callback throws, which ends the loop.
NotifiedThrows(c, state) ==
  /\ Fault
  /\ <<c, state>> \in notifying
  /\ notifying' = {}
  /\ status' = [status EXCEPT ![c] = state]
  /\ thrown' = TRUE
  /\ UNCHANGED <<managerVars, watchVars, pc, informing, got, ended>>

\* Each is called in a promise of its own here: one that throws keeps nothing
\* from the others.
Informed(c, v) ==
  /\ <<c, v>> \in informing
  /\ informing' = informing \ {<<c, v>>}
  /\ got' = [got EXCEPT ![c][v] = @ + 1]
  /\ UNCHANGED <<managerVars, watchVars, pc, notifying, status, ended, thrown, faults>>

\* Variant: the subscribers are looked up after they were dropped.
DisconnectedUntold(h) ==
  /\ subscribers' = [i \in Ids |-> None]
  /\ live' = live \ {h, subscription}
  /\ watcher' = None /\ subscription' = None
  /\ notifying' = notifying

\* Variant: a lost connection leaves the subscribers registered.
DisconnectedKept(h) ==
  /\ subscribers' = subscribers
  /\ live' = live \ {h, subscription}
  /\ watcher' = None /\ subscription' = None
  /\ Notify("disconnected")

\* connectionStatusChanged(Disconnected), on the end of watch h: the
\* subscribers are dropped, the current subscription is ended, and those
\* dropped are told.
Disconnected(h) ==
  /\ subscribers' = [i \in Ids |-> None]
  /\ live' = live \ {h, subscription}
  /\ watcher' = None /\ subscription' = None
  /\ Notify("disconnected")

-----------------------------------------------------------------------------
(* Subscribing.                                                            *)

\* What the host can see of a connection: one of its subscribers was told
\* Connected, and neither left nor was told Disconnected since; or there is no
\* call of its own it has not heard of.  A callback that throws keeps others
\* from hearing, so it must not have happened.
KnowsConnection ==
  /\ ~thrown
  /\ \/ \E d \in Calls \ ended : status[d] = "connected"
     \/ \A d \in Calls : pc[d] \in {"new", "rejected"} \/ status[d] # "none"

\* Whether a host as careful as Host says makes another call now.
Calling ==
  /\ Host # "any" => \A d \in Calls : pc[d] # "called"
  /\ Host = "patient" => KnowsConnection

\* The host calls subscribeToFundingSourceChanges, which asks for the
\* subject before anything else.  The promise settles when the subscriber is
\* registered, be it that its watch is still to be opened: to await it is not
\* to await the watch.
Call(c) ==
  /\ Calling
  /\ Goto(c, "new", "called")
  /\ UNCHANGED <<managerVars, watchVars, loopVars, hostVars, faults>>

\* NotSignedInError.
Reject(c) ==
  /\ Idle /\ Fault
  /\ Goto(c, "called", "rejected")
  /\ UNCHANGED <<managerVars, watchVars, loopVars, hostVars>>

\* Whoever was registered under id i was ended by the host.
Leave(i) == ended' = ended \cup ({subscribers[i]} \ {None})

\* Variant: every call opens a watch of its own.
SubscribeOpening(c, i) ==
  /\ Idle
  /\ Goto(c, "called", "opening")
  /\ subscribers' = [subscribers EXCEPT ![i] = c]
  /\ Leave(i)
  /\ UNCHANGED <<watcher, subscription, watchVars, loopVars, status, got, thrown,
                 faults>>

\* The subscriber is registered under its id, in place of any other.  If
\* there is a watch that is all, else one is opened.
Subscribe(c, i) ==
  /\ Idle
  /\ Goto(c, "called", IF watcher = None THEN "opening" ELSE "joined")
  /\ subscribers' = [subscribers EXCEPT ![i] = c]
  /\ Leave(i)
  /\ UNCHANGED <<watcher, subscription, watchVars, loopVars, status, got, thrown,
                 faults>>

\* Variant: the new watch is not recorded.
OpenedUnrecorded(c) ==
  /\ Idle
  /\ Goto(c, "opening", "open")
  /\ watcher' = watcher /\ subscription' = subscription
  /\ live' = live \cup {c}
  /\ seen' = [seen EXCEPT ![c] = version]
  /\ Notify("connected")
  /\ UNCHANGED <<subscribers, unsealing, version, informing, hostVars, faults>>

\* Variant: nobody is told that the watch is open.
OpenedSilently(c) ==
  /\ Idle
  /\ Goto(c, "opening", "open")
  /\ watcher' = c /\ subscription' = c
  /\ live' = live \cup {c}
  /\ seen' = [seen EXCEPT ![c] = version]
  /\ UNCHANGED <<subscribers, unsealing, version, loopVars, hostVars, faults>>

\* Variant: the watch is taken to have announced one change already.
OpenedAhead(c) ==
  /\ Idle
  /\ Goto(c, "opening", "open")
  /\ watcher' = c /\ subscription' = c
  /\ live' = live \cup {c}
  /\ seen' = [seen EXCEPT ![c] = version + 1]
  /\ Notify("connected")
  /\ UNCHANGED <<subscribers, unsealing, version, informing, hostVars, faults>>

\* The watch is open: it becomes the current one, whatever there was, and
\* everyone registered is told Connected.
Opened(c) ==
  /\ Idle
  /\ Goto(c, "opening", "open")
  /\ watcher' = c /\ subscription' = c
  /\ live' = live \cup {c}
  /\ seen' = [seen EXCEPT ![c] = version]
  /\ Notify("connected")
  /\ UNCHANGED <<subscribers, unsealing, version, informing, hostVars, faults>>

\* The service refuses.  Nobody awaits the promise, and nothing is undone.
OpenFailed(c) ==
  /\ Idle /\ Fault
  /\ Goto(c, "opening", "failed")
  /\ UNCHANGED <<managerVars, watchVars, loopVars, hostVars>>

\* unsubscribeFromFundingSourceChanges, which is synchronous and may be called
\* from within a callback.  The watch stays open.
Unsubscribe(i) ==
  /\ subscribers[i] # None
  /\ subscribers' = [subscribers EXCEPT ![i] = None]
  /\ Leave(i)
  /\ UNCHANGED <<watcher, subscription, watchVars, loopVars, pc, status, got,
                 thrown, faults>>

-----------------------------------------------------------------------------
(* The service and the watch.                                              *)

\* A funding source of the owner changes.
Change ==
  /\ version < MaxVersion
  /\ version' = version + 1
  /\ UNCHANGED <<managerVars, live, seen, unsealing, pc, loopVars, hostVars, faults>>

\* `next` on watch h: the change announced is unsealed before it is passed on.
Announce(h) ==
  /\ Idle
  /\ h \in live /\ seen[h] < version
  /\ seen' = [seen EXCEPT ![h] = @ + 1]
  /\ unsealing' = unsealing \cup {<<h, seen[h] + 1>>}
  /\ UNCHANGED <<managerVars, live, version, pc, loopVars, hostVars, faults>>

\* The funding source is unsealed, in whatever order, and the subscribers of
\* this moment are to be told.
Unsealed(h, v) ==
  /\ Idle
  /\ <<h, v>> \in unsealing
  /\ unsealing' = unsealing \ {<<h, v>>}
  /\ FundingSourceChanged(v)
  /\ UNCHANGED <<managerVars, live, seen, version, pc, notifying, hostVars, faults>>

\* It cannot be unsealed, or the service sent null for it, which is refused
\* before any unsealing.  Nobody awaits the handler, and the change is lost.
UnsealFailed(h, v) ==
  /\ Idle /\ Fault
  /\ <<h, v>> \in unsealing
  /\ unsealing' = unsealing \ {<<h, v>>}
  /\ UNCHANGED <<managerVars, live, seen, version, pc, loopVars, hostVars>>

\* `complete` or `error` on watch h, be it the current one or not.
WatchEnds(h) ==
  /\ Idle
  /\ h \in live
  /\ Disconnected(h)
  /\ UNCHANGED <<seen, unsealing, version, pc, informing, hostVars, faults>>

\* Nothing is under way: the only way for the system to stop.
Quiescent ==
  /\ \A c \in Calls : /\ pc[c] \notin {"called", "opening"}
                      /\ pc[c] = "new" => ~Calling
  /\ live = {} /\ unsealing = {} /\ Idle
  /\ UNCHANGED vars

SubscribeStep(c) == Opened(c) \/ \E i \in Ids : Subscribe(c, i)

\* A subscriber is called.
Deliver(c) ==
  \/ \E state \in ConnectionState : Notified(c, state)
  \/ \E v \in Versions : Informed(c, v)

Next ==
  \/ \E c \in Calls :
       \/ Call(c) \/ Reject(c) \/ OpenFailed(c) \/ SubscribeStep(c)
       \/ Announce(c) \/ WatchEnds(c) \/ Deliver(c)
       \/ \E state \in ConnectionState : NotifiedThrows(c, state)
       \/ \E v \in Versions : Unsealed(c, v) \/ UnsealFailed(c, v)
  \/ \E i \in Ids : Unsubscribe(i)
  \/ Change
  \/ Quiescent

Spec == Init /\ [][Next]_vars

\* The event loop runs every continuation, each of them calls its subscribers to
\* the last, the service answers the request to open a watch (with an error, if
\* it must) and announces what it has to.
Fairness ==
  /\ WF_vars(\E c \in Calls : Deliver(c))
  /\ \A c \in Calls :
       /\ WF_vars(SubscribeStep(c) \/ OpenFailed(c))
       /\ WF_vars(Announce(c))
       /\ WF_vars(\E v \in Versions : Unsealed(c, v))

FairSpec == Spec /\ Fairness

-----------------------------------------------------------------------------
(* Properties.                                                             *)

\* A subscriber that is registered and was told Connected has a live watch
\* behind it: Connected means connected.
ConnectedIsLive ==
  \A c \in Calls : Registered(c) /\ status[c] = "connected" => watcher \in live

\* A subscriber whose call found a watch to join still has one, for as long as
\* it is registered: nobody is left registered with a watch that has ended.
JoinersAreServed ==
  \A c \in Calls : Registered(c) /\ pc[c] = "joined" => watcher \in live

Left(c) == pc[c] \notin {"new", "called"} /\ ~Registered(c)

\* Those the segment that runs now has still to call.
Audience == {c \in Calls : \/ \E state \in ConnectionState : <<c, state>> \in notifying
                           \/ \E v \in Versions : <<c, v>> \in informing}

\* A subscriber that was unsubscribed, replaced or dropped is told nothing more,
\* even of changes that were being unsealed when it left: only the delivery
\* under way at that moment may still call it, and no later one does.
SilentAfterLeaving ==
  [][\A c \in Calls :
       Left(c) /\ c \notin Audience
         => c \notin Audience' /\ UNCHANGED <<status[c], got[c]>>]_vars

\* Disconnected is final for a subscriber: whatever watch is opened later, it
\* must subscribe again to hear of anything.
DisconnectedIsFinal ==
  [][\A c \in Calls :
       status[c] = "disconnected" => UNCHANGED <<status[c], got[c]>>]_vars

\* At most one watch is open at the service, and it is the current one: no
\* watch is left behind that nothing can end.
OneWatch == live \subseteq {watcher}

\* A subscriber is told of a change at most once.
ToldOnce == \A c \in Calls, v \in Versions : got[c][v] <= 1

\* A subscriber whose watch the service is asked to open hears of the
\* connection in the end, unless it leaves, the service refuses, or another's
\* callback throws.
HearsOfConnection ==
  \A c \in Calls :
    pc[c] = "opening"
      ~> status[c] # "none" \/ Left(c) \/ pc[c] = "failed" \/ thrown

\* A subscriber that is no longer registered knows it: the host unsubscribed or
\* replaced it, or it was told Disconnected or is about to be, even if its own
\* watch is still being opened.  Only a callback that throws keeps the others
\* from hearing of it.
EndIsKnown ==
  \A c \in Calls :
    Left(c) /\ pc[c] # "rejected" /\ ~thrown
      => c \in ended \/ status[c] = "disconnected" \/ <<c, "disconnected">> \in notifying

\* A change the service has not announced yet on the current watch reaches
\* whoever is registered, unless they leave first, or something was rejected
\* and the change may be the one that cannot be unsealed.
NewsReaches ==
  \A c \in Calls, v \in Versions :
    Registered(c) /\ watcher # None /\ v \in seen[watcher] + 1 .. version
      ~> got[c][v] > 0 \/ Left(c) \/ faults > 0

=============================================================================
