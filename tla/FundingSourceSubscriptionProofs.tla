------------------- MODULE FundingSourceSubscriptionProofs -------------------
(* Theorems about FundingSourceSubscription, for any number of subscribe    *)
(* calls, ids and changes.                                                  *)
EXTENDS FundingSourceSubscription, TLAPS

-----------------------------------------------------------------------------
LEMMA NextType == TypeOK /\ [Next]_vars => TypeOK'
<1> SUFFICES ASSUME TypeOK, [Next]_vars PROVE TypeOK'  OBVIOUS
<1> USE BoundAssumption
    DEF TypeOK, Goto, Fault, Pc, Status, ConnectionState, managerVars, watchVars,
        loopVars, hostVars
<1>1. ASSUME NEW c \in Calls, Call(c) \/ Reject(c) \/ OpenFailed(c)
      PROVE  TypeOK'
  <2>1. CASE Call(c)
    BY <2>1 DEF Call
  <2>2. CASE Reject(c)
    BY <2>2 DEF Reject
  <2>3. CASE OpenFailed(c)
    BY <2>3 DEF OpenFailed
  <2>4. QED  BY <1>1, <2>1, <2>2, <2>3
<1>2. ASSUME NEW c \in Calls, SubscribeStep(c)
      PROVE  TypeOK'
  <2>1. CASE Opened(c)
    BY <2>1 DEF Opened, Notify, Subscribers
  <2>2. CASE \E i \in Ids : Subscribe(c, i)
    BY <2>2 DEF Subscribe, Leave
  <2>3. QED  BY <1>2, <2>1, <2>2 DEF SubscribeStep
<1>3. ASSUME NEW h \in Calls, Announce(h)
      PROVE  TypeOK'
  <2>1. seen[h] \in 0..MaxVersion /\ seen[h] + 1 \in 0..MaxVersion
    BY <1>3 DEF Announce
  <2>2. seen[h] + 1 \in Versions
    BY <2>1 DEF Versions
  <2>3. QED  BY <1>3, <2>1, <2>2 DEF Announce
<1>4. ASSUME NEW h \in Calls, NEW v \in Versions, Unsealed(h, v) \/ UnsealFailed(h, v)
      PROVE  TypeOK'
  BY <1>4 DEF Unsealed, UnsealFailed, FundingSourceChanged, Subscribers
<1>5. ASSUME NEW h \in Calls, WatchEnds(h)
      PROVE  TypeOK'
  BY <1>5 DEF WatchEnds, Disconnected, Notify, Subscribers
<1>6. ASSUME NEW c \in Calls, NEW state \in ConnectionState, Notified(c, state)
      PROVE  TypeOK'
  BY <1>6 DEF Notified
<1>7. ASSUME NEW c \in Calls, NEW state \in ConnectionState, NotifiedThrows(c, state)
      PROVE  TypeOK'
  <2>1. thrown' \in BOOLEAN
    BY <1>7, Zenon DEF NotifiedThrows
  <2>2. QED  BY <1>7, <2>1 DEF NotifiedThrows
<1>8. ASSUME NEW c \in Calls, NEW v \in Versions, Informed(c, v)
      PROVE  TypeOK'
  <2>1. got' \in [Calls -> [Versions -> Nat]]
    BY <1>8 DEF Informed
  <2>2. QED  BY <1>8, <2>1 DEF Informed
<1>9. ASSUME NEW i \in Ids, Unsubscribe(i)
      PROVE  TypeOK'
  BY <1>9 DEF Unsubscribe, Leave
<1>10. CASE Change
  BY <1>10 DEF Change
<1>11. CASE UNCHANGED vars
  BY <1>11 DEF vars
<1>12. QED
  BY <1>1, <1>2, <1>3, <1>4, <1>5, <1>6, <1>7, <1>8, <1>9, <1>10, <1>11
     DEF Next, Deliver, Quiescent

LEMMA InitType == Init => TypeOK
<1>1. Init => thrown \in BOOLEAN
  BY Zenon DEF Init
<1>2. QED
  BY <1>1, CallsAssumption, BoundAssumption
     DEF Init, TypeOK, Pc, Status, Versions

\* Every variable keeps its type.
THEOREM TypeCorrect == Spec => []TypeOK
BY InitType, NextType, PTL DEF Spec

-----------------------------------------------------------------------------
(* The manager: what it records of the watch, and of each subscriber.       *)

\* The recorded watch is the recorded subscription, and is live.
WatchInv == watcher = subscription /\ (watcher # None => watcher \in live)

\* A registered subscriber that joined a watch or was told Connected has one.
ServedInv ==
  \A c \in Calls :
    Registered(c) /\ (pc[c] = "joined" \/ status[c] = "connected")
      => watcher # None

Unheard(c) == pc[c] \in {"new", "called", "rejected"}

\* A subscriber is registered once, after it was called and before it is
\* disconnected.
OnceInv ==
  \A c \in Calls :
    /\ Unheard(c) => ~Registered(c) /\ status[c] = "none"
    /\ status[c] = "disconnected" => ~Registered(c)

\* One delivery at a time.  Whom it has still to call was not disconnected
\* before; it tells of a connection while there is one, and of its end only
\* those that were dropped.
DeliveryInv ==
  /\ notifying = {} \/ informing = {}
  /\ \A c \in Calls :
       /\ c \in Audience => ~Unheard(c) /\ status[c] # "disconnected"
       /\ <<c, "connected">> \in notifying
            => watcher # None /\ <<c, "disconnected">> \notin notifying
       /\ <<c, "disconnected">> \in notifying => ~Registered(c)

ManagerInv == TypeOK /\ WatchInv /\ ServedInv /\ OnceInv /\ DeliveryInv

\* A step that neither delivers nor touches the manager.
LEMMA NothingManaged ==
  ASSUME ManagerInv, TypeOK', UNCHANGED <<managerVars, live, loopVars, status>>,
         \A c \in Calls : /\ Unheard(c)' => Unheard(c)
                          /\ pc'[c] = "joined" => pc[c] = "joined"
                          /\ c \in Audience => ~Unheard(c)'
  PROVE  ManagerInv'
<1> USE DEF ManagerInv, managerVars, loopVars
<1>1. \A c \in Calls : /\ Registered(c)' = Registered(c)
                       /\ (c \in Audience)' = (c \in Audience)
  BY DEF Registered, Audience
<1>2. WatchInv' /\ ServedInv' /\ OnceInv'
  BY <1>1 DEF WatchInv, ServedInv, OnceInv
<1>3. DeliveryInv'
  BY <1>1 DEF DeliveryInv
<1>4. QED  BY <1>2, <1>3

LEMMA NextManager == ManagerInv /\ [Next]_vars => ManagerInv'
<1> SUFFICES ASSUME ManagerInv, [Next]_vars PROVE ManagerInv'  OBVIOUS
<1>0. TypeOK'
  BY NextType DEF ManagerInv
<1> USE CallsAssumption
    DEF ManagerInv, managerVars, watchVars, loopVars, hostVars
<1>1. ASSUME NEW c \in Calls, Call(c) \/ Reject(c) \/ OpenFailed(c)
      PROVE  ManagerInv'
  <2>1. \A d \in Calls : /\ Unheard(d)' = Unheard(d)
                         /\ pc'[d] = "joined" => pc[d] = "joined"
    BY <1>1 DEF Call, Reject, OpenFailed, Goto, Unheard, TypeOK
  <2>2. UNCHANGED <<managerVars, live, loopVars, status>>
    BY <1>1 DEF Call, Reject, OpenFailed
  <2>3. \A d \in Calls : d \in Audience => ~Unheard(d)'
    BY <2>1 DEF DeliveryInv
  <2>4. QED  BY <1>0, <2>1, <2>2, <2>3, NothingManaged
<1>2. ASSUME NEW c \in Calls, NEW i \in Ids, Subscribe(c, i)
      PROVE  ManagerInv'
  <2>1. /\ UNCHANGED <<watcher, subscription, live, loopVars, status>>
        /\ notifying = {} /\ informing = {}
    BY <1>2 DEF Subscribe, Idle
  <2>2. \A d \in Calls \ {c} : (Registered(d)' => Registered(d)) /\ pc'[d] = pc[d]
    BY <1>2 DEF Subscribe, Goto, Registered, TypeOK
  <2>3. /\ pc'[c] = IF watcher = None THEN "opening" ELSE "joined"
        /\ status[c] = "none"
    BY <1>2 DEF Subscribe, Goto, TypeOK, OnceInv, Unheard
  <2>4. WatchInv' /\ ServedInv'
    BY <2>1, <2>2, <2>3 DEF WatchInv, ServedInv
  <2>5. OnceInv'
    BY <2>1, <2>2, <2>3 DEF OnceInv, Unheard
  <2>6. DeliveryInv'
    BY <2>1 DEF DeliveryInv, Audience
  <2>7. QED  BY <1>0, <2>4, <2>5, <2>6
<1>3. ASSUME NEW c \in Calls, Opened(c)
      PROVE  ManagerInv'
  <2>1. /\ WatchInv' /\ watcher' = c /\ c # None
        /\ UNCHANGED <<subscribers, status>>
        /\ informing' = {} /\ notifying' = Subscribers \X {"connected"}
    BY <1>3 DEF Opened, Idle, Notify, WatchInv
  <2>2. \A d \in Calls : /\ Registered(d)' = Registered(d)
                         /\ Unheard(d)' => Unheard(d)
    BY <1>3 DEF Opened, Goto, Registered, Unheard, TypeOK
  <2>3. OnceInv' /\ ServedInv'
    BY <2>1, <2>2 DEF OnceInv, ServedInv
  <2>4. \A d \in Calls : (d \in Audience)' => Registered(d)
    BY <2>1 DEF Audience, Subscribers
  <2>5. DeliveryInv'
    BY <2>1, <2>2, <2>4 DEF DeliveryInv, OnceInv
  <2>6. QED  BY <1>0, <2>1, <2>3, <2>5
<1>4. ASSUME NEW h \in Calls, WatchEnds(h)
      PROVE  ManagerInv'
  <2>1. /\ watcher' = None /\ subscription' = None
        /\ UNCHANGED <<pc, status>>
        /\ informing' = {} /\ notifying' = Subscribers \X {"disconnected"}
    BY <1>4 DEF WatchEnds, Idle, Disconnected, Notify
  <2>2. \A d \in Calls : ~Registered(d)'
    BY <1>4 DEF WatchEnds, Disconnected, Registered
  <2>3. WatchInv' /\ OnceInv' /\ ServedInv'
    BY <2>1, <2>2 DEF WatchInv, OnceInv, ServedInv, Unheard
  <2>4. \A d \in Calls : (d \in Audience)' => Registered(d)
    BY <2>1 DEF Audience, Subscribers
  <2>5. DeliveryInv'
    BY <2>1, <2>2, <2>4 DEF DeliveryInv, OnceInv, Unheard
  <2>6. QED  BY <1>0, <2>3, <2>5
<1>5. ASSUME NEW i \in Ids, Unsubscribe(i)
      PROVE  ManagerInv'
  <2>1. UNCHANGED <<watcher, subscription, live, pc, loopVars, status>>
    BY <1>5 DEF Unsubscribe
  <2>2. \A d \in Calls : (Registered(d)' => Registered(d)) /\ Unheard(d)' = Unheard(d)
    BY <1>5, <2>1 DEF Unsubscribe, Registered, Unheard, TypeOK
  <2>3. WatchInv' /\ ServedInv' /\ OnceInv'
    BY <2>1, <2>2 DEF WatchInv, ServedInv, OnceInv
  <2>4. \A d \in Calls : (d \in Audience)' = (d \in Audience)
    BY <2>1 DEF Audience
  <2>5. DeliveryInv'
    BY <2>1, <2>2, <2>4 DEF DeliveryInv
  <2>6. QED  BY <1>0, <2>3, <2>5
<1>6. ASSUME NEW h \in Calls, NEW v \in Versions, Unsealed(h, v)
      PROVE  ManagerInv'
  <2>1. /\ UNCHANGED <<managerVars, live, pc, status>>
        /\ notifying' = {} /\ informing' = Subscribers \X {v}
    BY <1>6 DEF Unsealed, Idle, FundingSourceChanged
  <2>2. \A d \in Calls : Registered(d)' = Registered(d) /\ Unheard(d)' = Unheard(d)
    BY <2>1 DEF Registered, Unheard
  <2>3. WatchInv' /\ ServedInv' /\ OnceInv'
    BY <2>1, <2>2 DEF WatchInv, ServedInv, OnceInv
  <2>4. \A d \in Calls : (d \in Audience)' => Registered(d)
    BY <2>1 DEF Audience, Subscribers
  <2>5. DeliveryInv'
    BY <2>1, <2>2, <2>4 DEF DeliveryInv, OnceInv
  <2>6. QED  BY <1>0, <2>3, <2>5
<1>7. ASSUME NEW d \in Calls, NEW state \in ConnectionState,
             Notified(d, state) \/ NotifiedThrows(d, state)
      PROVE  ManagerInv'
  <2>1. /\ UNCHANGED <<managerVars, live, pc, informing>>
        /\ <<d, state>> \in notifying /\ notifying' \subseteq notifying \ {<<d, state>>}
        /\ status' = [status EXCEPT ![d] = state]
    BY <1>7 DEF Notified, NotifiedThrows
  <2>2. /\ d \in Audience /\ ~Unheard(d)
        /\ state = "connected" => watcher # None
        /\ state = "disconnected" => ~Registered(d)
    BY <2>1 DEF DeliveryInv, Audience
  <2>3. \A c \in Calls : Registered(c)' = Registered(c) /\ Unheard(c)' = Unheard(c)
    BY <2>1 DEF Registered, Unheard
  <2>4. /\ status'[d] = state
        /\ \A c \in Calls \ {d} : status'[c] = status[c]
    BY <2>1 DEF TypeOK
  <2>5. WatchInv'
    BY <2>1 DEF WatchInv
  <2>6. ServedInv' /\ OnceInv'
    BY <2>1, <2>2, <2>3, <2>4 DEF ServedInv, OnceInv, ConnectionState
  <2>7. \A c \in Calls : (c \in Audience)' => c \in Audience
    BY <2>1 DEF Audience
  <2>8. state = "disconnected" => d \notin Audience'
    BY <2>1 DEF DeliveryInv, Audience, ConnectionState
  <2>9. DeliveryInv'
    BY <2>1, <2>2, <2>3, <2>4, <2>7, <2>8 DEF DeliveryInv, ConnectionState
  <2>10. QED  BY <1>0, <2>5, <2>6, <2>9
<1>8. ASSUME NEW d \in Calls, NEW v \in Versions, Informed(d, v)
      PROVE  ManagerInv'
  <2>1. /\ UNCHANGED <<managerVars, live, pc, status, notifying>>
        /\ informing' \subseteq informing
    BY <1>8 DEF Informed
  <2>2. \A c \in Calls : /\ Registered(c)' = Registered(c)
                         /\ Unheard(c)' = Unheard(c)
                         /\ (c \in Audience)' => c \in Audience
    BY <2>1 DEF Registered, Unheard, Audience
  <2>3. WatchInv' /\ ServedInv' /\ OnceInv'
    BY <2>1, <2>2 DEF WatchInv, ServedInv, OnceInv
  <2>4. DeliveryInv'
    BY <2>1, <2>2 DEF DeliveryInv
  <2>5. QED  BY <1>0, <2>3, <2>4
<1>9. ASSUME \/ Change \/ UNCHANGED vars
             \/ \E h \in Calls : Announce(h) \/ \E v \in Versions : UnsealFailed(h, v)
      PROVE  ManagerInv'
  <2>1. UNCHANGED <<managerVars, live, loopVars, status, pc>>
    BY <1>9 DEF Change, Announce, UnsealFailed, vars
  <2>2. QED  BY <1>0, <2>1, NothingManaged DEF Unheard, DeliveryInv
<1>10. QED
  BY <1>1, <1>2, <1>3, <1>4, <1>5, <1>6, <1>7, <1>8, <1>9
     DEF Next, SubscribeStep, Deliver, Quiescent

LEMMA ManagerCorrect == Spec => []ManagerInv
<1>1. Init => ManagerInv
  BY InitType, CallsAssumption
     DEF Init, ManagerInv, WatchInv, ServedInv, OnceInv, DeliveryInv, Audience,
         Registered
<1>2. QED  BY <1>1, NextManager, PTL DEF Spec

\* A registered subscriber told Connected has a live watch behind it, however
\* many watches are opened, ended or left behind.
THEOREM ConnectedMeansLive == Spec => []ConnectedIsLive
<1>1. ManagerInv => ConnectedIsLive
  BY DEF ManagerInv, WatchInv, ServedInv, ConnectedIsLive
<1>2. QED  BY <1>1, ManagerCorrect, PTL

\* So has a registered subscriber that joined a watch somebody else opened.
THEOREM JoinersStayServed == Spec => []JoinersAreServed
<1>1. ManagerInv => JoinersAreServed
  BY DEF ManagerInv, WatchInv, ServedInv, JoinersAreServed
<1>2. QED  BY <1>1, ManagerCorrect, PTL

-----------------------------------------------------------------------------
(* Silence.  A delivery is to those registered when it starts, nobody is     *)
(* registered a second time, and only a delivery tells anybody anything.    *)

LEMMA NextTells ==
  ASSUME TypeOK, [Next]_vars, NEW c \in Calls, c \notin Audience
  PROVE  UNCHANGED <<status[c], got[c]>>
<1> USE DEF TypeOK, managerVars, watchVars, loopVars, hostVars
<1>1. ASSUME NEW d \in Calls,
             \/ Call(d) \/ Reject(d) \/ OpenFailed(d) \/ Opened(d)
             \/ Announce(d) \/ WatchEnds(d)
             \/ \E i \in Ids : Subscribe(d, i)
             \/ \E v \in Versions : Unsealed(d, v) \/ UnsealFailed(d, v)
      PROVE  UNCHANGED <<status, got>>
  BY <1>1 DEF Call, Reject, OpenFailed, Opened, Announce, WatchEnds, Subscribe,
              Unsealed, UnsealFailed
<1>2. ASSUME NEW d \in Calls, NEW state \in ConnectionState,
             Notified(d, state) \/ NotifiedThrows(d, state)
      PROVE  UNCHANGED <<status[c], got[c]>>
  BY <1>2 DEF Notified, NotifiedThrows, Audience
<1>3. ASSUME NEW d \in Calls, NEW v \in Versions, Informed(d, v)
      PROVE  UNCHANGED <<status[c], got[c]>>
  BY <1>3 DEF Informed, Audience
<1>4. CASE Change \/ UNCHANGED vars \/ \E i \in Ids : Unsubscribe(i)
  BY <1>4 DEF Change, Unsubscribe, vars
<1>5. QED
  BY <1>1, <1>2, <1>3, <1>4 DEF Next, SubscribeStep, Deliver, Quiescent

\* Who is not registered enters no delivery.
LEMMA NextAudience ==
  ASSUME [Next]_vars, NEW c \in Calls, c \notin Audience, ~Registered(c)
  PROVE  c \notin Audience'
<1> USE DEF managerVars, watchVars, loopVars, hostVars, Audience
<1>1. ASSUME NEW d \in Calls,
             \/ Call(d) \/ Reject(d) \/ OpenFailed(d) \/ Announce(d)
             \/ \E i \in Ids : Subscribe(d, i)
             \/ \E v \in Versions : UnsealFailed(d, v)
      PROVE  UNCHANGED loopVars
  BY <1>1 DEF Call, Reject, OpenFailed, Announce, Subscribe, UnsealFailed
<1>2. ASSUME NEW d \in Calls, Opened(d) \/ WatchEnds(d)
      PROVE  c \notin Audience'
  <2>1. /\ informing' = informing
        /\ \E state \in ConnectionState : notifying' = Subscribers \X {state}
    BY <1>2 DEF Opened, WatchEnds, Disconnected, Notify, ConnectionState
  <2>2. c \notin Subscribers
    BY DEF Subscribers
  <2>3. QED  BY <2>1, <2>2
<1>3. ASSUME NEW d \in Calls, NEW v \in Versions, Unsealed(d, v)
      PROVE  c \notin Audience'
  BY <1>3 DEF Unsealed, FundingSourceChanged, Subscribers
<1>4. ASSUME NEW d \in Calls,
             \/ Deliver(d)
             \/ \E state \in ConnectionState : NotifiedThrows(d, state)
      PROVE  notifying' \subseteq notifying /\ informing' \subseteq informing
  BY <1>4 DEF Deliver, Notified, NotifiedThrows, Informed
<1>5. CASE Change \/ UNCHANGED vars \/ \E i \in Ids : Unsubscribe(i)
  BY <1>5 DEF Change, Unsubscribe, vars
<1>6. QED
  BY <1>1, <1>2, <1>3, <1>4, <1>5 DEF Next, SubscribeStep, Quiescent

\* A subscriber that was unsubscribed, replaced or dropped is told nothing more,
\* but by the delivery under way when it left.
THEOREM SilenceAfterLeaving == Spec => SilentAfterLeaving
<1>1. TypeOK /\ [Next]_vars
        => [\A c \in Calls :
              Left(c) /\ c \notin Audience
                => c \notin Audience' /\ UNCHANGED <<status[c], got[c]>>]_vars
  BY NextTells, NextAudience DEF Left
<1>2. QED  BY <1>1, TypeCorrect, PTL DEF Spec, SilentAfterLeaving

\* A subscriber that was disconnected is told nothing more.
THEOREM DisconnectionIsFinal == Spec => DisconnectedIsFinal
<1>1. ManagerInv /\ [Next]_vars
        => [\A c \in Calls :
              status[c] = "disconnected" => UNCHANGED <<status[c], got[c]>>]_vars
  BY NextTells DEF ManagerInv, DeliveryInv
<1>2. QED  BY <1>1, ManagerCorrect, PTL DEF Spec, DisconnectedIsFinal

-----------------------------------------------------------------------------
(* The end of a subscription.                                              *)

Known(c) ==
  c \in ended \/ status[c] = "disconnected" \/ <<c, "disconnected">> \in notifying

LEMMA NextEnd == ManagerInv /\ EndIsKnown /\ [Next]_vars => EndIsKnown'
<1> SUFFICES ASSUME ManagerInv, EndIsKnown, [Next]_vars,
                    NEW c \in Calls, Left(c)', pc'[c] # "rejected", ~thrown'
             PROVE  Known(c)'
  BY DEF EndIsKnown, Known
<1>0. ASSUME Left(c), pc[c] # "rejected", ~thrown
      PROVE  Known(c)
  BY <1>0 DEF EndIsKnown, Known
<1> USE DEF ManagerInv, TypeOK, Goto, managerVars, watchVars, loopVars, hostVars
<1>1. ASSUME NEW d \in Calls, Call(d) \/ Reject(d) \/ OpenFailed(d)
      PROVE  Known(c)'
  <2>1. UNCHANGED <<status, subscribers, ended, notifying, thrown>>
    BY <1>1 DEF Call, Reject, OpenFailed
  <2>2. pc[c] \notin {"new", "called", "rejected"}
    BY <1>1 DEF Call, Reject, OpenFailed, Left
  <2>3. QED  BY <1>0, <2>1, <2>2 DEF Known, Left, Registered
<1>2. ASSUME NEW i \in Ids, Unsubscribe(i) \/ \E d \in Calls : Subscribe(d, i)
      PROVE  Known(c)'
  <2>1. CASE subscribers[i] = c
    BY <1>2, <2>1, CallsAssumption DEF Unsubscribe, Subscribe, Leave, Known
  <2>2. CASE subscribers[i] # c
    <3>1. ~Registered(c)
      BY <1>2, <2>2 DEF Unsubscribe, Subscribe, Left, Registered
    <3>2. pc[c] = pc'[c]
      BY <1>2 DEF Unsubscribe, Subscribe, Left, Registered
    <3>3. UNCHANGED <<status, notifying, thrown>> /\ ended \subseteq ended'
      BY <1>2 DEF Unsubscribe, Subscribe, Leave
    <3>4. QED  BY <1>0, <3>1, <3>2, <3>3 DEF Known, Left
  <2>3. QED  BY <2>1, <2>2
<1>3. ASSUME NEW d \in Calls, Opened(d)
      PROVE  Known(c)'
  <2>1. ~Registered(c)
    BY <1>3 DEF Opened, Left, Registered
  <2>2. UNCHANGED <<status, ended, thrown>> /\ notifying = {}
    BY <1>3 DEF Opened, Idle
  <2>3. pc[c] \notin {"new", "called", "rejected"}
    BY <1>3 DEF Opened, Left
  <2>4. QED  BY <1>0, <2>1, <2>2, <2>3 DEF Known, Left
<1>4. ASSUME NEW h \in Calls, WatchEnds(h)
      PROVE  Known(c)'
  <2>1. UNCHANGED <<pc, status, ended, thrown>> /\ notifying = {}
    BY <1>4 DEF WatchEnds, Idle
  <2>2. CASE Registered(c)
    BY <1>4, <2>2 DEF WatchEnds, Disconnected, Notify, Subscribers, Known
  <2>3. CASE ~Registered(c)
    BY <1>0, <2>1, <2>3 DEF Known, Left
  <2>4. QED  BY <2>2, <2>3
<1>5. ASSUME NEW d \in Calls, NEW state \in ConnectionState, Notified(d, state)
      PROVE  Known(c)'
  <2>1. /\ UNCHANGED <<subscribers, pc, ended, thrown>>
        /\ <<d, state>> \in notifying /\ notifying' = notifying \ {<<d, state>>}
        /\ status' = [status EXCEPT ![d] = state]
    BY <1>5 DEF Notified
  <2>2. Known(c)
    BY <1>0, <2>1 DEF Left, Registered
  <2>3. CASE c # d
    BY <2>1, <2>2, <2>3 DEF Known
  <2>4. CASE c = d
    <3>1. c \in Audience
      BY <2>1, <2>4 DEF Audience
    <3>2. state = "disconnected" \/ c \in ended
      BY <2>1, <2>2, <2>4, <3>1 DEF Known, DeliveryInv, ConnectionState
    <3>3. QED  BY <2>1, <2>4, <3>2 DEF Known
  <2>5. QED  BY <2>3, <2>4
<1>6. ASSUME NEW d \in Calls, NEW state \in ConnectionState, NotifiedThrows(d, state)
      PROVE  Known(c)'
  BY <1>6 DEF NotifiedThrows
<1>7. ASSUME \/ Change \/ UNCHANGED vars
             \/ \E h \in Calls :
                  \/ Announce(h)
                  \/ \E v \in Versions : Unsealed(h, v) \/ UnsealFailed(h, v) \/ Informed(h, v)
      PROVE  Known(c)'
  <2>1. UNCHANGED <<subscribers, pc, status, notifying, ended, thrown>>
    BY <1>7 DEF Change, Announce, Unsealed, UnsealFailed, Informed, vars
  <2>2. QED  BY <1>0, <2>1 DEF Known, Left, Registered
<1>8. QED
  BY <1>1, <1>2, <1>3, <1>4, <1>5, <1>6, <1>7
     DEF Next, SubscribeStep, Deliver, Quiescent

LEMMA EndCorrect == Spec => [](ManagerInv /\ EndIsKnown)
<1>1. Init => EndIsKnown
  BY DEF Init, EndIsKnown, Left
<1>2. QED  BY <1>1, NextEnd, ManagerCorrect, PTL DEF Spec

\* As long as no callback throws, a subscriber that is no longer registered was
\* ended by the host, or told Disconnected, or is about to be.
THEOREM EndAlwaysKnown == Spec => []EndIsKnown
BY EndCorrect, PTL

-----------------------------------------------------------------------------
(* One watch.  A host that waits until it hears of the connection lets a     *)
(* watch be opened only while there is none, and one at a time.             *)

OneWatchInv ==
  /\ OneWatch
  /\ \A c, d \in Calls :
       pc[c] \in {"called", "opening"} /\ pc[d] \in {"called", "opening"} => c = d
  /\ \A c \in Calls :
       pc[c] = "opening" => watcher = None /\ notifying = {} /\ status[c] = "none"

\* While a watch is being opened, such a host does not know of a connection.
LEMMA OpeningUnknown ==
  ASSUME ManagerInv, EndIsKnown, OneWatchInv,
         NEW c \in Calls, pc[c] = "opening", KnowsConnection
  PROVE  FALSE
<1>1. watcher = None /\ notifying = {} /\ status[c] = "none"
  BY DEF OneWatchInv
<1>2. PICK d \in Calls \ ended : status[d] = "connected"
  BY <1>1 DEF KnowsConnection
<1>3. ~Registered(d)
  BY <1>1, <1>2 DEF ManagerInv, ServedInv
<1>4. Left(d) /\ pc[d] # "rejected"
  BY <1>2, <1>3 DEF ManagerInv, OnceInv, Unheard, Left
<1>5. QED  BY <1>1, <1>2, <1>4 DEF EndIsKnown, KnowsConnection

LEMMA NextOneWatch ==
  ASSUME Host = "patient", ManagerInv, EndIsKnown, OneWatchInv, [Next]_vars
  PROVE  OneWatchInv'
<1> USE CallsAssumption
    DEF ManagerInv, TypeOK, WatchInv, OneWatchInv, OneWatch, managerVars,
        watchVars, loopVars, hostVars, Goto
<1>1. ASSUME NEW c \in Calls, Call(c)
      PROVE  OneWatchInv'
  <2>1. \A d \in Calls : pc[d] \notin {"called", "opening"}
    BY <1>1, OpeningUnknown DEF Call, Calling
  <2>2. QED  BY <1>1, <2>1 DEF Call
<1>2. ASSUME NEW c \in Calls, Reject(c) \/ OpenFailed(c)
      PROVE  OneWatchInv'
  BY <1>2 DEF Reject, OpenFailed
<1>3. ASSUME NEW c \in Calls, NEW i \in Ids, Subscribe(c, i)
      PROVE  OneWatchInv'
  <2>1. notifying = {} /\ status[c] = "none"
    BY <1>3 DEF Subscribe, Idle, OnceInv, Unheard
  <2>2. QED  BY <1>3, <2>1 DEF Subscribe
<1>4. ASSUME NEW c \in Calls, Opened(c)
      PROVE  OneWatchInv'
  <2>1. live = {}
    BY <1>4 DEF Opened
  <2>2. QED  BY <1>4, <2>1 DEF Opened
<1>5. ASSUME NEW h \in Calls, WatchEnds(h)
      PROVE  OneWatchInv'
  <2>1. \A c \in Calls : pc[c] # "opening"
    BY <1>5 DEF WatchEnds
  <2>2. QED  BY <1>5, <2>1 DEF WatchEnds, Disconnected
<1>6. ASSUME NEW d \in Calls, NEW state \in ConnectionState,
             Notified(d, state) \/ NotifiedThrows(d, state)
      PROVE  OneWatchInv'
  <2>1. notifying # {}
    BY <1>6 DEF Notified, NotifiedThrows
  <2>2. QED  BY <1>6, <2>1 DEF Notified, NotifiedThrows
<1>7. ASSUME NEW h \in Calls,
             \/ Announce(h)
             \/ \E v \in Versions : Unsealed(h, v) \/ UnsealFailed(h, v) \/ Informed(h, v)
      PROVE  OneWatchInv'
  BY <1>7 DEF Announce, Unsealed, UnsealFailed, Informed
<1>8. CASE Change \/ UNCHANGED vars \/ \E i \in Ids : Unsubscribe(i)
  BY <1>8 DEF Change, Unsubscribe, vars
<1>9. QED
  BY <1>1, <1>2, <1>3, <1>4, <1>5, <1>6, <1>7, <1>8
     DEF Next, SubscribeStep, Deliver, Quiescent

\* A host that waits until it hears of the connection leaves no watch behind.
THEOREM OneWatchAtATime ==
  ASSUME Host = "patient"
  PROVE  Spec => []OneWatch
<1>1. Init => OneWatchInv
  BY DEF Init, OneWatchInv, OneWatch
<1>2. (ManagerInv /\ EndIsKnown) /\ OneWatchInv /\ [Next]_vars => OneWatchInv'
  BY NextOneWatch
<1>3. OneWatchInv => OneWatch
  BY DEF OneWatchInv
<1>4. QED  BY <1>1, <1>2, <1>3, EndCorrect, PTL DEF Spec

-----------------------------------------------------------------------------
(* Changes.  With one watch at a time, a change received once is behind      *)
(* what the current watch has announced, and is not announced again.         *)

\* A change that was received: being unsealed, being told, or told.
Received(v) ==
  \/ \E h \in Calls : <<h, v>> \in unsealing
  \/ \E c \in Calls : <<c, v>> \in informing \/ got[c][v] > 0

ReceivedInv ==
  /\ \A v \in Versions :
       Received(v) => v <= version /\ \A h \in live : v <= seen[h]
  /\ \A g, h \in Calls, v \in Versions :
       <<g, v>> \in unsealing /\ <<h, v>> \in unsealing => g = h
  /\ \A h, c \in Calls, v \in Versions :
       <<h, v>> \in unsealing => got[c][v] = 0 /\ <<c, v>> \notin informing
  /\ \A c \in Calls, v \in Versions : <<c, v>> \in informing => got[c][v] = 0

OnceOnly == ToldOnce /\ ReceivedInv

\* A step that delivers no change, and opens no watch that is behind.
LEMMA NothingReceived ==
  ASSUME OnceOnly, UNCHANGED <<got, informing>>, unsealing' \subseteq unsealing,
         version' >= version, version \in Nat, version' \in Nat,
         \A h \in live' : \/ h \in live /\ seen'[h] = seen[h]
                          \/ seen'[h] = version
  PROVE  OnceOnly'
<1>1. \A v \in Versions : Received(v)' => Received(v)
  BY DEF Received
<1>2. ASSUME NEW v \in Versions, Received(v)'
      PROVE  v <= version' /\ \A h \in live' : v <= seen'[h]
  <2>1. v <= version /\ \A h \in live : v <= seen[h]
    BY <1>1, <1>2 DEF OnceOnly, ReceivedInv
  <2>2. v \in Nat
    BY DEF Versions
  <2>3. QED  BY <2>1, <2>2
<1>3. QED  BY <1>2 DEF OnceOnly, ToldOnce, ReceivedInv

LEMMA NextOnce ==
  ASSUME ManagerInv, OneWatch, OnceOnly, [Next]_vars
  PROVE  OnceOnly'
<1> USE BoundAssumption
    DEF ManagerInv, TypeOK, Goto, managerVars, watchVars, loopVars, hostVars
<1>0. TypeOK'
  BY NextType
<1>1. ASSUME NEW c \in Calls,
             \/ Call(c) \/ Reject(c) \/ OpenFailed(c) \/ WatchEnds(c)
             \/ \E i \in Ids : Subscribe(c, i)
             \/ \E v \in Versions : UnsealFailed(c, v)
             \/ \E state \in ConnectionState :
                  Notified(c, state) \/ NotifiedThrows(c, state)
      PROVE  OnceOnly'
  <2>1. /\ UNCHANGED <<got, informing, version, seen>>
        /\ unsealing' \subseteq unsealing /\ live' \subseteq live
    BY <1>1 DEF Call, Reject, OpenFailed, WatchEnds, Disconnected, Subscribe,
                UnsealFailed, Notified, NotifiedThrows
  <2>2. QED  BY <2>1, NothingReceived
<1>2. ASSUME NEW c \in Calls, Opened(c)
      PROVE  OnceOnly'
  <2>1. UNCHANGED <<got, informing, version, unsealing>>
    BY <1>2 DEF Opened
  <2>2. \A h \in live' : \/ h \in live /\ seen'[h] = seen[h]
                         \/ seen'[h] = version
    BY <1>2 DEF Opened
  <2>3. QED  BY <2>1, <2>2, NothingReceived
<1>3. ASSUME \/ Change \/ UNCHANGED vars
             \/ \E i \in Ids : Unsubscribe(i)
      PROVE  OnceOnly'
  <2>1. /\ UNCHANGED <<got, informing, unsealing, live, seen>>
        /\ version' >= version
    BY <1>3 DEF Change, Unsubscribe, vars
  <2>2. QED  BY <1>0, <2>1, NothingReceived
<1>4. ASSUME NEW h \in Calls, Announce(h)
      PROVE  OnceOnly'
  <2> DEFINE new == seen[h] + 1
  <2>1. /\ UNCHANGED <<got, informing, version, live>>
        /\ live = {h}
        /\ unsealing' = unsealing \cup {<<h, new>>}
        /\ seen'[h] = new /\ seen[h] < version
        /\ seen[h] \in 0..MaxVersion /\ version \in 0..MaxVersion
    BY <1>4 DEF Announce, OneWatch
  <2>2. new \in 1..MaxVersion /\ new <= version
    <3> HIDE DEF TypeOK, ManagerInv
    <3> QED  BY <2>1
  <2>3. ~Received(new)
    BY <2>1, <2>2 DEF OnceOnly, ReceivedInv, Versions
  <2>4. \A v \in Versions : Received(v)' => Received(v) \/ v = new
    BY <2>1 DEF Received
  <2>5. ASSUME NEW v \in Versions, Received(v)'
        PROVE  v <= new
    <3>1. v = new \/ v <= seen[h]
      BY <2>1, <2>4, <2>5 DEF OnceOnly, ReceivedInv
    <3>2. v \in 1..MaxVersion
      BY DEF Versions
    <3> HIDE DEF TypeOK, ManagerInv
    <3>3. QED  BY <2>1, <3>1, <3>2
  <2>6. \A v \in Versions :
          Received(v)' => v <= version' /\ \A g \in live' : v <= seen'[g]
    BY <2>1, <2>2, <2>5 DEF Versions
  <2>7. \A f, g \in Calls, v \in Versions :
          <<f, v>> \in unsealing' /\ <<g, v>> \in unsealing' => f = g
    BY <2>1, <2>3 DEF OnceOnly, ReceivedInv, Received
  <2>8. \A g, c \in Calls, v \in Versions :
          <<g, v>> \in unsealing' => got'[c][v] = 0 /\ <<c, v>> \notin informing'
    <3>1. new \in Versions
      BY <2>2 DEF Versions
    <3>2. ASSUME NEW c \in Calls
          PROVE  got[c][new] = 0 /\ <<c, new>> \notin informing
      <4>1. ~(got[c][new] > 0) /\ <<c, new>> \notin informing
        BY <2>3 DEF Received
      <4>2. got[c][new] \in Nat
        BY <3>1
      <4> DEFINE n == got[c][new]
      <4>3. n \in Nat /\ ~(n > 0)
        BY <4>1, <4>2
      <4> HIDE DEF n, TypeOK, ManagerInv
      <4>4. n = 0
        BY <4>3
      <4>5. QED  BY <4>1, <4>4 DEF n
    <3>3. QED  BY <2>1, <3>2 DEF OnceOnly, ReceivedInv
  <2>9. QED  BY <2>1, <2>6, <2>7, <2>8 DEF OnceOnly, ToldOnce, ReceivedInv
<1>5. ASSUME NEW h \in Calls, NEW v \in Versions, Unsealed(h, v)
      PROVE  OnceOnly'
  <2>1. /\ UNCHANGED <<version, live, seen, got>>
        /\ <<h, v>> \in unsealing /\ unsealing' = unsealing \ {<<h, v>>}
        /\ informing = {} /\ informing' = Subscribers \X {v}
    BY <1>5 DEF Unsealed, Idle, FundingSourceChanged
  <2>2. \A c \in Calls : got[c][v] = 0
    BY <2>1 DEF OnceOnly, ReceivedInv
  <2>3. \A w \in Versions : Received(w)' => Received(w)
    BY <2>1 DEF Received
  <2>4. \A g \in Calls : <<g, v>> \notin unsealing'
    BY <2>1 DEF OnceOnly, ReceivedInv
  <2>5. \A g, c \in Calls, w \in Versions :
          <<g, w>> \in unsealing' => got'[c][w] = 0 /\ <<c, w>> \notin informing'
    BY <2>1, <2>4 DEF OnceOnly, ReceivedInv
  <2>6. \A c \in Calls, w \in Versions : <<c, w>> \in informing' => got'[c][w] = 0
    BY <2>1, <2>2
  <2>7. \A w \in Versions :
          Received(w)' => w <= version' /\ \A g \in live' : w <= seen'[g]
    BY <2>1, <2>3 DEF OnceOnly, ReceivedInv
  <2>8. \A f, g \in Calls, w \in Versions :
          <<f, w>> \in unsealing' /\ <<g, w>> \in unsealing' => f = g
    BY <2>1 DEF OnceOnly, ReceivedInv
  <2>9. QED
    BY <2>1, <2>5, <2>6, <2>7, <2>8 DEF OnceOnly, ToldOnce, ReceivedInv
<1>6. ASSUME NEW d \in Calls, NEW v \in Versions, Informed(d, v)
      PROVE  OnceOnly'
  <2>1. /\ UNCHANGED <<version, live, seen, unsealing>>
        /\ <<d, v>> \in informing /\ informing' = informing \ {<<d, v>>}
        /\ got'[d][v] = got[d][v] + 1
        /\ \A c \in Calls, w \in Versions :
             <<c, w>> # <<d, v>> => got'[c][w] = got[c][w]
    BY <1>6 DEF Informed
  <2>2. got[d][v] = 0
    BY <2>1 DEF OnceOnly, ReceivedInv
  <2>3. ToldOnce'
    BY <2>1, <2>2 DEF OnceOnly, ToldOnce
  <2>4. \A w \in Versions : Received(w)' => Received(w)
    BY <2>1 DEF Received
  <2>5. \A w \in Versions :
          Received(w)' => w <= version' /\ \A g \in live' : w <= seen'[g]
    BY <2>1, <2>4 DEF OnceOnly, ReceivedInv
  <2>6. \A g \in Calls : <<g, v>> \notin unsealing
    BY <2>1 DEF OnceOnly, ReceivedInv
  <2>7. \A g, c \in Calls, w \in Versions :
          <<g, w>> \in unsealing' => got'[c][w] = 0 /\ <<c, w>> \notin informing'
    BY <2>1, <2>6 DEF OnceOnly, ReceivedInv
  <2>8. \A c \in Calls, w \in Versions : <<c, w>> \in informing' => got'[c][w] = 0
    BY <2>1 DEF OnceOnly, ReceivedInv
  <2>9. \A f, g \in Calls, w \in Versions :
          <<f, w>> \in unsealing' /\ <<g, w>> \in unsealing' => f = g
    BY <2>1 DEF OnceOnly, ReceivedInv
  <2>10. QED  BY <2>3, <2>5, <2>7, <2>8, <2>9 DEF OnceOnly, ReceivedInv
<1>7. QED
  BY <1>1, <1>2, <1>3, <1>4, <1>5, <1>6
     DEF Next, SubscribeStep, Deliver, Quiescent

\* A host that waits until it hears of the connection is told of a change once
\* at most, however often watches end and are opened again while changes are
\* unsealed, and whatever its callbacks do to other subscribers.
THEOREM ToldOnceAtATime ==
  ASSUME Host = "patient"
  PROVE  Spec => []ToldOnce
<1>1. Init => OnceOnly
  BY DEF Init, OnceOnly, ToldOnce, ReceivedInv, Received
<1>2. ManagerInv /\ OneWatch /\ OnceOnly /\ [Next]_vars => OnceOnly'
  BY NextOnce
<1>3. OnceOnly => ToldOnce
  BY DEF OnceOnly
<1>4. Spec => []OneWatch
  BY OneWatchAtATime
<1>5. QED  BY <1>1, <1>2, <1>3, <1>4, ManagerCorrect, PTL DEF Spec
=============================================================================
