--------------------------- MODULE AtomicOperations ---------------------------
(***************************************************************************)
(* What a host may rely on when it calls the SDK, whatever happens inside: *)
(* a call takes effect on its card or funding source at most once and in   *)
(* one step, never before it is made, and never after it settled unless    *)
(* its answer was lost; what it reports is what it found or made in that   *)
(* step; and the effects of serialised calls do not fall within one        *)
(* another's turns.                                                        *)
(***************************************************************************)
CONSTANTS Calls, Objects, Cards, None, Refused

VARIABLES
  objects, \* the cards and funding sources at the service
  phase,   \* of a call: not made yet, under way, settled
  target,  \* the object a call is about
  serial,  \* the calls that take turns
  turn,    \* the call whose turn it is
  effect,  \* what a call found or made, Refused if the service declined
  outcome, \* what a call settled with
  shown    \* the cards as the host was last shown them

vars == <<objects, phase, target, serial, turn, effect, outcome, shown>>

OnlyChanges(o) == objects' = [objects EXCEPT ![o] = objects'[o]]
Shows(o) == o \in {"success", "partial"}

Init ==
  /\ phase = [c \in Calls |-> "new"]
  /\ target = [c \in Calls |-> None]
  /\ serial = {}
  /\ turn = None
  /\ effect = [c \in Calls |-> None]
  /\ outcome = [c \in Calls |-> "none"]

Open(c) ==
  /\ phase[c] = "new"
  /\ phase' = [phase EXCEPT ![c] = "open"]
  /\ \E o \in Objects : target' = [target EXCEPT ![c] = o]
  /\ serial' \in {serial, serial \cup {c}}
  /\ UNCHANGED <<objects, turn, effect, outcome, shown>>

TakeTurn(c) ==
  /\ turn = None /\ c \in serial /\ phase[c] = "open"
  /\ turn' = c
  /\ UNCHANGED <<objects, phase, target, serial, effect, outcome, shown>>

\* The one step in which a call acts at the service, on its object only.
Effect(c) ==
  /\ effect[c] = None
  /\ \/ phase[c] = "open" /\ (c \in serial => turn = c)
     \/ outcome[c] = "lost"
  /\ \/ /\ OnlyChanges(target[c])
        /\ effect' = [effect EXCEPT ![c] = objects'[target[c]]]
     \/ /\ objects' = objects
        /\ effect' = [effect EXCEPT ![c] = Refused]
  /\ UNCHANGED <<phase, target, serial, turn, outcome, shown>>

\* A call reports what it found or made, or nothing; and the turn passes on.
Settle(c) ==
  /\ phase[c] = "open"
  /\ phase' = [phase EXCEPT ![c] = "settled"]
  /\ \E o \in {"success", "partial", "rejected", "lost"} :
       /\ Shows(o) => effect[c] \notin {None, Refused}
       /\ outcome' = [outcome EXCEPT ![c] = o]
       /\ shown' = IF Shows(o) /\ target[c] \in Cards
                     THEN [shown EXCEPT ![target[c]] = effect[c]]
                     ELSE shown
  /\ IF turn = c
       THEN turn' = None \/ (turn' \in serial /\ phase'[turn'] = "open")
       ELSE turn' = turn
  /\ UNCHANGED <<objects, target, serial, effect>>

\* The objects also change at the hands of others.
Elsewhere ==
  /\ \E o \in Objects : OnlyChanges(o)
  /\ UNCHANGED <<phase, target, serial, turn, effect, outcome, shown>>

Next ==
  \/ \E c \in Calls : Open(c) \/ TakeTurn(c) \/ Effect(c) \/ Settle(c)
  \/ Elsewhere

Spec == Init /\ [][Next]_vars
===============================================================================
