------------------------------ MODULE AtomicKeys ------------------------------
(***************************************************************************)
(* What users of one device may rely on while pages come and go but        *)
(* nothing else goes wrong: the device gets its key pair in one step and   *)
(* its symmetric key in one step, once each and for good; the service      *)
(* knows no other key of this device; every call that reports keys reports *)
(* these; every card is sealed to this pair alone; and a call either does  *)
(* its work or goes down with its page, but never fails.                   *)
(***************************************************************************)
CONSTANTS Calls, Users, None

VARIABLES
  user,       \* whose page is open
  pair,       \* the key pair of the device, None until there is one
  symmetric,  \* its symmetric key, None until there is one
  registered, \* which public keys the service knows, and for whom
  cards,      \* the cards provisioned: for which call, sealed to what
  phase,      \* of a call: not made yet, under way, and how it ended
  reported    \* the keys a call reported

vars == <<user, pair, symmetric, registered, cards, phase, reported>>

Nothing == <<None, None>>

Init ==
  /\ user \in Users
  /\ pair = None /\ symmetric = None
  /\ registered = {} /\ cards = {}
  /\ phase = [c \in Calls |-> "new"]
  /\ reported = [c \in Calls |-> Nothing]

Open(c) ==
  /\ phase[c] = "new"
  /\ phase' = [phase EXCEPT ![c] = "open"]
  /\ UNCHANGED <<user, pair, symmetric, registered, cards, reported>>

MakePair(c) ==
  /\ phase[c] = "open" /\ pair = None
  /\ pair' = c
  /\ UNCHANGED <<user, symmetric, registered, cards, phase, reported>>

MakeSymmetric(c) ==
  /\ phase[c] = "open" /\ symmetric = None
  /\ symmetric' = c
  /\ UNCHANGED <<user, pair, registered, cards, phase, reported>>

KnownToService == pair # None /\ <<pair, user>> \in registered

\* Every user of the device registers the same pair.
Register(c) ==
  /\ phase[c] = "open" /\ pair # None
  /\ registered' = registered \cup {<<pair, user>>}
  /\ UNCHANGED <<user, pair, symmetric, cards, phase, reported>>

\* The one card of a call; the call may end with it.
Provision(c) ==
  /\ phase[c] = "open" /\ KnownToService
  /\ \A card \in cards : card.call # c
  /\ \E meta \in {None, symmetric} :
       cards' = cards \cup {[call |-> c, keys |-> {pair}, meta |-> meta]}
  /\ phase' \in {phase, [phase EXCEPT ![c] = "provisioned"]}
  /\ UNCHANGED <<user, pair, symmetric, registered, reported>>

ReportCard(c) ==
  /\ phase[c] = "open"
  /\ \E card \in cards : card.call = c
  /\ phase' = [phase EXCEPT ![c] = "provisioned"]
  /\ UNCHANGED <<user, pair, symmetric, registered, cards, reported>>

ReportKeys(c) ==
  /\ phase[c] = "open" /\ KnownToService /\ symmetric # None
  /\ phase' = [phase EXCEPT ![c] = "reported"]
  /\ reported' = [reported EXCEPT ![c] = <<pair, symmetric>>]
  /\ UNCHANGED <<user, pair, symmetric, registered, cards>>

\* The page closes on the calls under way, and the keys survive it.
Reload(u) ==
  /\ user' = u
  /\ phase' = [c \in Calls |-> IF phase[c] = "open" THEN "lost" ELSE phase[c]]
  /\ UNCHANGED <<pair, symmetric, registered, cards, reported>>

Next ==
  \/ \E c \in Calls :
       \/ Open(c) \/ MakePair(c) \/ MakeSymmetric(c) \/ Register(c)
       \/ Provision(c) \/ ReportCard(c) \/ ReportKeys(c)
  \/ \E u \in Users : Reload(u)

Spec == Init /\ [][Next]_vars
===============================================================================
