-------------------------- MODULE MCClientOperations --------------------------
(* Instances of ClientOperations for TLC.                                  *)
EXTENDS ClientOperations, TLC

CONSTANTS c1, c2, c3, card, source

\* Calls are interchangeable.  Used where no liveness is checked.
Symmetry == Permutations(Calls)
===============================================================================
