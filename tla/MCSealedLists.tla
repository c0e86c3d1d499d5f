---------------------------- MODULE MCSealedLists ----------------------------
(* Instances of SealedLists for TLC: every page of at most MaxCopies copies *)
(* and every list of at most MaxItems provisional cards, of at most         *)
(* MaxItemCopies copies each.                                               *)
EXTENDS SealedLists, TLC, SequencesExt

CONSTANTS a, b, k1, k2, MaxCopies, MaxItems, MaxItemCopies

MCPages == SeqOf(Copy, MaxCopies)

ProvisionalCards ==
  UNION {[id : {x}, copies : SeqOf([id : {x}, key : Keys, sound : BOOLEAN],
                                   MaxItemCopies)] : x \in Ids}

MCItemLists ==
  {l \in SeqOf(ProvisionalCards, MaxItems) :
     \A m, n \in DOMAIN l : l[m].id = l[n].id => m = n}

\* Ids and keys are interchangeable; the run checks safety only.
Symmetry == Permutations(Ids) \cup Permutations(Keys)
=============================================================================
