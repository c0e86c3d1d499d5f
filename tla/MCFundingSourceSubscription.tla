--------------------- MODULE MCFundingSourceSubscription ---------------------
(* Instances of FundingSourceSubscription for TLC.                         *)
EXTENDS FundingSourceSubscription, TLC

CONSTANTS s1, s2, s3, a, b

\* Calls and ids are interchangeable.  Used by the runs that check safety only.
Symmetry == Permutations(Calls) \cup Permutations(Ids)
=============================================================================
