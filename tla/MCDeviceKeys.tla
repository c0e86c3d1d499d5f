---------------------------- MODULE MCDeviceKeys ----------------------------
(* Instances of DeviceKeys for TLC.                                        *)
EXTENDS DeviceKeys, TLC

CONSTANTS c1, c2, c3, u1, u2

\* Calls and users are interchangeable.  Symmetry is used by the runs that
\* check safety only.
Symmetry == Permutations(Calls) \cup Permutations(Users)
=============================================================================
