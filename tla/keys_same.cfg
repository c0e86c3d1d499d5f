SPECIFICATION Spec
CONSTANTS
  c1 = c1
  c2 = c2
  c3 = c3
  u1 = u1
  u2 = u2
  Calls = {c1, c2, c3}
  Users = {u1, u2}
  None = None
  Faults = {"restart"}
  MaxFaults = 2
  AddPasswordReplaces = TRUE
SYMMETRY Symmetry
INVARIANTS SameKeysReported KeysFiledUnderOwner
  ReportedKeyHeld CardsReadable
PROPERTY KeysAtomic
