SPECIFICATION Spec
CONSTANTS
  c1 = c1
  c2 = c2
  c3 = c3
  u1 = u1
  u2 = u2
  Calls = {c1, c2, c3}
  Users = {u1}
  None = None
  Faults = {"reset"}
  MaxFaults = 1
  AddPasswordReplaces = TRUE
PROPERTY CreatesIfAbsent
