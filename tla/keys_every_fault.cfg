SPECIFICATION FairSpec
CONSTANTS
  c1 = c1
  c2 = c2
  c3 = c3
  u1 = u1
  u2 = u2
  Calls = {c1, c2}
  Users = {u1, u2}
  None = None
  Faults = {"store", "server", "restart", "signout", "switch", "reset", "racingReset", "import"}
  MaxFaults = 1
  AddPasswordReplaces = FALSE
INVARIANTS TypeOK ReportedKeyRegistered
PROPERTY CallsSettle
