SPECIFICATION Spec
CONSTANTS
  s1 = s1
  s2 = s2
  s3 = s3
  a = a
  b = b
  None = None
  Calls = {s1, s2, s3}
  Ids = {a, b}
  MaxVersion = 1
  MaxFaults = 0
  Host = "awaiting"
INVARIANT OneWatch
