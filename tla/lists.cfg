SPECIFICATION Spec
CONSTANTS
  a = a
  b = b
  k1 = k1
  k2 = k2
  Ids = {a, b}
  Keys = {k1, k2}
  MaxCopies = 3
  MaxItems = 2
  MaxItemCopies = 2
  Pages <- MCPages
  ItemLists <- MCItemLists
  MaxChanges = 2
SYMMETRY Symmetry
INVARIANTS TypeOK EachReportedOnce OutcomeJustified ReadableIsReported OrderKept StableResult
