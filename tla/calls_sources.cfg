SPECIFICATION FairSpec
CONSTANTS
  c1 = c1
  c2 = c2
  c3 = c3
  card = card
  source = source
  Calls = {c1, c2}
  Cards = {}
  Sources = {source}
  Operations <- SourceOperations
  None = None
  Refused = Refused
  Callback = TRUE
  MaxVersion = 2
  MaxFaults = 1
INVARIANTS RejectedUnchanged SignedOutSendsNothing
PROPERTIES CallsSettle OperationsAtomic
