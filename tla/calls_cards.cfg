SPECIFICATION Spec
CONSTANTS
  c1 = c1
  c2 = c2
  c3 = c3
  card = card
  source = source
  Calls = {c1, c2, c3}
  Cards = {card}
  Sources = {}
  Operations <- CardOperations
  None = None
  Refused = Refused
  Callback = FALSE
  MaxVersion = 2
  MaxFaults = 1
SYMMETRY Symmetry
INVARIANTS TypeOK RejectedUnchanged
PROPERTIES CardsNeverOlder NoLostUpdate
