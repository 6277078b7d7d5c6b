SPECIFICATION LedgerSpec
CONSTANTS
  p1 = p1
  p2 = p2
  o1 = o1
  o2 = o2
  o3 = o3
  o4 = o4
  None = None
  Procs = {p1, p2}
  Ops = {o1, o2, o3, o4}
  MoveSets <- SomeMoves
  MaxTime = 2
  MaxRows = 2
  MaxCommands = 1
  Items <- TwoCards
  Looked <- Looks
  Possible <- SomeChanges
  Deck <- ThreeCards
  Played <- SomeMovements
  MaxCopies = 1
  MaxStock = 3
  MaxImages = 3
  Lacking = Lacking
CHECK_DEADLOCK FALSE
SYMMETRY Symmetry
INVARIANT FactsInOrder
INVARIANT MemoryIsTrue
PROPERTY OutcomeOnSameLedger
