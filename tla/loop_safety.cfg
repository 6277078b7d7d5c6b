SPECIFICATION LoopSpec
CONSTANTS
  a1 = a1
  a2 = a2
  Actions <- TwoActions
  NoAction = NoAction
  Consequential <- OneConsequential
  MaxInputs = 2
  MaxFaults = 2
  ParentsMissing = TRUE
CHECK_DEADLOCK FALSE
INVARIANT RowsAreTrue
PROPERTY LoggedBeforeInput
PROPERTY RunEnds
