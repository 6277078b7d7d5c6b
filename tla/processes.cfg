SPECIFICATION ProcessesSpec
CONSTANTS
  c1 = c1
  c2 = c2
  c3 = c3
  o1 = o1
  Calls = {c1, c2, c3}
  Clients = {o1}
  NoCall = NoCall
  Nil = Nil
  q1 = q1
  q2 = q2
  Commands = {q1, q2}
  LISTEN = 2
  RECOVERY_LIMIT = 1
  MaxOpen = 2
  MaxPackets = 1
  MaxTyped = 2
  NoScope = NoScope
  Captures = {"picture"}
  Target <- Targets
  Budget <- Budgets
  STALE_RECAPTURE_LIMIT = 1
  MAX_HISTORY = 2
  Steps <- TwoSteps
  LastTick = 2
  LastOpen = 2
  MaxTroubles = 1
  Jumps <- SetBack
  Turns = {1, 2}
  MAX_AGE = 1
  MaxHour = 3
  MaxChanges = 2
  MaxEpochs = 2
  MaxWrapped = 2
  MaxMoves = 2
  NoEpoch = NoEpoch
CHECK_DEADLOCK FALSE
INVARIANT CallsAreTrue
INVARIANT ReportsAreTrue
INVARIANT InspectionIsConclusive
INVARIANT ClocksAreExact
INVARIANT ReportsCountOnce
PROPERTY NothingAfterDoubt
PROPERTY EvidenceHolds
