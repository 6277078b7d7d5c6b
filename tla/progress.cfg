SPECIFICATION ProgressSpec
CONSTANTS
  NoLine = NoLine
  Calls = {1, 2, 3}
  Ids = {1, 2}
  MaxRequests = 2
  IdleTimeout = TRUE
  WaitsForClients = FALSE
  s1 = s1
  a1 = a1
  a2 = a2
  None = None
  Sessions = {s1}
  Actions = {a1, a2}
  Policies = {"strict", "learning"}
  Probes = {a2}
  MaxFaults = 2
  External = FALSE
CHECK_DEADLOCK FALSE
INVARIANT AnswersAreTrue
PROPERTY NoInputAfterUnknown
PROPERTY EveryCallEnds
PROPERTY VerifiedEventuallySettled
