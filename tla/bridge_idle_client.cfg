SPECIFICATION FairServer
CONSTANTS
  NoLine = NoLine
  Calls = {1, 2}
  Ids = {1, 2}
  MaxRequests = 2
  IdleTimeout = FALSE
  WaitsForClients = TRUE
CHECK_DEADLOCK FALSE
PROPERTY SessionEnds
