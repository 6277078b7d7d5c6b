SPECIFICATION BoundedSpec
CONSTANTS
  c1 = c1
  c2 = c2
  o1 = o1
  o2 = o2
  None = None
  Calls = {c1, c2}
  Taps = {c1, c2}
  Clients = {o1, o2}
  MaxRequests = 2
  IdleTimeout = FALSE
  WaitsForClients = FALSE
CHECK_DEADLOCK FALSE
SYMMETRY Symmetry
PROPERTY KeepsCallPromise
PROPERTY NoInputBehindDoubt
