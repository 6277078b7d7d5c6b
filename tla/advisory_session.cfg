SPECIFICATION AdviceSpec
CONSTANTS
  None = None
  MaxRequests = 6
  MaxInputs = 2
  MaxImages = 2
  MaxTurns = 2
  MaxFaults = 1
  f1 = f1
  f2 = f2
  k1 = k1
  k2 = k2
  v1 = v1
  v2 = v2
  x1 = x1
  x2 = x2
  Frames = {f1, f2}
  Keys = {k1, k2}
  Values = {v1, v2}
  Items = {x1, x2}
  Contexts <- ThreeContexts
  Start <- Turn1
  MaxTime = 2
  MaxEpoch = 1
CHECK_DEADLOCK FALSE
SYMMETRY Symmetry
INVARIANT CurrentFactsAreTrue
INVARIANT AlwaysResumable
INVARIANT AdviceIsSound
INVARIANT KnownIsExact
