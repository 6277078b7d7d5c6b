SPECIFICATION FairSpec
CONSTANTS
  s1 = s1
  s2 = s2
  a1 = a1
  a2 = a2
  None = None
  Sessions = {s1}
  Actions = {a1}
  Policies = {"strict", "learning"}
  Probes = {}
  MaxFaults = 0
  External = FALSE
CHECK_DEADLOCK FALSE
PROPERTY VerifiedSettles
