SPECIFICATION Spec
CONSTANTS
  s1 = s1
  s2 = s2
  a1 = a1
  a2 = a2
  None = None
  Sessions = {s1, s2}
  Actions = {a1, a2}
  Policies = {"strict", "learning"}
  Probes = {}
  MaxFaults = 1
  External = FALSE
CHECK_DEADLOCK FALSE
SYMMETRY Symmetry
INVARIANT IInv
INVARIANT NoOrphanDecision
PROPERTY PendingNeverForgotten
PROPERTY KeepsPromise
