SPECIFICATION Spec
CONSTANTS
  s1 = s1
  s2 = s2
  a1 = a1
  a2 = a2
  None = None
  Sessions = {s1, s2}
  Actions = {a1, a2}
  Policies = {"strict"}
  Probes = {}
  MaxFaults = 2
  External = TRUE
CHECK_DEADLOCK FALSE
SYMMETRY Symmetry
INVARIANT DurableBarrier
INVARIANT InputNeverRepeated
INVARIANT OneInputInDoubt
INVARIANT LedgerTruthful
