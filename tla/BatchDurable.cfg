SPECIFICATION Spec
CONSTANTS
  a = a
  b = b
  c = c
  d = d
  None = None
  Lineages = {a, b, c, d}
  Writers = {"w1"}
  Capturers = {}
  Maintainers = {"m1"}
  Histories <- PairOnly
  PowerLosses = FALSE
  MaxRev = 5
  MaxFaults = 1
INVARIANTS
  CommittedMovesDurable
CHECK_DEADLOCK FALSE
