SPECIFICATION Spec
CONSTANTS
  a = a
  b = b
  c = c
  d = d
  None = None
  Lineages = {a, b, c, d}
  Writers = {"w1"}
  Capturers = {"e1"}
  Maintainers = {"m1", "m2"}
  Histories <- PairOnly
  PowerLosses = TRUE
  MaxRev = 5
  MaxFaults = 2
INVARIANTS
  OnePreparedBatch
  QuarantineIsBound
CHECK_DEADLOCK FALSE
