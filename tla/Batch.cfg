SPECIFICATION FairSpec
CONSTANTS
  a = a
  b = b
  c = c
  d = d
  None = None
  Lineages = {a, b, c, d}
  Writers = {"w1"}
  Capturers = {}
  Maintainers = {"m1", "m2"}
  Histories <- AllHistories
  PowerLosses = FALSE
  MaxRev = 5
  MaxFaults = 2
INVARIANTS
  TypeOK
PROPERTIES
  AllOrNothing
  PreparedFreezes
  BatchCompletes
CHECK_DEADLOCK FALSE
