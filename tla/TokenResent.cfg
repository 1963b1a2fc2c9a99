SPECIFICATION Spec
CONSTANTS
  None = None
  c1 = c1
  c2 = c2
  u = u
  v = v
  e1 = e1
  e2 = e2
INVARIANTS
  TokenNamesAttempt
CHECK_DEADLOCK FALSE
