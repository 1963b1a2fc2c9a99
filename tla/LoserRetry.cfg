SPECIFICATION Spec
CONSTANTS
  p1 = p1
  p2 = p2
  genesis = genesis
  fix = fix
  bigfix = bigfix
  stray = stray
  NoCandidate = NoCandidate
  NoReceipt = NoReceipt
  NoRequest = NoRequest
  Genesis = genesis
  Fixes <- OneFix
  Strays <- MCStrays
  Budget = 2
  FixSize <- MCFixSize
  Finalizers = {p1, p2}
  Requests <- ForecastRace
  MaxReopens = 0
  MaxAborts = 0
INVARIANTS
  LoserCanRetry
SYMMETRY FinalizerSymmetry
CHECK_DEADLOCK FALSE
