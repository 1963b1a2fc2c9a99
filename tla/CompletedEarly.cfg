SPECIFICATION Spec
CONSTANTS
  p1 = p1
  p2 = p2
  genesis = genesis
  fix = fix
  bigfix = bigfix
  stray = stray
  NoCandidate = NoCandidate
  NoReceipt = NoReceipt
  NoRequest = NoRequest
  Genesis = genesis
  Fixes <- OneFix
  Strays <- MCStrays
  Budget = 1
  FixSize <- MCFixSize
  Finalizers = {p1, p2}
  Requests <- ReceiptRace
  MaxReopens = 0
  MaxAborts = 1
INVARIANTS
  CompletedIsPublished
SYMMETRY FinalizerSymmetry
ACTION_CONSTRAINT NoEdits
CHECK_DEADLOCK FALSE
