SPECIFICATION Spec
CONSTANTS
  p1 = p1
  p2 = p2
  genesis = genesis
  fix = fix
  bigfix = bigfix
  stray = stray
  NoCandidate = NoCandidate
  NoReceipt = NoReceipt
  NoRequest = NoRequest
  Genesis = genesis
  Fixes <- OneFix
  Strays <- MCStrays
  Budget = 1
  FixSize <- MCFixSize
  Finalizers = {p1}
  Requests <- AllRequests
  MaxReopens = 1
  MaxAborts = 1
INVARIANTS
  TypeOK
  ApprovalEarned
  PlanAdmissible
  CompletedIsPublished
  RecordDescribesPayload
PROPERTIES
  ImplementsAuthority
  RevisionsNeverRecur
  GateAllowSound
ACTION_CONSTRAINTS LookedAt GateOrCapture
CHECK_DEADLOCK FALSE
