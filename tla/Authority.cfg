SPECIFICATION FairSpec
CONSTANTS
  Off = Off
  None = None
  Missing = Missing
  Corrupt = Corrupt
  Clean = Clean
  p1 = p1
  a1 = a1
  a2 = a2
  u1 = u1
  u2 = u2
  w1 = w1
  w2 = w2
  proc1 = proc1
  proc2 = proc2
  lineage1 = lineage1
  cand1 = cand1
  cand2 = cand2
  cand3 = cand3
  name1 = name1
  name2 = name2
  path1 = path1
  path2 = path2
  lens1 = lens1
  lens2 = lens2
  fine = fine
  severe = severe
  Parts = {"merge", "damage", "defer", "clone", "global", "repair", "race", "graph", "pair", "fork", "capture", "cut", "recapture"}
INVARIANTS
  RecordSound
  SwitchSound
  LineageSound
  GraphSound
  CaptureSound
PROPERTIES
  AuthoritySteps
  AssetsCatchUp
  DamageIsRepairable
  Finalized
CHECK_DEADLOCK FALSE
