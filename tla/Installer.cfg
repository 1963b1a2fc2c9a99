SPECIFICATION Spec
CONSTANTS
  Off = Off
  Refused = Refused
  Absent = Absent
  MCP = MCP
  o1 = o1
  u1 = u1
  w1 = w1
  Special = Special
  NoSum = NoSum
  r1 = r1
  s1 = s1
  f1 = f1
  f2 = f2
  Nothing = Nothing
INVARIANTS
  UninstallSound
  IntegrationSound
  PipelineSound
  BackupsSound
  PlanSound
  ScreensSound
PROPERTIES
  InstallerSteps
CHECK_DEADLOCK FALSE
