CONSTANTS
  inbox = inbox
  work = work
  p0 = p0
  p1 = p1
  b1 = b1
  b2 = b2
  Workspace <- MCWorkspace
  Inbox = inbox
  Blip = {b1, b2}
  Policy <- MCPolicy
  DefaultPolicy = p0
  Request <- MCRequest
  Fingerprint = {"text:a", "image:1x1"}
  Window = 1
  NoWorkspace = NoWorkspace
  NoBlip = NoBlip
  NoDetail = NoDetail
  NoSuppression = NoSuppression
  MaxTime = 2
  MaxAudit = 6
SYMMETRY BlipSymmetry
SPECIFICATION Spec
INVARIANTS
  TypeOK
  ReferencesResolve
  AuditExplainsPlacement
  SettingsMatchAudit
  AgentReadsAuthorized
PROPERTIES
  RouteLatestTakesNewest
  CleanupIsExact
  LedgerSpec
