SPECIFICATION Spec
CONSTANTS
  inbox = inbox
  w1 = w1
  b1 = b1
  b2 = b2
  Workspace = {inbox, w1}
  Inbox = inbox
  Blip = {b1, b2}
  Type = {"text", "code"}
  TypeOf <- SmallTypes
  All = All
  PerPage = 1
  Failed = Failed
  Start <- SmallStart
  MaxVersion = 1
  NoWorkspace = NoWorkspace
  NoBlip = NoBlip
  Pending = Pending
  Filters <- SmallFilters
  MaxEvents = 2
INVARIANTS DesktopInv
 
CHECK_DEADLOCK FALSE
