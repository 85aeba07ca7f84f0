CONSTANTS
  rawFile = rawFile
  thumbFile = thumbFile
  Ref = {rawFile, thumbFile}
  NoRef = NoRef
  NoText = NoText
  Char = {" ", "...", "a", "b", "c"}
  PreviewChars = 2
  PathLimit = 2
  Workspace = {w1, w2}
  NoWorkspace = NoWorkspace
  Payloads <- CapturedPayloads
  MaxRequests = 1
  MaxChanges = 2
SYMMETRY Symmetry
SPECIFICATION Spec
INVARIANTS
  PayloadInv
  AuditMatchesAnswer
  BytesJustified
  PolicyDecides
  ListingAgrees
  AdvertisedPreviewServed
CHECK_DEADLOCK FALSE
