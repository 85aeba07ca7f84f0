CONSTANTS
  Text = {hello, world}
  Image = {photo}
  Other = {files, page}
  Page = {page}
  Nothing = Nothing
  Offer <- Offers
  Enabled = {"file_list", "text", "image"}
  Dimensions <- SameDimensions
  Workspace = {inbox, work}
  Inbox = inbox
  NoSlot = NoSlot
  NoText = NoText
  RecopyWindow = 0
  DuplicateWindow = 0
  MaxCopies = 3
  MaxTime = 1
  MaxRestarts = 1
  MaxSettings = 1
SPECIFICATION Spec
INVARIANTS
  CapturedOncePerRun
  NoRapidDuplicates
  CapturedAsSet
  RecopyNotCaptured
  CaptureInv
PROPERTIES
  TextNeverLost
