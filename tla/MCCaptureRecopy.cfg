CONSTANTS
  Text = {hello, world}
  Image = {}
  Other = {}
  Page = {}
  Nothing = Nothing
  Offer <- Offers
  Enabled = {"text"}
  Dimensions <- SameDimensions
  Workspace = {inbox, work}
  Inbox = inbox
  NoSlot = NoSlot
  NoText = NoText
  RecopyWindow = 5
  DuplicateWindow = 1
  MaxCopies = 4
  MaxTime = 0
  MaxRestarts = 0
  MaxSettings = 0
SPECIFICATION Spec
INVARIANTS
  NoRecopyCaptured
