CONSTANTS
  photo = photo
  screenshot = screenshot
  thumb = thumb
  Proc = {d1, d2, d3}
  Blip = {b1, b2, b3}
  Ref = {photo, screenshot, thumb}
  Preview <- MCPreview
  NoProc = NoProc
  NoBlip = NoBlip
  NoRef = NoRef
  MaxCrash = 2

SYMMETRY Symmetry
SPECIFICATION Spec
INVARIANTS
  RawFilesPresent
  BlobInv
  FilesAccounted
PROPERTIES
  UnlinkOnlyUnreferenced
