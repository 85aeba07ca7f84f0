CONSTANTS
  photo = photo
  screenshot = screenshot
  thumb = thumb
  Proc = {d1, d2}
  Blip = {b1, b2}
  Ref = {photo, screenshot, thumb}
  Preview <- MCPreview
  NoProc = NoProc
  NoBlip = NoBlip
  NoRef = NoRef
  MaxCrash = 0
SYMMETRY Symmetry
SPECIFICATION ShippedSpec
INVARIANTS
  PreviewFilesPresent
