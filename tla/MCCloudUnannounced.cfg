CONSTANTS
  Workspace = {w1}
  Code = {k1}
  HostedBlip = {b1, b2}
  Tags = {plain}
  Lifetime = 1
  MaxUses = 1
  MaxSequence = 4
  MaxTime = 0
  MaxCrash = 1
  NoTags = NoTags
  NoWorkspace = NoWorkspace
  NoCode = NoCode
  NoBlip = NoBlip
  NoRequest = NoRequest
  Member = {m1, m2, m3}
SYMMETRY Symmetry
SPECIFICATION Spec
INVARIANTS
  BlipsAnnounced
