CONSTANTS
  Workspace = {w1, w2}
  Code = {k1}
  HostedBlip = {b1}
  Tags = {plain, bug}
  Lifetime = 1
  MaxUses = 2
  MaxSequence = 4
  MaxTime = 1
  MaxCrash = 1
  NoTags = NoTags
  NoWorkspace = NoWorkspace
  NoCode = NoCode
  NoBlip = NoBlip
  NoRequest = NoRequest
  Member = {m1, m2, m3}
SYMMETRY Symmetry
SPECIFICATION Spec
INVARIANTS
  FeedStaysInWorkspace
  TagsMatchFeed
  JoinsWithinInvitations
  CloudInv
PROPERTIES
  FeedOnlyGrows
  FeedSpec
