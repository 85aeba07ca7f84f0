CONSTANTS
  Workspace = {w1}
  Member = {m1, m2}
  Code = {k1}
  HostedBlip = {b1}
  Tags = {plain}
  Daemon = {d1, d2}
  Lifetime = 1
  MaxUses = 1
  MaxSequence = 4
  MaxTime = 0
  MaxCrash = 1
  MaxAsked = 2
  MaxPending = 2
  NoTab = NoTab
  Unanswered = Unanswered
  NoTags = NoTags
  NoWorkspace = NoWorkspace
  NoCode = NoCode
  NoBlip = NoBlip
  NoRequest = NoRequest
  NoSession = NoSession
  Torn = Torn
  Nothing = Nothing
  NoCall = NoCall
  NoReply = NoReply
  Other = Other
SYMMETRY Symmetry
CONSTRAINTS JoinCanSucceed InvitesEditors
SPECIFICATION SystemSpec
INVARIANTS
  RowsTruthful
  NothingSkipped
  SystemInv
