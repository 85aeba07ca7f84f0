---------------------------- MODULE CloudProperties ----------------------------
(***************************************************************************)
(* What the hosted service promises: the properties TLC checks in MCCloud   *)
(* and TLAPS proves in CloudProofs.                                         *)
(***************************************************************************)
EXTENDS CloudService

TypeOK ==
  /\ lastSequence \in [Workspace -> Nat \cup {Absent}]
  /\ memberOf \in [Member -> Workspace \cup {NoWorkspace}]
  /\ role \in [Member -> Role]
  /\ sessions \subseteq Member
  /\ codes \in [Code -> CodeRow \cup {NoCode}]
  /\ \A k \in Code : codes[k] # NoCode => codes[k].uses <= codes[k].max
  /\ blips \in [HostedBlip -> BlipRow \cup {NoBlip}]
  /\ pc \in Statement
  /\ request \in [ws : Workspace, change : Change] \cup {NoRequest}
  /\ newRole \in Role
  /\ credentials \subseteq Member
  /\ now \in Nat
  /\ crashes \in Nat
  /\ DOMAIN events = Workspace
  /\ \A w \in Workspace : \A i \in DOMAIN events[w] : events[w][i] \in Change

\* A member who asks for the events after the last number it has seen misses
\* none and sees none twice, whatever requests and crashes come in between: an
\* event stays as it is once it is in the feed, and one that is added has a
\* larger number than all that were there ("lower or equal sequence values are
\* replay and should be ignored", site/docs/architecture/hosted-sync-protocol.md).
FeedOnlyGrows ==
  [][\A w \in Workspace :
       /\ \A i \in DOMAIN events[w] : i \in DOMAIN events'[w] /\ events'[w][i] = events[w][i]
       /\ \A i \in DOMAIN events'[w] \ DOMAIN events[w] :
            \A j \in DOMAIN events[w] : j < i]_vars

\* No workspace ever has more members than its creator and the uses its codes
\* were given, however many joins race for a code and wherever they are cut
\* short: the use is counted before the member exists.
MembersOf(w) == {m \in Member : memberOf[m] = w}
Invitations(w) == {k \in Code : codes[k] # NoCode /\ codes[k].ws = w}
SeatsGiven(w) == UNION {{k} \X (1..codes[k].max) : k \in Invitations(w)}
SeatsTaken(w) == UNION {{k} \X (1..codes[k].uses) : k \in Invitations(w)}
JoinsWithinInvitations ==
  \A w \in Workspace :
    /\ Cardinality(MembersOf(w)) <= 1 + Cardinality(SeatsTaken(w))
    /\ SeatsTaken(w) \subseteq SeatsGiven(w)

\* The feed of a workspace tells of its own members acting on its own rows:
\* every event has an actor and a target that belong to the workspace, although
\* blips and codes are looked up by identities that span all workspaces, and an
\* actor whose role allows it.
BelongsTo(w, x) ==
  \/ x = w
  \/ x \in Member /\ memberOf[x] = w
  \/ x \in Code /\ codes[x] # NoCode /\ codes[x].ws = w
  \/ x \in HostedBlip /\ blips[x] # NoBlip /\ blips[x].ws = w
Proper(w, e) ==
  /\ memberOf[e.actor] = w
  /\ BelongsTo(w, e.target)
  /\ e.type = "join_code_created" => role[e.actor] = "owner"
  /\ e.type \in {"blip_published", "blip_tags_updated"} => role[e.actor] # "viewer"
FeedStaysInWorkspace ==
  \A w \in Workspace : \A i \in DOMAIN events[w] : Proper(w, events[w][i])

\* Between requests, and if none was ever cut short, the tags of a blip are what
\* the last tags event about it says: a member who replays the feed ends up with
\* the tags that get_blip returns.
TagsRows(w, b) ==
  {i \in DOMAIN events[w] : events[w][i].type = "blip_tags_updated" /\ events[w][i].target = b}
TagsMatchFeed ==
  pc = "idle" /\ crashes = 0 =>
    \A b \in HostedBlip : blips[b] # NoBlip =>
      LET rows == TagsRows(blips[b].ws, b) IN
      \A i \in rows : (\A j \in rows : j <= i) => events[blips[b].ws][i].tags = blips[b].tags

\* Between requests every blip row has the event that announces it, with the
\* number the row carries ("committing a state change and assigning its sequence
\* is transactional", site/docs/architecture/hosted-sync-protocol.md).
BlipsAnnounced ==
  pc = "idle" =>
    \A b \in HostedBlip : blips[b] # NoBlip =>
      \E i \in DOMAIN events[blips[b].ws] :
        /\ i = blips[b].sequence
        /\ events[blips[b].ws][i].type = "blip_published"
        /\ events[blips[b].ws][i].target = b

-----------------------------------------------------------------------------
(* The inductive invariant behind FeedOnlyGrows and FeedStaysInWorkspace *)

\* Rows refer to workspaces that have a row, and sessions to members; only a
\* member whose client has its token is present.
RowsInv ==
  /\ presence \subseteq credentials
  /\ credentials \subseteq sessions
  /\ \A m \in sessions : memberOf[m] \in Workspace
  /\ \A m \in Member : memberOf[m] \in Workspace => lastSequence[memberOf[m]] # Absent
  /\ \A k \in Code : codes[k] # NoCode => lastSequence[codes[k].ws] # Absent

\* The request in progress is about a workspace that has a row; a member it is
\* about to insert has none, and in all other cases its event is a proper one;
\* a new member has a session before it is announced.
RequestInv ==
  pc # "idle" =>
    /\ request \in [ws : Workspace, change : Change]
    /\ lastSequence[request.ws] # Absent
    /\ pc = "member" =>
         /\ memberOf[request.change.actor] = NoWorkspace
         /\ request.change.type \in {"workspace_created", "member_joined"}
         /\ request.change.target \in {request.ws, request.change.actor}
    /\ pc # "member" => Proper(request.ws, request.change)
    /\ pc \in {"number", "announce"} /\ request.change.type \in {"workspace_created", "member_joined"}
         => request.change.actor \in sessions

\* No event has a number that was not taken, and the number the request in
\* progress has taken is free.
NumbersInv ==
  /\ \A w \in Workspace : \A i \in DOMAIN events[w] :
       i \in Nat /\ 1 <= i /\ i <= lastSequence[w]
  /\ pc = "announce" => /\ 1 <= lastSequence[request.ws]
                        /\ lastSequence[request.ws] \notin DOMAIN events[request.ws]

CloudInv == TypeOK /\ RowsInv /\ RequestInv /\ NumbersInv /\ FeedStaysInWorkspace

-----------------------------------------------------------------------------
\* What the request in progress has made and not announced yet.
Unannounced ==
  IF pc = "idle" THEN {}
  ELSE CASE request.change.type \in {"workspace_created", "member_joined"} ->
              {request.change.actor}
         [] request.change.type \in {"join_code_created", "blip_published"} ->
              {request.change.target}
         [] OTHER -> {}

Rows(w) ==
  MembersOf(w)
  \cup {k \in Code : codes[k] # NoCode /\ codes[k].ws = w}
  \cup {b \in HostedBlip : blips[b] # NoBlip /\ blips[b].ws = w}

\* As long as no request has been cut short, the tables hold what the feed announces
\* and nothing else, and a blip carries the number of its announcement.
items == [w \in Workspace |-> Rows(w) \ Unannounced]
numbers == {<<b, blips[b].sequence>> : b \in {c \in HostedBlip : blips[c] # NoBlip} \ Unannounced}
Feed == INSTANCE HostedFeed WITH feed <- events
FeedSpec == Feed!Init /\ [][crashes' = 0 => Feed!Next]_(Feed!vars)
=============================================================================
