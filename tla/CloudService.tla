----------------------------- MODULE CloudService -----------------------------
(***************************************************************************)
(* The hosted workspace service (src/services/cloud/src/lib.rs) with the    *)
(* join codes of blip-sync.                                                 *)
(*                                                                          *)
(* All handlers share one connection behind a mutex and hold it from their  *)
(* first check to their answer, so at most one request is in progress.  But *)
(* no handler opens a transaction: every statement commits by itself, and a *)
(* crash of the process, or a statement that fails, leaves behind what the  *)
(* earlier ones wrote.  So each statement is an action of its own; the      *)
(* checks that precede the first statement belong to its action.            *)
(*                                                                          *)
(* A handler writes its rows, then takes the next number of its workspace,  *)
(* then inserts the event with that number (append_event).  publish_blip    *)
(* stores the number in the blip's row before it takes it.                  *)
(*                                                                          *)
(* Names, contents and retention_days are not modelled; join codes are      *)
(* never revoked because no route revokes them.                             *)
(***************************************************************************)
EXTENDS Integers, Sequences, FiniteSets

CONSTANTS Workspace, Member, Code, HostedBlip,  \* identities rows can get
          Tags,         \* values of tags_json
          NoTags,       \* an event that is not about tags
          NoWorkspace, NoCode, NoBlip, NoRequest,
          Lifetime,     \* time to live of a join code
          MaxUses,      \* bound on the max_uses an owner asks for
          MaxSequence,  \* bound on the length of a feed
          MaxTime, MaxCrash

Role == {"owner", "editor", "viewer"}
Item == Member \cup Code \cup HostedBlip
Change ==
  [type : {"workspace_created", "join_code_created", "member_joined",
           "blip_published", "blip_tags_updated", "blip_accessed"},
   actor : Member, target : Workspace \cup Item, tags : Tags \cup {NoTags}]
\* Rows as the service reads them back.
CodeRow == [ws : Workspace, role : Role, max : Nat, uses : Nat, expires : Nat]
BlipRow == [ws : Workspace, publisher : Member, tags : Tags, sequence : Nat]

ASSUME NullAssumption ==
  /\ NoWorkspace \notin Workspace
  /\ NoTags \notin Tags
  /\ NoCode \notin CodeRow
  /\ NoBlip \notin BlipRow
\* hosted_id puts the kind of the row before its number.
ASSUME IdentityAssumption ==
  /\ Member \cap Code = {} /\ Member \cap HostedBlip = {} /\ Code \cap HostedBlip = {}
  /\ Workspace \cap Item = {}
\* HostedJoinCode::create refuses a code that cannot be used.
ASSUME CodeAssumption == Lifetime \in Nat \ {0} /\ MaxUses \in Nat \ {0}
ASSUME BoundAssumption == MaxSequence \in Nat /\ MaxTime \in Nat /\ MaxCrash \in Nat

VARIABLES
  lastSequence,  \* workspaces.last_sequence, Absent without a row
  memberOf,      \* members.workspace_id
  role,          \* members.role
  sessions,      \* members with a row in device_sessions
  codes,         \* table join_codes
  blips,         \* table blips
  presence,      \* members with a row in presence; when they were last seen only
                 \* orders the list
  events,        \* for each workspace, its events by their number
  pc,            \* the statement the request in progress runs next
  request,       \* that request: its workspace and the event it ends with
  newRole,       \* the role of the member it inserts
  credentials,   \* members whose session token reached a client
  now, crashes

tables == <<lastSequence, memberOf, role, sessions, codes, blips, events>>
vars == <<tables, presence, pc, request, newRole, credentials, now, crashes>>

Absent == -1
Statement == {"idle", "member", "session", "number", "announce"}

Init ==
  /\ lastSequence = [w \in Workspace |-> Absent]
  /\ memberOf = [m \in Member |-> NoWorkspace]
  /\ role = [m \in Member |-> "viewer"]
  /\ sessions = {}
  /\ codes = [k \in Code |-> NoCode]
  /\ blips = [b \in HostedBlip |-> NoBlip]
  /\ presence = {}
  /\ events = [w \in Workspace |-> << >>]
  /\ pc = "idle"
  /\ request = NoRequest
  /\ newRole = "viewer"
  /\ credentials = {}
  /\ now = 0
  /\ crashes = 0

\* member_for_session: a client that holds the token of a member of w.
Authorized(m, w, roles) ==
  /\ m \in credentials
  /\ m \in sessions
  /\ memberOf[m] = w
  /\ role[m] \in roles

\* The mutex is free; what follows belongs to the request in progress.
Begin(w, type, m, target, tags, next) ==
  /\ pc = "idle"
  /\ pc' = next
  /\ request' = [ws |-> w, change |-> [type |-> type, actor |-> m,
                                       target |-> target, tags |-> tags]]
  /\ UNCHANGED <<presence, credentials, now, crashes>>

HasRoom(w) == lastSequence[w] < MaxSequence

-----------------------------------------------------------------------------
(* The first statement of each handler *)

CreateWorkspace(w, m) ==
  /\ lastSequence[w] = Absent
  /\ memberOf[m] = NoWorkspace
  /\ Begin(w, "workspace_created", m, w, NoTags, "member")
  /\ lastSequence' = [lastSequence EXCEPT ![w] = 0]
  /\ newRole' = "owner"
  /\ UNCHANGED <<memberOf, role, sessions, codes, blips, events>>

\* HostedJoinCode::create
NewCode(w, r, uses) == [ws |-> w, role |-> r, max |-> uses, uses |-> 0, expires |-> now + Lifetime]
CreateJoinCode(m, k, r, uses) ==
  LET w == memberOf[m] IN
  /\ Authorized(m, w, {"owner"})
  /\ HasRoom(w)
  /\ codes[k] = NoCode
  /\ Begin(w, "join_code_created", m, k, NoTags, "number")
  /\ codes' = [codes EXCEPT ![k] = NewCode(w, r, uses)]
  /\ UNCHANGED <<lastSequence, memberOf, role, sessions, blips, events, newRole>>

\* HostedJoinCode::redeem, on the row as it was read.
Redeemable(k) ==
  /\ codes[k] # NoCode
  /\ now < codes[k].expires
  /\ codes[k].uses < codes[k].max

\* Mutant: redeem does not count.
JoinUncounted(k, m) ==
  /\ Redeemable(k)
  /\ HasRoom(codes[k].ws)
  /\ memberOf[m] = NoWorkspace
  /\ Begin(codes[k].ws, "member_joined", m, m, NoTags, "member")
  /\ newRole' = codes[k].role
  /\ UNCHANGED tables
JoinWorkspace(k, m) ==
  /\ Redeemable(k)
  /\ HasRoom(codes[k].ws)
  /\ memberOf[m] = NoWorkspace
  /\ Begin(codes[k].ws, "member_joined", m, m, NoTags, "member")
  /\ codes' = [codes EXCEPT ![k].uses = @ + 1]
  /\ newRole' = codes[k].role
  /\ UNCHANGED <<lastSequence, memberOf, role, sessions, blips, events>>

\* Mutant: the number is the one that was taken last.
PublishStaleNumber(m, b, t) ==
  LET w == memberOf[m] IN
  /\ Authorized(m, w, {"owner", "editor"})
  /\ HasRoom(w)
  /\ blips[b] = NoBlip
  /\ Begin(w, "blip_published", m, b, NoTags, "number")
  /\ blips' = [blips EXCEPT ![b] = [ws |-> w, publisher |-> m, tags |-> t,
                                    sequence |-> lastSequence[w]]]
  /\ UNCHANGED <<lastSequence, memberOf, role, sessions, codes, events, newRole>>

PublishBlip(m, b, t) ==
  LET w == memberOf[m] IN
  /\ Authorized(m, w, {"owner", "editor"})
  /\ HasRoom(w)
  /\ blips[b] = NoBlip
  /\ Begin(w, "blip_published", m, b, NoTags, "number")
  /\ blips' = [blips EXCEPT ![b] = [ws |-> w, publisher |-> m, tags |-> t,
                                    sequence |-> lastSequence[w] + 1]]
  /\ UNCHANGED <<lastSequence, memberOf, role, sessions, codes, events, newRole>>

\* Mutants: the blip is not looked up in the member's workspace; the tags are
\* announced and not written.
UpdateTagsAnywhere(m, b, t) ==
  LET w == memberOf[m] IN
  /\ Authorized(m, w, {"owner", "editor"})
  /\ HasRoom(w)
  /\ blips[b] # NoBlip
  /\ Begin(w, "blip_tags_updated", m, b, t, "number")
  /\ blips' = [blips EXCEPT ![b].tags = t]
  /\ UNCHANGED <<lastSequence, memberOf, role, sessions, codes, events, newRole>>
UpdateTagsUnwritten(m, b, t) ==
  LET w == memberOf[m] IN
  /\ Authorized(m, w, {"owner", "editor"})
  /\ HasRoom(w)
  /\ blips[b] # NoBlip /\ blips[b].ws = w
  /\ Begin(w, "blip_tags_updated", m, b, t, "number")
  /\ UNCHANGED <<tables, newRole>>

UpdateBlipTags(m, b, t) ==
  LET w == memberOf[m] IN
  /\ Authorized(m, w, {"owner", "editor"})
  /\ HasRoom(w)
  /\ blips[b] # NoBlip /\ blips[b].ws = w
  /\ Begin(w, "blip_tags_updated", m, b, t, "number")
  /\ blips' = [blips EXCEPT ![b].tags = t]
  /\ UNCHANGED <<lastSequence, memberOf, role, sessions, codes, events, newRole>>

\* record_blip_access_event has no row of its own: it begins with the number.
RecordAccess(m, b) ==
  LET w == memberOf[m] IN
  /\ Authorized(m, w, Role)
  /\ HasRoom(w)
  /\ blips[b] # NoBlip /\ blips[b].ws = w
  /\ Begin(w, "blip_accessed", m, b, NoTags, "announce")
  /\ lastSequence' = [lastSequence EXCEPT ![w] = @ + 1]
  /\ UNCHANGED <<memberOf, role, sessions, codes, blips, events, newRole>>

-----------------------------------------------------------------------------
(* The statements that follow *)

InsertMember ==
  /\ pc = "member"
  /\ pc' = "session"
  /\ memberOf' = [memberOf EXCEPT ![request.change.actor] = request.ws]
  /\ role' = [role EXCEPT ![request.change.actor] = newRole]
  /\ UNCHANGED <<lastSequence, sessions, codes, blips, events, request, newRole,
                 presence, credentials, now, crashes>>

InsertSession ==
  /\ pc = "session"
  /\ pc' = "number"
  /\ sessions' = sessions \cup {request.change.actor}
  /\ UNCHANGED <<lastSequence, memberOf, role, codes, blips, events, request, newRole,
                 presence, credentials, now, crashes>>

\* Mutant: the number is not written back.
TakeNoNumber ==
  /\ pc = "number"
  /\ pc' = "announce"
  /\ UNCHANGED <<tables, presence, request, newRole, credentials, now, crashes>>

\* UPDATE workspaces SET last_sequence
TakeNumber ==
  /\ pc = "number"
  /\ pc' = "announce"
  /\ lastSequence' = [lastSequence EXCEPT ![request.ws] = @ + 1]
  /\ UNCHANGED <<memberOf, role, sessions, codes, blips, events, request, newRole,
                 presence, credentials, now, crashes>>

\* insert_event_with_sequence, then the answer, which may not arrive: only
\* the answer to a new member carries the token of its session.
Numbered(log, n, change) ==
  [i \in DOMAIN log \cup {n} |-> IF i = n THEN change ELSE log[i]]
InsertEvent ==
  /\ pc = "announce"
  /\ pc' = "idle"
  /\ events' = [events EXCEPT ![request.ws] =
                  Numbered(@, lastSequence[request.ws], request.change)]
  /\ credentials' \in
       {credentials} \cup
       (IF request.change.type \in {"workspace_created", "member_joined"}
        THEN {credentials \cup {request.change.actor}} ELSE {})
  /\ request' = NoRequest
  /\ UNCHANGED <<lastSequence, memberOf, role, sessions, codes, blips, presence, newRole, now,
                 crashes>>

\* The process dies, or a statement fails and the handler returns its error.
CutShort ==
  /\ pc # "idle"
  /\ crashes < MaxCrash
  /\ pc' = "idle"
  /\ request' = NoRequest
  /\ crashes' = crashes + 1
  /\ UNCHANGED <<tables, presence, newRole, credentials, now>>

-----------------------------------------------------------------------------
(* Requests of a single statement, and those that change nothing *)

PresenceHeartbeat(m) ==
  /\ pc = "idle"
  /\ Authorized(m, memberOf[m], Role)
  /\ presence' = presence \cup {m}
  /\ UNCHANGED <<tables, pc, request, newRole, credentials, now, crashes>>

\* Anybody can ask for the workspaces.
ListWorkspaces == pc = "idle" /\ UNCHANGED vars
\* list_blips, get_blip, list_events and list_presence
ReadAs(m) == pc = "idle" /\ Authorized(m, memberOf[m], Role) /\ UNCHANGED vars
\* The audit event of a failed redemption goes into the error and is not kept.
RefuseJoin(k) == pc = "idle" /\ codes[k] # NoCode /\ ~Redeemable(k) /\ UNCHANGED vars
Query ==
  \/ ListWorkspaces
  \/ \E m \in Member : ReadAs(m)
  \/ \E k \in Code : RefuseJoin(k)

Tick ==
  /\ now < MaxTime
  /\ now' = now + 1
  /\ UNCHANGED <<tables, presence, pc, request, newRole, credentials, crashes>>

-----------------------------------------------------------------------------
Handle ==
  \/ \E w \in Workspace, m \in Member : CreateWorkspace(w, m)
  \/ \E m \in Member, k \in Code, r \in Role, uses \in 1..MaxUses :
       CreateJoinCode(m, k, r, uses)
  \/ \E k \in Code, m \in Member : JoinWorkspace(k, m)
  \/ \E m \in Member, b \in HostedBlip, t \in Tags : PublishBlip(m, b, t)
  \/ \E m \in Member, b \in HostedBlip, t \in Tags : UpdateBlipTags(m, b, t)
  \/ \E m \in Member, b \in HostedBlip : RecordAccess(m, b)

Proceed == InsertMember \/ InsertSession \/ TakeNumber \/ InsertEvent

Heartbeat == \E m \in Member : PresenceHeartbeat(m)

Next == Handle \/ Proceed \/ Heartbeat \/ Query \/ CutShort \/ Tick

Spec == Init /\ [][Next]_vars
=============================================================================
