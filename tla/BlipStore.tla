------------------------------ MODULE BlipStore ------------------------------
(***************************************************************************)
(* The SQLite store of blip-core (src/crates/blip-core/src/store.rs): the   *)
(* tables workspaces, workspace_policies, blips, app_state and              *)
(* audit_events, and every operation that writes them.                      *)
(*                                                                          *)
(* Each operation of the store is one IMMEDIATE transaction: SQLite admits  *)
(* one writer at a time, a transaction that fails changes nothing, and      *)
(* with_busy_retry repeats only transactions that changed nothing.  So each *)
(* action below is one operation, whoever calls it (capture loop, IPC       *)
(* thread or a CLI that opens the database itself), and its audit row is    *)
(* written in the same step.  Descriptions, colours, tags, contents and     *)
(* text payloads are not modelled; blob payloads are in BlobLifecycle.      *)
(*                                                                          *)
(* A day of retention and a second of suppression are both one tick of      *)
(* "now"; the clock never runs backwards here.                              *)
(***************************************************************************)
EXTENDS Integers, Sequences, FiniteSets

CONSTANTS Workspace,     \* names a workspace can have
          Inbox,         \* the workspace that always exists
          Blip,          \* identities a blip can get (UUIDs)
          Policy,        \* values of a row of workspace_policies
          DefaultPolicy, \* WorkspacePolicy::default_for_workspace
          Request,       \* what a caller of create_workspace may ask for
          Fingerprint,   \* clipboard fingerprints of recopied blips
          Window,        \* life of a pending suppression
          NoWorkspace, NoBlip, NoDetail, NoSuppression,  \* SQL NULL
          MaxTime,       \* bound on the clock
          MaxAudit       \* bound on the length of the audit log

NoRetention == -1
Setting == {"disabled", "enabled"}
CreationRequest == [access : Setting, sticky : Setting, keep : Int]

ASSUME InboxAssumption == Inbox \in Workspace
ASSUME PolicyAssumption == DefaultPolicy \in Policy
ASSUME RequestAssumption == Request \subseteq CreationRequest
\* Both callers of create_workspace (the daemon and the CLI) pass
\* sticky_capture = false.
ASSUME StickyAssumption == \A r \in Request : r.sticky = "disabled"
ASSUME NullAssumption ==
  /\ NoWorkspace \notin Workspace
  /\ NoBlip \notin Blip
  /\ NoSuppression \notin [fingerprint : Fingerprint, expires : Int]
ASSUME DetailAssumption ==
  /\ Policy \cap (Setting \cup Workspace \cup {NoDetail}) = {}
  /\ NoDetail \notin Setting \cup Workspace
ASSUME BoundAssumption == Window \in Nat /\ MaxTime \in Nat /\ MaxAudit \in Nat

\* What the audit log says of one event.  A move's detail is the workspace
\* the blip came from, its target_workspace the one it went to.
EventType ==
  {"workspace_created", "schema_initialized", "workspace_policy_changed",
   "workspace_activated", "sticky_capture_changed", "blip_ingested",
   "blip_recopied", "blip_moved", "blips_read", "payload_accessed",
   "capture_skipped", "hosted_event"}
Detail == Setting \cup Policy \cup Workspace \cup {NoDetail}
AuditRow == [type : EventType, blip : Blip \cup {NoBlip}, ws : Workspace,
             detail : Detail, at : Nat]

VARIABLES
  workspaces,   \* the names in table workspaces
  agentAccess,  \* those with agent_access = 1
  sticky,       \* those with sticky_capture = 1
  retention,    \* retention_days, NoRetention for NULL
  policy,       \* table workspace_policies
  active,       \* app_state 'active_workspace'
  suppression,  \* app_state 'pending_clipboard_suppression'
  place,        \* workspace_name of each live blip, NoWorkspace for the others
  createdAt,    \* created_at
  sortAt,       \* sort_at
  rowid,        \* rowid: the order of insertion
  lastRow,      \* the last rowid given
  issued,       \* identities that were ever given
  audit,        \* table audit_events, in the order of insertion
  now           \* Utc::now()

workspaceVars == <<workspaces, agentAccess, sticky, retention, policy>>
appVars == <<active, suppression>>
blipVars == <<place, createdAt, sortAt, rowid, lastRow, issued>>
vars == <<workspaceVars, appVars, blipVars, audit, now>>

Live == {b \in Blip : place[b] # NoWorkspace}
Opened == Inbox \in workspaces

Row(type, b, w, detail) ==
  [type |-> type, blip |-> b, ws |-> w, detail |-> detail, at |-> now]

\* insert_audit_event, inside the caller's transaction.
Audited(row) ==
  /\ Len(audit) < MaxAudit
  /\ audit' = Append(audit, row)
  /\ UNCHANGED now

-----------------------------------------------------------------------------
Init ==
  /\ workspaces = {} /\ agentAccess = {} /\ sticky = {}
  /\ retention = [w \in Workspace |-> NoRetention]
  /\ policy = [w \in Workspace |-> DefaultPolicy]
  /\ active = NoWorkspace
  /\ suppression = NoSuppression
  /\ place = [b \in Blip |-> NoWorkspace]
  /\ createdAt = [b \in Blip |-> 0]
  /\ sortAt = [b \in Blip |-> 0]
  /\ rowid = [b \in Blip |-> 0]
  /\ lastRow = 0
  /\ issued = {}
  /\ audit = << >>
  /\ now = 0

\* The rows insert_workspace writes besides its audit row.
AddWorkspace(w, r) ==
  /\ workspaces' = workspaces \cup {w}
  /\ agentAccess' = IF r.access = "enabled" THEN agentAccess \cup {w} ELSE agentAccess
  /\ sticky' = IF r.sticky = "enabled" THEN sticky \cup {w} ELSE sticky
  /\ retention' = [retention EXCEPT ![w] = r.keep]
  /\ policy' = [policy EXCEPT ![w] = DefaultPolicy]

\* initialize_once on a new database: the inbox, the active workspace and
\* the schema version appear together.
CreateSchema ==
  /\ ~Opened
  /\ Len(audit) + 2 <= MaxAudit
  /\ AddWorkspace(Inbox, [access |-> "disabled", sticky |-> "disabled",
                          keep |-> NoRetention])
  /\ active' = IF active = NoWorkspace THEN Inbox ELSE active
  /\ audit' = audit \o <<Row("workspace_created", NoBlip, Inbox, NoDetail),
                         Row("schema_initialized", NoBlip, Inbox, NoDetail)>>
  /\ UNCHANGED <<suppression, blipVars, now>>

\* initialize_once on an existing database (every restart, every CLI call):
\* INSERT OR IGNORE and the version check leave it as it was.
Reopen == Opened /\ UNCHANGED vars

\* validate_workspace; NewWorkspace without a number of days has no limit.
ValidWorkspace(r) == r.keep >= 0 \/ r.keep = NoRetention

CreateWorkspace(w, r) ==
  /\ Opened
  /\ ValidWorkspace(r)
  /\ w \notin workspaces
  /\ AddWorkspace(w, r)
  /\ Audited(Row("workspace_created", NoBlip, w, NoDetail))
  /\ UNCHANGED <<appVars, blipVars>>

SetAgentAccess(w, enabled) ==
  /\ w \in workspaces
  /\ agentAccess' = IF enabled = "enabled" THEN agentAccess \cup {w} ELSE agentAccess \ {w}
  /\ Audited(Row("workspace_policy_changed", NoBlip, w, enabled))
  /\ UNCHANGED <<workspaces, sticky, retention, policy, appVars, blipVars>>

SetWorkspacePolicy(w, p) ==
  /\ w \in workspaces
  /\ policy' = [policy EXCEPT ![w] = p]
  /\ Audited(Row("workspace_policy_changed", NoBlip, w, p))
  /\ UNCHANGED <<workspaces, agentAccess, sticky, retention, appVars, blipVars>>

\* Mutant: the workspace is not looked up first.
SetActiveUnchecked(w) ==
  /\ Opened
  /\ active' = w
  /\ Audited(Row("workspace_activated", NoBlip, w, NoDetail))
  /\ UNCHANGED <<workspaceVars, suppression, blipVars>>

SetActiveWorkspace(w) ==
  /\ w \in workspaces
  /\ active' = w
  /\ Audited(Row("workspace_activated", NoBlip, w, NoDetail))
  /\ UNCHANGED <<workspaceVars, suppression, blipVars>>

\* Mutant: enabling leaves the other workspaces as they are.
SetStickyKeepsOthers(w, enabled) ==
  /\ w \in workspaces
  /\ sticky' = IF enabled = "enabled" THEN sticky \cup {w} ELSE sticky \ {w}
  /\ Audited(Row("sticky_capture_changed", NoBlip, w, enabled))
  /\ UNCHANGED <<workspaces, agentAccess, retention, policy, appVars, blipVars>>

\* Enabling clears every other workspace, disabling only this one.
SetStickyCapture(w, enabled) ==
  /\ w \in workspaces
  /\ sticky' = IF enabled = "enabled" THEN {w} ELSE sticky \ {w}
  /\ Audited(Row("sticky_capture_changed", NoBlip, w, enabled))
  /\ UNCHANGED <<workspaces, agentAccess, retention, policy, appVars, blipVars>>

-----------------------------------------------------------------------------
\* Mutant: an identity is given again once its blip is gone.
InsertReusedBlip(b, w) ==
  /\ b \notin Live
  /\ w \in workspaces
  /\ place' = [place EXCEPT ![b] = w]
  /\ createdAt' = [createdAt EXCEPT ![b] = now]
  /\ sortAt' = [sortAt EXCEPT ![b] = now]
  /\ lastRow' = lastRow + 1
  /\ rowid' = [rowid EXCEPT ![b] = lastRow + 1]
  /\ issued' = issued \cup {b}
  /\ Audited(Row("blip_ingested", b, w, NoDetail))
  /\ UNCHANGED <<workspaceVars, appVars>>

InsertBlip(b, w) ==
  /\ b \notin issued
  /\ w \in workspaces
  /\ place' = [place EXCEPT ![b] = w]
  /\ createdAt' = [createdAt EXCEPT ![b] = now]
  /\ sortAt' = [sortAt EXCEPT ![b] = now]
  /\ lastRow' = lastRow + 1
  /\ rowid' = [rowid EXCEPT ![b] = lastRow + 1]
  /\ issued' = issued \cup {b}
  /\ Audited(Row("blip_ingested", b, w, NoDetail))
  /\ UNCHANGED <<workspaceVars, appVars>>

\* The user copies a stored blip again: it becomes the newest of its
\* workspace, and the capture of what comes back is to be suppressed.  There
\* is one slot for the suppression; a second recopy overwrites the first.
PrepareRecopy(b, f) ==
  /\ b \in Live
  /\ sortAt' = [sortAt EXCEPT ![b] = now]
  /\ suppression' = [fingerprint |-> f, expires |-> now + Window]
  /\ Audited(Row("blip_recopied", b, place[b], NoDetail))
  /\ UNCHANGED <<workspaceVars, active, place, createdAt, rowid, lastRow, issued>>

\* consume_clipboard_suppression answers whether this holds.
Suppressed(f) ==
  /\ suppression # NoSuppression
  /\ suppression.expires >= now
  /\ suppression.fingerprint = f

\* A match empties the slot and so does an expired one; a fingerprint that
\* does not match leaves it for a later observation.
ConsumeSuppression(f) ==
  /\ suppression # NoSuppression
  /\ Suppressed(f) \/ suppression.expires < now
  /\ suppression' = NoSuppression
  /\ UNCHANGED <<workspaceVars, active, blipVars, audit, now>>

\* Mutants: a blip that is gone can be moved; the audit row names the
\* workspace the blip comes from.
MovedUnchecked(b, w) ==
  /\ w \in workspaces
  /\ b \in issued
  /\ place' = [place EXCEPT ![b] = w]
  /\ Audited(Row("blip_moved", b, w, place[b]))
  /\ UNCHANGED <<workspaceVars, appVars, createdAt, sortAt, rowid, lastRow, issued>>
MovedLoggedAtSource(b, w) ==
  /\ w \in workspaces
  /\ b \in Live
  /\ place' = [place EXCEPT ![b] = w]
  /\ Audited(Row("blip_moved", b, place[b], w))
  /\ UNCHANGED <<workspaceVars, appVars, createdAt, sortAt, rowid, lastRow, issued>>

\* move_blip_in_transaction
Moved(b, w) ==
  /\ w \in workspaces
  /\ b \in Live
  /\ place' = [place EXCEPT ![b] = w]
  /\ Audited(Row("blip_moved", b, w, place[b]))
  /\ UNCHANGED <<workspaceVars, appVars, createdAt, sortAt, rowid, lastRow, issued>>

MoveBlip(b, w) == Moved(b, w)

\* Mutant: ORDER BY created_at, blind to recopies.
SortsByCreation(b, c) ==
  \/ createdAt[b] > createdAt[c]
  \/ createdAt[b] = createdAt[c] /\ rowid[b] >= rowid[c]

\* ORDER BY COALESCE(sort_at, created_at) DESC, rowid DESC
SortsBefore(b, c) ==
  \/ sortAt[b] > sortAt[c]
  \/ sortAt[b] = sortAt[c] /\ rowid[b] >= rowid[c]

InWorkspace(w) == {b \in Live : place[b] = w}
IsNewestInInbox(b) ==
  /\ b \in InWorkspace(Inbox)
  /\ \A c \in InWorkspace(Inbox) : SortsBefore(b, c)

MoveLatestInboxBlip(w) == \E b \in Blip : IsNewestInInbox(b) /\ Moved(b, w)

-----------------------------------------------------------------------------
\* Mutant: the workspace is looked up, its permission is not.
ReadUnauthorized(w) ==
  /\ w \in workspaces
  /\ Audited(Row("blips_read", NoBlip, w, NoDetail))
  /\ UNCHANGED <<workspaceVars, appVars, blipVars>>

\* Workspace::require_agent_read_access
MayRead(w) == w \in agentAccess

\* list_agent_blips and search_agent_blips: the permission is checked, the
\* rows are read and the read is logged in one transaction.
ReadAgentBlips(w) ==
  /\ w \in workspaces
  /\ MayRead(w)
  /\ Audited(Row("blips_read", NoBlip, w, NoDetail))
  /\ UNCHANGED <<workspaceVars, appVars, blipVars>>

\* record_payload_access_event and record_hosted_event: a transaction of
\* their own, long after the blip was read.  The foreign key on
\* target_blip_id makes them fail when the blip is gone by then.
RecordBlipEvent(type, b, w) ==
  /\ b \in Live
  /\ w \in workspaces
  /\ Audited(Row(type, b, w, NoDetail))
  /\ UNCHANGED <<workspaceVars, appVars, blipVars>>

RecordCaptureSkipped(w) ==
  /\ w \in workspaces
  /\ Audited(Row("capture_skipped", NoBlip, w, NoDetail))
  /\ UNCHANGED <<workspaceVars, appVars, blipVars>>

\* ON DELETE SET NULL: the audit rows stay and forget the blip.
Forget(log, D) ==
  [i \in 1..Len(log) |->
     IF log[i].blip \in D THEN [log[i] EXCEPT !.blip = NoBlip] ELSE log[i]]

RemoveBlips(D) ==
  /\ place' = [b \in Blip |-> IF b \in D THEN NoWorkspace ELSE place[b]]
  /\ audit' = Forget(audit, D)
  /\ UNCHANGED <<workspaceVars, appVars, createdAt, sortAt, rowid, lastRow, issued, now>>

\* delete_blip_and_return_blob_refs_once
DeleteBlip(b) ==
  /\ b \in Live
  /\ RemoveBlips({b})

\* Mutant: created_at <= cutoff.
ExpiredAtCutoff ==
  {b \in Live : /\ retention[place[b]] >= 0
                /\ createdAt[b] <= now - retention[place[b]]}

\* The blips whose workspace limits their life and that were created before
\* its cutoff.
Expired ==
  {b \in Live : /\ retention[place[b]] >= 0
                /\ createdAt[b] < now - retention[place[b]]}

\* delete_expired_blips_and_return_blob_refs_once; no audit row is written.
RetentionCleanup ==
  /\ Expired # {}
  /\ RemoveBlips(Expired)

Tick ==
  /\ Opened
  /\ now < MaxTime
  /\ now' = now + 1
  /\ UNCHANGED <<workspaceVars, appVars, blipVars, audit>>

-----------------------------------------------------------------------------
WorkspaceStep ==
  \/ \E w \in Workspace, r \in Request : CreateWorkspace(w, r)
  \/ \E w \in Workspace, s \in Setting : SetAgentAccess(w, s)
  \/ \E w \in Workspace, p \in Policy : SetWorkspacePolicy(w, p)
  \/ \E w \in Workspace : SetActiveWorkspace(w)
  \/ \E w \in Workspace, s \in Setting : SetStickyCapture(w, s)

BlipStep ==
  \/ \E b \in Blip, w \in Workspace : InsertBlip(b, w)
  \/ \E b \in Blip, f \in Fingerprint : PrepareRecopy(b, f)
  \/ \E f \in Fingerprint : ConsumeSuppression(f)
  \/ \E b \in Blip, w \in Workspace : MoveBlip(b, w)
  \/ \E w \in Workspace : MoveLatestInboxBlip(w)
  \/ \E b \in Blip : DeleteBlip(b)
  \/ RetentionCleanup

ReadStep ==
  \/ \E w \in Workspace : ReadAgentBlips(w)
  \/ \E b \in Blip, w \in Workspace : RecordBlipEvent("payload_accessed", b, w)
  \/ \E b \in Blip, w \in Workspace : RecordBlipEvent("hosted_event", b, w)
  \/ \E w \in Workspace : RecordCaptureSkipped(w)

Next == CreateSchema \/ Reopen \/ WorkspaceStep \/ BlipStep \/ ReadStep \/ Tick

Spec == Init /\ [][Next]_vars
=============================================================================
