------------------------------ MODULE PayloadAccess ------------------------------
(***************************************************************************)
(* get_payload_preview and export_payload of the daemon: from the lookup of *)
(* the payload to the audit row and the answer (payload_bytes_response of   *)
(* blip-daemon with the store and blob operations it calls).                *)
(*                                                                          *)
(* The daemon serves one request at a time, but nothing is locked between   *)
(* two of its reads: another process on the same database moves or deletes  *)
(* the blip and changes the policy of a workspace, and a file can disappear *)
(* or be damaged at any moment.  So each call of the store or of the blob   *)
(* directory is a step, and any of them may fail.                           *)
(*                                                                          *)
(* One blip with one payload is modelled; a workspace without a policy row  *)
(* has the default policy.  Bytes, names and MIME types are left out, and   *)
(* is_redacted, which these two commands do not look at.                    *)
(***************************************************************************)
EXTENDS PayloadSummaries

CONSTANTS Workspace, NoWorkspace,
          Payloads,     \* the payload rows a capture can have stored
          MaxRequests, MaxChanges

Requester == {"cli", "desktop", "agent"}
Request == [requester : Requester, access : {"preview", "raw"}]
Policy == [visibility : Visibility, raw : BOOLEAN]
FileState == {"absent", "whole", "large", "damaged"}

ASSUME WorkspaceAssumption == NoWorkspace \notin Workspace
ASSUME PayloadAssumption == \A p \in Payloads : p \in TextRows \cup BlobRows \cup MetadataRows
ASSUME BoundAssumption == MaxRequests \in Nat /\ MaxChanges \in Nat

VARIABLES
  payload,           \* the row in blip_payloads
  place,             \* the blip's workspace, NoWorkspace once it is deleted
  agentAccess,       \* workspaces.agent_access
  policy,            \* workspace_policies
  file,              \* the state of each file of the blob directory
  audit,             \* the payload access rows of audit_events
  pc,                \* the call the daemon makes next
  request, outcome,
  ws,                \* the workspace of the blip as it was read
  moments,           \* history: the database as it was during the request
  mark,              \* history: the rows of audit before the request
  requests, changes

shared == <<place, agentAccess, policy, file>>
history == <<moments, mark>>
vars == <<payload, shared, audit, pc, request, outcome, ws, history, requests, changes>>

Lookup == {"payload", "blip"}
Check == {"visibility", "agent", "grant"}
Access == {"stat", "read", "record"}

\* WorkspacePolicy::default_for_workspace
DefaultPolicy == [visibility |-> "safe_preview", raw |-> FALSE]
Moment == [place |-> place, agentAccess |-> agentAccess, policy |-> policy, file |-> file]

\* The files of a payload were written before its row; thumbnails are small.
StoredFiles(p) ==
  {f \in [Ref -> {"absent", "whole", "large"}] :
     \A r \in Ref : /\ r = p.thumb => f[r] = "whole"
                    /\ r = p.raw => f[r] # "absent"
                    /\ r \notin {p.raw, p.thumb} => f[r] = "absent"}

Init ==
  /\ payload \in Payloads
  /\ place \in Workspace
  /\ agentAccess \in [Workspace -> BOOLEAN]
  /\ policy = [w \in Workspace |-> DefaultPolicy]
  /\ file \in StoredFiles(payload)
  /\ audit = << >>
  /\ pc = "idle"
  /\ request \in {[requester |-> "cli", access |-> "preview"]}
  /\ outcome = "none"
  /\ ws = NoWorkspace
  /\ moments = {}
  /\ mark = 0
  /\ requests = 0 /\ changes = 0

At(call) == pc = call
Goto(call) == pc' = call /\ UNCHANGED outcome
Answer(result) == pc' = "answered" /\ outcome' = result
\* An outcome that gets an audit row before it is answered.
Conclude(result) == pc' = "record" /\ outcome' = result

Serving ==
  UNCHANGED <<payload, shared, request, history, requests, changes>>

-----------------------------------------------------------------------------
(* The request *)

Ask(r) ==
  /\ At("idle")
  /\ requests < MaxRequests
  /\ Goto("payload")
  /\ request' = r
  /\ moments' = {Moment}
  /\ mark' = Len(audit)
  /\ requests' = requests + 1
  /\ UNCHANGED <<payload, shared, audit, ws, changes>>

\* payload_context: get_payload, then get_blip.
GetPayload ==
  /\ At("payload")
  /\ IF place = NoWorkspace THEN Answer("not_found") ELSE Goto("blip")
  /\ UNCHANGED <<ws, audit>> /\ Serving

GetBlip ==
  /\ At("blip")
  /\ IF place = NoWorkspace
     THEN Answer("not_found") /\ UNCHANGED ws
     ELSE /\ Goto(IF request.requester = "agent" THEN "agent" ELSE "visibility")
          /\ ws' = place
  /\ UNCHANGED audit /\ Serving

\* Mutant: a hidden payload can be exported.
CheckVisibilityOfPreview ==
  /\ At("visibility")
  /\ IF request.access = "preview" /\ policy[ws].visibility # "safe_preview"
     THEN Conclude("access_denied")
     ELSE Goto(IF request.access = "preview" THEN "stat" ELSE "agent")
  /\ UNCHANGED <<ws, audit>> /\ Serving

\* require_payload_byte_access, for the CLI and the desktop application.
CheckVisibility ==
  LET v == policy[ws].visibility IN
  /\ At("visibility")
  /\ IF \/ request.access = "preview" /\ v # "safe_preview"
        \/ request.access = "raw" /\ v = "hidden"
     THEN Conclude("access_denied")
     ELSE Goto(IF request.access = "preview" THEN "stat" ELSE "agent")
  /\ UNCHANGED <<ws, audit>> /\ Serving

\* require_agent_raw_payload_access: get_workspace, then get_workspace_policy.
CheckAgentAccess ==
  /\ At("agent")
  /\ IF agentAccess[ws] THEN Goto("grant") ELSE Conclude("access_denied")
  /\ UNCHANGED <<ws, audit>> /\ Serving

\* Mutant: the policy of the workspace the blip is in by now decides.
CheckGrantElsewhere ==
  /\ At("grant")
  /\ IF place = NoWorkspace \/ policy[place].raw
     THEN Goto("stat") ELSE Conclude("access_denied")
  /\ UNCHANGED <<ws, audit>> /\ Serving

CheckGrant ==
  /\ At("grant")
  /\ IF policy[ws].raw THEN Goto("stat") ELSE Conclude("access_denied")
  /\ UNCHANGED <<ws, audit>> /\ Serving

BlobRef == IF request.access = "preview" THEN payload.thumb ELSE payload.raw

\* Mutant: a missing file is answered at once.
StatUnrecorded ==
  /\ At("stat")
  /\ IF BlobRef = NoRef THEN Conclude("unsupported_payload")
     ELSE IF file[BlobRef] = "absent" THEN Answer("missing_blob")
     ELSE IF file[BlobRef] = "large" THEN Conclude("payload_too_large")
     ELSE Goto("read")
  /\ UNCHANGED <<ws, audit>> /\ Serving

Stat ==
  /\ At("stat")
  /\ IF BlobRef = NoRef THEN Conclude("unsupported_payload")
     ELSE IF file[BlobRef] = "absent" THEN Conclude("missing_blob")
     ELSE IF file[BlobRef] = "large" THEN Conclude("payload_too_large")
     ELSE Goto("read")
  /\ UNCHANGED <<ws, audit>> /\ Serving

\* LocalBlobStore::read fails for a file that is gone by now or damaged.
Read ==
  /\ At("read")
  /\ IF file[BlobRef] = "whole" THEN Conclude("bytes")
     ELSE Answer("store_unavailable")
  /\ UNCHANGED <<ws, audit>> /\ Serving

Decision(result) ==
  CASE result = "bytes" -> "allowed"
    [] result = "missing_blob" -> "missing_blob"
    [] OTHER -> "denied"

AccessEvent(r) ==
  CASE r.access = "preview" -> "payload_preview_read"
    [] r.access = "raw" /\ r.requester = "agent" -> "agent_payload_read"
    [] r.access = "raw" /\ r.requester # "agent" -> "payload_raw_exported"

\* audit_payload_access: the row refers to the blip, and is refused without it.
Record ==
  /\ At("record")
  /\ IF place = NoWorkspace
     THEN Answer("store_unavailable") /\ UNCHANGED audit
     ELSE /\ Answer(outcome)
          /\ audit' = Append(audit, [event |-> AccessEvent(request), actor |-> request.requester,
                                     ws |-> ws, decision |-> Decision(outcome)])
  /\ UNCHANGED ws /\ Serving

\* A call of the store or of the file system fails: while the policy is
\* checked this counts as a refusal and gets a row.
FailLookup ==
  /\ pc \in Lookup \cup Access
  /\ Answer("store_unavailable")
  /\ UNCHANGED <<ws, audit>> /\ Serving
FailCheck ==
  /\ pc \in Check
  /\ Conclude("store_unavailable")
  /\ UNCHANGED <<ws, audit>> /\ Serving

\* The answer is sent, or the daemon dies and the request with it.
Finish ==
  /\ pc = "answered"
  /\ pc' = "idle" /\ outcome' = "none" /\ ws' = NoWorkspace
  /\ moments' = {} /\ mark' = Len(audit)
  /\ UNCHANGED <<payload, shared, audit, request, requests, changes>>
Crash ==
  /\ pc \notin {"idle", "answered"}
  /\ changes < MaxChanges /\ changes' = changes + 1
  /\ pc' = "idle" /\ outcome' = "none" /\ ws' = NoWorkspace
  /\ moments' = {} /\ mark' = Len(audit)
  /\ UNCHANGED <<payload, shared, audit, request, requests>>

Serve ==
  \/ GetPayload \/ GetBlip \/ CheckVisibility \/ CheckAgentAccess \/ CheckGrant
  \/ Stat \/ Read \/ Record \/ FailLookup \/ FailCheck

-----------------------------------------------------------------------------
(* Another process on the database, and the blob directory *)

Meanwhile ==
  /\ changes < MaxChanges /\ changes' = changes + 1
  /\ moments' = IF pc = "idle" THEN moments ELSE moments \cup {Moment'}
  /\ UNCHANGED <<payload, audit, pc, request, outcome, ws, mark, requests>>

MoveBlip(w) ==
  /\ place # NoWorkspace
  /\ place' = w
  /\ UNCHANGED <<agentAccess, policy, file>> /\ Meanwhile
DeleteBlip ==
  /\ place # NoWorkspace
  /\ place' = NoWorkspace
  /\ UNCHANGED <<agentAccess, policy, file>> /\ Meanwhile
SetAgentAccess(w, enabled) ==
  /\ agentAccess' = [agentAccess EXCEPT ![w] = enabled]
  /\ UNCHANGED <<place, policy, file>> /\ Meanwhile
SetWorkspacePolicy(w, p) ==
  /\ policy' = [policy EXCEPT ![w] = p]
  /\ UNCHANGED <<place, agentAccess, file>> /\ Meanwhile
SpoilFile(r, state) ==
  /\ file[r] # "absent"
  /\ file' = [file EXCEPT ![r] = state]
  /\ UNCHANGED <<place, agentAccess, policy>> /\ Meanwhile

Others ==
  \/ \E w \in Workspace :
       \/ MoveBlip(w)
       \/ \E enabled \in BOOLEAN : SetAgentAccess(w, enabled)
       \/ \E p \in Policy : SetWorkspacePolicy(w, p)
  \/ DeleteBlip
  \/ \E r \in Ref, state \in {"absent", "damaged"} : SpoilFile(r, state)

Next == (\E r \in Request : Ask(r)) \/ Serve \/ Finish \/ Crash \/ Others
Spec == Init /\ [][Next]_vars
=============================================================================
