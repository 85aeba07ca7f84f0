-------------------------- MODULE BlipStoreProperties --------------------------
(***************************************************************************)
(* What BlipStore promises: the properties TLC checks in MCBlipStore and    *)
(* TLAPS proves in BlipStoreProofs.                                         *)
(***************************************************************************)
EXTENDS BlipStore

TypeOK ==
  /\ workspaces \subseteq Workspace
  /\ agentAccess \subseteq Workspace
  /\ sticky \subseteq Workspace
  /\ retention \in [Workspace -> Int]
  /\ policy \in [Workspace -> Policy]
  /\ active \in Workspace \cup {NoWorkspace}
  /\ suppression \in [fingerprint : Fingerprint, expires : Int] \cup {NoSuppression}
  /\ place \in [Blip -> Workspace \cup {NoWorkspace}]
  /\ createdAt \in [Blip -> Nat]
  /\ sortAt \in [Blip -> Nat]
  /\ rowid \in [Blip -> Nat]
  /\ lastRow \in Nat
  /\ issued \subseteq Blip
  /\ audit \in Seq(AuditRow)
  /\ now \in Nat

-----------------------------------------------------------------------------
(* Rows of the audit log *)

\* The rows of some types that concern one blip, or one workspace.
BlipRows(types, b) ==
  {i \in 1..Len(audit) : audit[i].type \in types /\ audit[i].blip = b}
WorkspaceRows(types, w) ==
  {i \in 1..Len(audit) : audit[i].type \in types /\ audit[i].ws = w}
TypeRows(types) == {i \in 1..Len(audit) : audit[i].type \in types}

\* i is the most recent of the rows S.
IsLast(i, S) == i \in S /\ \A j \in S : j <= i

Placement == {"blip_ingested", "blip_moved"}
Touch == {"blip_ingested", "blip_recopied"}

\* set_agent_access and set_workspace_policy write rows of the same type and
\* differ in what the details hold.
AccessRows(w) == {i \in WorkspaceRows({"workspace_policy_changed"}, w) :
                    audit[i].detail \in Setting}
PolicyRows(w) == {i \in WorkspaceRows({"workspace_policy_changed"}, w) :
                    audit[i].detail \in Policy}

-----------------------------------------------------------------------------
\* Every reference resolves, whatever order workspaces are created and blips
\* inserted, moved and removed in: blips, settings and the active workspace
\* name workspaces that exist, exactly the issued rows that were not removed
\* are live, and the audit log names no blip that is gone although rows are
\* written about a blip long after it was read (the foreign keys of
\* 001_initial.sql, which move_blip and record_audit_event depend on).
ReferencesResolve ==
  /\ Opened => active \in workspaces
  /\ agentAccess \cup sticky \subseteq workspaces
  /\ \A b \in Live : b \in issued /\ place[b] \in workspaces
  /\ \A i \in 1..Len(audit) :
       /\ audit[i].blip \in Live \cup {NoBlip}
       /\ audit[i].ws \in workspaces

\* The last time the log says that b was ingested or moved, it says that it
\* went to the workspace it is in now.
PlacementLogged(b) ==
  \E i \in BlipRows(Placement, b) :
    /\ IsLast(i, BlipRows(Placement, b))
    /\ audit[i].ws = place[b]

\* The audit log alone tells where a blip is, after any sequence of captures,
\* moves and removals ("audit entries commit with the state change they
\* describe", docs/architecture.md).
AuditExplainsPlacement == \A b \in Live : PlacementLogged(b)

\* The audit log alone tells the settings: the sticky workspace is the one the
\* last sticky row leaves (so never two of them, although sticky_capture is a
\* flag of each row), the active one is the last activated, and a policy or
\* an agent permission that was ever changed is what its last row says.
SettingsMatchAudit ==
  /\ \A v, w \in sticky : v = w
  /\ \A i \in TypeRows({"sticky_capture_changed"}) :
       IsLast(i, TypeRows({"sticky_capture_changed"})) =>
         (audit[i].detail = "enabled" <=> sticky = {audit[i].ws})
  /\ \A i \in TypeRows({"workspace_activated"}) :
       IsLast(i, TypeRows({"workspace_activated"})) => active = audit[i].ws
  /\ \A w \in workspaces :
       /\ \A i \in PolicyRows(w) : IsLast(i, PolicyRows(w)) => policy[w] = audit[i].detail
       /\ \A i \in AccessRows(w) :
            IsLast(i, AccessRows(w)) => (w \in agentAccess <=> audit[i].detail = "enabled")

\* No agent read slips past a permission that was withdrawn before it: in the
\* order of the log, the last change of the permission before the read had
\* enabled it; a read no change precedes is of a workspace that was created
\* with the permission (require_agent_read_access_from runs inside the
\* transaction that reads and logs).
AgentReadsAuthorized ==
  \A i \in TypeRows({"blips_read"}) :
    LET w == audit[i].ws
        before == {j \in AccessRows(w) : j < i}
    IN  \/ \E j \in before : IsLast(j, before) /\ audit[j].detail = "enabled"
        \/ before = {} /\ (AccessRows(w) = {} => w \in agentAccess)

\* The moment the log last says that a blip was captured or copied again.
TouchedAt(b, t) ==
  \E i \in BlipRows(Touch, b) : IsLast(i, BlipRows(Touch, b)) /\ audit[i].at = t

\* move_latest_inbox_blip never moves a blip while another one of the inbox
\* was captured or copied again later.
RouteLatestTakesNewest ==
  [][\A w \in Workspace : MoveLatestInboxBlip(w) =>
       \A b \in InWorkspace(Inbox) : \A c \in InWorkspace(Inbox) :
         audit'[Len(audit')].blip = b =>
           \A s, t \in 0..now : TouchedAt(b, s) /\ TouchedAt(c, t) => t <= s]_vars

\* The moment the log says that a blip was captured.
CapturedAt(b, t) ==
  \E i \in BlipRows({"blip_ingested"}, b) : audit[i].at = t

\* Retention removes exactly the blips that were captured longer ago than the
\* workspace they are in now keeps them, wherever they were captured and
\* however often they were moved or copied again since.
CleanupIsExact ==
  [][RetentionCleanup =>
       \A b \in Live : \A t \in 0..now : CapturedAt(b, t) =>
         (place'[b] = NoWorkspace <=>
            retention[place[b]] # NoRetention /\ t + retention[place[b]] < now)]_vars

\* The ledger's two other values of custody are not names of workspaces.
ASSUME LedgerNames == {"unseen", "gone"} \cap (Workspace \cup {NoWorkspace}) = {}

\* The store implements the ledger: one custodian at a time, nothing comes
\* back, and only a workspace with a retention limit loses several blips at
\* once.
custody == [b \in Blip |-> IF b \notin issued THEN "unseen"
                           ELSE IF place[b] = NoWorkspace THEN "gone" ELSE place[b]]
timed == {w \in workspaces : retention[w] # NoRetention}
Ledger == INSTANCE BlipLedger
            WITH spaces <- workspaces, Unseen <- "unseen", Gone <- "gone"
LedgerSpec == Ledger!Spec
=============================================================================
