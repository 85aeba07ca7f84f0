---------------------------- MODULE BlipStoreProofs ----------------------------
(***************************************************************************)
(* TLAPS proofs about BlipStore, for every set of workspaces, blips,        *)
(* policies and requests and every bound.                                   *)
(***************************************************************************)
EXTENDS BlipStoreProperties, SequenceTheorems, TLAPS

-----------------------------------------------------------------------------
(* The audit log as a sequence *)

\* A row written by a transaction is the last one and leaves the rows before
\* it as they were.
LEMMA AppendRow ==
  ASSUME NEW log \in Seq(AuditRow), NEW r \in AuditRow
  PROVE  /\ Append(log, r) \in Seq(AuditRow)
         /\ Len(Append(log, r)) = Len(log) + 1
         /\ Len(log) \in Nat
         /\ Append(log, r)[Len(log) + 1] = r
         /\ \A i \in 1..Len(log) : Append(log, r)[i] = log[i]
  BY AppendProperties, LenProperties DEF AuditRow

\* Deleting blips keeps every row and every field of it but the blip.
LEMMA ForgetRows ==
  ASSUME NEW log \in Seq(AuditRow), NEW D
  PROVE  /\ Forget(log, D) \in Seq(AuditRow)
         /\ Len(Forget(log, D)) = Len(log)
         /\ Len(log) \in Nat
         /\ \A i \in 1..Len(log) :
              /\ log[i] \in AuditRow
              /\ Forget(log, D)[i].type = log[i].type
              /\ Forget(log, D)[i].ws = log[i].ws
              /\ Forget(log, D)[i].detail = log[i].detail
              /\ Forget(log, D)[i].at = log[i].at
              /\ Forget(log, D)[i].blip =
                   IF log[i].blip \in D THEN NoBlip ELSE log[i].blip
  <1>1. Len(log) \in Nat /\ \A i \in 1..Len(log) : log[i] \in AuditRow
    BY LenProperties, ElementOfSeq
  <1>2. \A i \in 1..Len(log) :
          (IF log[i].blip \in D THEN [log[i] EXCEPT !.blip = NoBlip] ELSE log[i]) \in AuditRow
    BY <1>1 DEF AuditRow
  <1>3. Forget(log, D) \in [1..Len(log) -> AuditRow]
    BY <1>2 DEF Forget
  <1>4. Forget(log, D) \in Seq(AuditRow) /\ Len(Forget(log, D)) = Len(log)
    BY <1>1, <1>3, IsASeq, LenProperties
  <1>5. ASSUME NEW i \in 1..Len(log)
        PROVE  /\ Forget(log, D)[i].type = log[i].type
               /\ Forget(log, D)[i].ws = log[i].ws
               /\ Forget(log, D)[i].detail = log[i].detail
               /\ Forget(log, D)[i].at = log[i].at
               /\ Forget(log, D)[i].blip =
                    IF log[i].blip \in D THEN NoBlip ELSE log[i].blip
    BY <1>1, <1>5 DEF Forget, AuditRow
  <1> QED BY <1>1, <1>4, <1>5

LEMMA RowType ==
  ASSUME TypeOK,
         NEW type \in EventType, NEW b \in Blip \cup {NoBlip},
         NEW w \in Workspace, NEW d \in Detail
  PROVE  /\ Row(type, b, w, d) \in AuditRow
         /\ Row(type, b, w, d).type = type
         /\ Row(type, b, w, d).blip = b
         /\ Row(type, b, w, d).ws = w
         /\ Row(type, b, w, d).detail = d
         /\ Row(type, b, w, d).at = now
  BY DEF Row, AuditRow, TypeOK

\* What a step that logs one row does to the log.
LEMMA AuditedRow ==
  ASSUME TypeOK, NEW r \in AuditRow, Audited(r)
  PROVE  /\ audit' \in Seq(AuditRow)
         /\ Len(audit) \in Nat
         /\ Len(audit') = Len(audit) + 1
         /\ audit'[Len(audit) + 1] = r
         /\ \A i \in 1..Len(audit) : audit'[i] = audit[i] /\ audit[i] \in AuditRow
         /\ now' = now
  BY AppendRow, ElementOfSeq DEF Audited, TypeOK

\* What the first opening of the database does to it.
LEMMA SchemaRows ==
  ASSUME TypeOK, CreateSchema
  PROVE  /\ audit' \in Seq(AuditRow)
         /\ Len(audit) \in Nat
         /\ Len(audit') = Len(audit) + 2
         /\ \A i \in 1..Len(audit) : audit'[i] = audit[i] /\ audit[i] \in AuditRow
         /\ \A i \in {Len(audit) + 1, Len(audit) + 2} :
              /\ audit'[i] \in AuditRow
              /\ audit'[i].type \in {"workspace_created", "schema_initialized"}
              /\ audit'[i].blip = NoBlip
              /\ audit'[i].ws = Inbox
              /\ audit'[i].detail = NoDetail
  <1> DEFINE r1 == Row("workspace_created", NoBlip, Inbox, NoDetail)
             r2 == Row("schema_initialized", NoBlip, Inbox, NoDetail)
  <1>1. /\ r1 \in AuditRow /\ r1.type = "workspace_created" /\ r1.blip = NoBlip
        /\ r1.ws = Inbox /\ r1.detail = NoDetail
    BY RowType, InboxAssumption DEF EventType, Detail
  <1>2. /\ r2 \in AuditRow /\ r2.type = "schema_initialized" /\ r2.blip = NoBlip
        /\ r2.ws = Inbox /\ r2.detail = NoDetail
    BY RowType, InboxAssumption DEF EventType, Detail
  <1> HIDE DEF r1, r2
  <1>3. /\ <<r1, r2>> \in Seq(AuditRow) /\ Len(<<r1, r2>>) = 2
        /\ <<r1, r2>>[1] = r1 /\ <<r1, r2>>[2] = r2
    BY <1>1, <1>2
  <1>4. audit \in Seq(AuditRow) /\ Len(audit) \in Nat
        /\ \A i \in 1..Len(audit) : audit[i] \in AuditRow
    BY LenProperties, ElementOfSeq DEF TypeOK
  <1>5. audit' = audit \o <<r1, r2>>
    BY DEF CreateSchema, r1, r2
  <1>6. /\ audit' \in Seq(AuditRow)
        /\ Len(audit') = Len(audit) + 2
        /\ \A i \in 1..(Len(audit) + 2) : audit'[i] =
             IF i <= Len(audit) THEN audit[i] ELSE <<r1, r2>>[i - Len(audit)]
    BY <1>3, <1>4, <1>5, ConcatProperties
  <1>7. audit'[Len(audit) + 1] = r1 /\ audit'[Len(audit) + 2] = r2
    BY <1>3, <1>4, <1>6
  <1> QED BY <1>1, <1>2, <1>4, <1>6, <1>7

-----------------------------------------------------------------------------
(* Type correctness *)

LEMMA TypeInit == Init => TypeOK
  BY PolicyAssumption, EmptySeq DEF Init, TypeOK, NoRetention

LEMMA TypeWorkspaceStep == TypeOK /\ WorkspaceStep => TypeOK'
  <1> SUFFICES ASSUME TypeOK, WorkspaceStep PROVE TypeOK'
    OBVIOUS
  <1>1. ASSUME NEW w \in Workspace, NEW r \in Request, CreateWorkspace(w, r)
        PROVE  TypeOK'
    <2>1. audit' \in Seq(AuditRow) /\ now' = now
      BY <1>1, RowType, AuditedRow DEF CreateWorkspace, EventType, Detail
    <2>2. r.keep \in Int
      BY RequestAssumption DEF CreationRequest
    <2> QED BY <1>1, <2>1, <2>2, PolicyAssumption
          DEF TypeOK, CreateWorkspace, AddWorkspace, appVars, blipVars
  <1>2. ASSUME NEW w \in Workspace, NEW e \in Setting, SetAgentAccess(w, e)
        PROVE  TypeOK'
    <2>1. audit' \in Seq(AuditRow) /\ now' = now
      BY <1>2, RowType, AuditedRow DEF SetAgentAccess, EventType, Detail
    <2> QED BY <1>2, <2>1 DEF TypeOK, SetAgentAccess, appVars, blipVars
  <1>3. ASSUME NEW w \in Workspace, NEW p \in Policy, SetWorkspacePolicy(w, p)
        PROVE  TypeOK'
    <2>1. audit' \in Seq(AuditRow) /\ now' = now
      BY <1>3, RowType, AuditedRow DEF SetWorkspacePolicy, EventType, Detail
    <2> QED BY <1>3, <2>1 DEF TypeOK, SetWorkspacePolicy, appVars, blipVars
  <1>4. ASSUME NEW w \in Workspace, SetActiveWorkspace(w)
        PROVE  TypeOK'
    <2>1. audit' \in Seq(AuditRow) /\ now' = now
      BY <1>4, RowType, AuditedRow DEF SetActiveWorkspace, EventType, Detail
    <2> QED BY <1>4, <2>1 DEF TypeOK, SetActiveWorkspace, workspaceVars, blipVars
  <1>5. ASSUME NEW w \in Workspace, NEW e \in Setting, SetStickyCapture(w, e)
        PROVE  TypeOK'
    <2>1. audit' \in Seq(AuditRow) /\ now' = now
      BY <1>5, RowType, AuditedRow DEF SetStickyCapture, EventType, Detail
    <2> QED BY <1>5, <2>1 DEF TypeOK, SetStickyCapture, appVars, blipVars
  <1> QED BY <1>1, <1>2, <1>3, <1>4, <1>5 DEF WorkspaceStep

LEMMA TypeRemoval ==
  ASSUME TypeOK, NEW D, RemoveBlips(D)
  PROVE  TypeOK'
  <1>1. audit' \in Seq(AuditRow)
    BY ForgetRows DEF RemoveBlips, TypeOK
  <1> QED BY <1>1 DEF TypeOK, RemoveBlips, workspaceVars, appVars

LEMMA TypeBlipStep == TypeOK /\ BlipStep => TypeOK'
  <1> SUFFICES ASSUME TypeOK, BlipStep PROVE TypeOK'
    OBVIOUS
  <1>1. ASSUME NEW b \in Blip, NEW w \in Workspace, InsertBlip(b, w)
        PROVE  TypeOK'
    <2>1. audit' \in Seq(AuditRow) /\ now' = now
      BY <1>1, RowType, AuditedRow DEF InsertBlip, EventType, Detail
    <2> QED BY <1>1, <2>1 DEF TypeOK, InsertBlip, workspaceVars, appVars
  <1>2. ASSUME NEW b \in Blip, NEW f \in Fingerprint, PrepareRecopy(b, f)
        PROVE  TypeOK'
    <2>1. place[b] \in Workspace
      BY <1>2 DEF PrepareRecopy, Live, TypeOK
    <2>2. audit' \in Seq(AuditRow) /\ now' = now
      BY <1>2, <2>1, RowType, AuditedRow DEF PrepareRecopy, EventType, Detail
    <2> QED BY <1>2, <2>2, BoundAssumption DEF TypeOK, PrepareRecopy, workspaceVars
  <1>3. ASSUME NEW f \in Fingerprint, ConsumeSuppression(f)
        PROVE  TypeOK'
    BY <1>3 DEF TypeOK, ConsumeSuppression, workspaceVars, blipVars
  <1>4. ASSUME NEW b \in Blip, NEW w \in Workspace, Moved(b, w)
        PROVE  TypeOK'
    <2>1. place[b] \in Workspace
      BY <1>4 DEF Moved, Live, TypeOK
    <2>2. audit' \in Seq(AuditRow) /\ now' = now
      BY <1>4, <2>1, RowType, AuditedRow DEF Moved, EventType, Detail
    <2> QED BY <1>4, <2>2 DEF TypeOK, Moved, workspaceVars, appVars
  <1>5. ASSUME NEW b \in Blip, DeleteBlip(b)
        PROVE  TypeOK'
    BY <1>5, TypeRemoval DEF DeleteBlip
  <1>6. CASE RetentionCleanup
    BY <1>6, TypeRemoval DEF RetentionCleanup
  <1> QED BY <1>1, <1>2, <1>3, <1>4, <1>5, <1>6
          DEF BlipStep, MoveBlip, MoveLatestInboxBlip

LEMMA TypeReadStep == TypeOK /\ ReadStep => TypeOK'
  <1> SUFFICES ASSUME TypeOK, ReadStep PROVE TypeOK'
    OBVIOUS
  <1>1. ASSUME NEW type \in EventType, NEW b \in Blip \cup {NoBlip}, NEW w \in Workspace,
               Audited(Row(type, b, w, NoDetail)),
               UNCHANGED <<workspaceVars, appVars, blipVars>>
        PROVE  TypeOK'
    <2>1. audit' \in Seq(AuditRow) /\ now' = now
      BY <1>1, RowType, AuditedRow DEF Detail
    <2> QED BY <1>1, <2>1 DEF TypeOK, workspaceVars, appVars, blipVars
  <1> QED BY <1>1 DEF ReadStep, ReadAgentBlips, RecordBlipEvent, RecordCaptureSkipped, EventType

LEMMA TypeNext == TypeOK /\ [Next]_vars => TypeOK'
  <1> SUFFICES ASSUME TypeOK, [Next]_vars PROVE TypeOK'
    OBVIOUS
  <1>1. CASE CreateSchema
    <2>1. audit' \in Seq(AuditRow)
      BY <1>1, SchemaRows
    <2> QED BY <1>1, <2>1, InboxAssumption, PolicyAssumption
          DEF TypeOK, CreateSchema, AddWorkspace, NoRetention, blipVars
  <1>2. CASE Tick
    BY <1>2 DEF TypeOK, Tick, workspaceVars, appVars, blipVars
  <1>3. CASE UNCHANGED vars
    BY <1>3 DEF TypeOK, vars, workspaceVars, appVars, blipVars
  <1> QED BY <1>1, <1>2, <1>3, TypeWorkspaceStep, TypeBlipStep, TypeReadStep
          DEF Next, Reopen

\* The tables and the log hold values of their columns' types in every
\* reachable state: in particular no operation logs a row about a workspace
\* or blip it did not look up first.
THEOREM TypeCorrect == Spec => []TypeOK
  BY TypeInit, TypeNext, PTL DEF Spec

-----------------------------------------------------------------------------
(* References *)

\* The part of ReferencesResolve about the log.
LogResolves ==
  \A i \in 1..Len(audit) :
    /\ audit[i].blip \in Live \cup {NoBlip}
    /\ audit[i].ws \in workspaces

\* Nothing activates a workspace before it exists; without this the first
\* opening could keep a dangling active workspace.
RefInv ==
  /\ TypeOK
  /\ ReferencesResolve
  /\ active # NoWorkspace => active \in workspaces

LEMMA LogResolvesAppend ==
  ASSUME TypeOK, LogResolves, NEW r \in AuditRow, Audited(r),
         r.blip \in Live' \cup {NoBlip}, r.ws \in workspaces',
         Live \subseteq Live', workspaces \subseteq workspaces'
  PROVE  LogResolves'
  <1>1. \A i \in 1..Len(audit') : i \in 1..Len(audit) \/ i = Len(audit) + 1
    BY AuditedRow
  <1> QED BY <1>1, AuditedRow DEF LogResolves

LEMMA LogResolvesRemoval ==
  ASSUME TypeOK, LogResolves, NEW D, RemoveBlips(D)
  PROVE  LogResolves'
  <1>1. /\ Len(audit') = Len(audit)
        /\ \A i \in 1..Len(audit) :
             /\ audit'[i].ws = audit[i].ws
             /\ audit'[i].blip = IF audit[i].blip \in D THEN NoBlip ELSE audit[i].blip
    BY ForgetRows DEF RemoveBlips, TypeOK
  <1>2. Live' = Live \ D
    BY DEF RemoveBlips, Live, TypeOK
  <1>3. workspaces' = workspaces
    BY DEF RemoveBlips, workspaceVars
  <1> QED BY <1>1, <1>2, <1>3 DEF LogResolves

LEMMA RefInit == Init => RefInv
  BY TypeInit, EmptySeq DEF Init, RefInv, ReferencesResolve, Live, Opened

LEMMA RefWorkspaceStep == RefInv /\ WorkspaceStep => RefInv'
  <1> SUFFICES ASSUME RefInv, WorkspaceStep PROVE RefInv'
    OBVIOUS
  <1> USE DEF RefInv
  <1>1. TypeOK'
    BY TypeWorkspaceStep
  <1>2. ASSUME NEW type \in EventType, NEW w \in workspaces', NEW d \in Detail,
               Audited(Row(type, NoBlip, w, d)),
               workspaces \subseteq workspaces', UNCHANGED blipVars
        PROVE  LogResolves'
    <2>1. Live' = Live
      BY <1>2 DEF Live, blipVars
    <2>2. w \in Workspace
      BY <1>1, <1>2 DEF TypeOK
    <2> QED BY <1>2, <2>1, <2>2, RowType, LogResolvesAppend
          DEF ReferencesResolve, LogResolves
  <1>3. ASSUME NEW w \in Workspace, NEW r \in Request, CreateWorkspace(w, r)
        PROVE  RefInv'
    <2>1. LogResolves'
      BY <1>2, <1>3 DEF CreateWorkspace, AddWorkspace, EventType, Detail
    <2> QED BY <1>1, <1>3, <2>1
          DEF CreateWorkspace, AddWorkspace, ReferencesResolve, LogResolves,
              Live, Opened, appVars, blipVars
  <1>4. ASSUME NEW w \in Workspace, NEW e \in Setting, SetAgentAccess(w, e)
        PROVE  RefInv'
    <2>1. LogResolves'
      BY <1>2, <1>4 DEF SetAgentAccess, EventType, Detail
    <2> QED BY <1>1, <1>4, <2>1
          DEF SetAgentAccess, ReferencesResolve, LogResolves, Live, Opened, appVars, blipVars
  <1>5. ASSUME NEW w \in Workspace, NEW p \in Policy, SetWorkspacePolicy(w, p)
        PROVE  RefInv'
    <2>1. LogResolves'
      BY <1>2, <1>5 DEF SetWorkspacePolicy, EventType, Detail
    <2> QED BY <1>1, <1>5, <2>1
          DEF SetWorkspacePolicy, ReferencesResolve, LogResolves, Live, Opened, appVars, blipVars
  <1>6. ASSUME NEW w \in Workspace, SetActiveWorkspace(w)
        PROVE  RefInv'
    <2>1. LogResolves'
      BY <1>2, <1>6 DEF SetActiveWorkspace, workspaceVars, EventType, Detail
    <2> QED BY <1>1, <1>6, <2>1
          DEF SetActiveWorkspace, ReferencesResolve, LogResolves, Live, Opened,
              workspaceVars, blipVars
  <1>7. ASSUME NEW w \in Workspace, NEW e \in Setting, SetStickyCapture(w, e)
        PROVE  RefInv'
    <2>1. LogResolves'
      BY <1>2, <1>7 DEF SetStickyCapture, EventType, Detail
    <2> QED BY <1>1, <1>7, <2>1
          DEF SetStickyCapture, ReferencesResolve, LogResolves, Live, Opened, appVars, blipVars
  <1> QED BY <1>3, <1>4, <1>5, <1>6, <1>7 DEF WorkspaceStep

LEMMA RefRemoval ==
  ASSUME RefInv, NEW D, RemoveBlips(D)
  PROVE  RefInv'
  <1>1. TypeOK' /\ LogResolves'
    BY TypeRemoval, LogResolvesRemoval DEF RefInv, ReferencesResolve, LogResolves
  <1>2. \A b \in Live' : b \in Live /\ place'[b] = place[b]
    BY DEF RemoveBlips, Live
  <1> QED BY <1>1, <1>2
        DEF RefInv, ReferencesResolve, LogResolves, RemoveBlips, Opened,
            workspaceVars, appVars

LEMMA RefBlipStep == RefInv /\ BlipStep => RefInv'
  <1> SUFFICES ASSUME RefInv, BlipStep PROVE RefInv'
    OBVIOUS
  <1>1. TypeOK /\ TypeOK' /\ LogResolves
    BY TypeBlipStep DEF RefInv, ReferencesResolve, LogResolves
  <1>2. ASSUME NEW b \in Blip, NEW w \in Workspace, InsertBlip(b, w)
        PROVE  RefInv'
    <2>1. Live' = Live \cup {b}
      BY <1>1, <1>2, NullAssumption DEF InsertBlip, Live, TypeOK
    <2>2. LogResolves'
      BY <1>1, <1>2, <2>1, RowType, LogResolvesAppend
      DEF InsertBlip, EventType, Detail, workspaceVars
    <2> QED BY <1>1, <1>2, <2>1, <2>2
          DEF RefInv, InsertBlip, ReferencesResolve, LogResolves, TypeOK, Opened,
              workspaceVars, appVars
  <1>3. ASSUME NEW b \in Blip, NEW f \in Fingerprint, PrepareRecopy(b, f)
        PROVE  RefInv'
    <2>1. Live' = Live /\ place[b] \in workspaces
      BY <1>3 DEF PrepareRecopy, Live, RefInv, ReferencesResolve
    <2>2. place[b] \in Workspace /\ workspaces' = workspaces /\ b \in Live'
      BY <1>1, <1>3, <2>1 DEF TypeOK, PrepareRecopy, workspaceVars
    <2>3. LogResolves'
      BY <1>1, <1>3, <2>1, <2>2, RowType, LogResolvesAppend
      DEF PrepareRecopy, EventType, Detail
    <2> QED BY <1>1, <1>3, <2>1, <2>3
          DEF RefInv, PrepareRecopy, ReferencesResolve, LogResolves, Opened, workspaceVars
  <1>4. ASSUME NEW f \in Fingerprint, ConsumeSuppression(f)
        PROVE  RefInv'
    BY <1>1, <1>4 DEF RefInv, ConsumeSuppression, ReferencesResolve, Live, Opened,
                      workspaceVars, blipVars
  <1>5. ASSUME NEW b \in Blip, NEW w \in Workspace, Moved(b, w)
        PROVE  RefInv'
    <2>1. Live' = Live /\ place[b] \in Workspace
      BY <1>1, <1>5, NullAssumption DEF Moved, Live, TypeOK
    <2>2. LogResolves'
      BY <1>1, <1>5, <2>1, RowType, LogResolvesAppend
      DEF Moved, EventType, Detail, workspaceVars
    <2> QED BY <1>1, <1>5, <2>1, <2>2
          DEF RefInv, Moved, ReferencesResolve, LogResolves, TypeOK, Opened,
              workspaceVars, appVars
  <1>6. ASSUME NEW b \in Blip, DeleteBlip(b)
        PROVE  RefInv'
    BY <1>6, RefRemoval DEF DeleteBlip
  <1>7. CASE RetentionCleanup
    BY <1>7, RefRemoval DEF RetentionCleanup
  <1> QED BY <1>2, <1>3, <1>4, <1>5, <1>6, <1>7
        DEF BlipStep, MoveBlip, MoveLatestInboxBlip

LEMMA RefReadStep == RefInv /\ ReadStep => RefInv'
  <1> SUFFICES ASSUME RefInv, ReadStep PROVE RefInv'
    OBVIOUS
  <1>1. ASSUME NEW type \in EventType, NEW b \in Live \cup {NoBlip}, NEW w \in workspaces,
               Audited(Row(type, b, w, NoDetail)),
               UNCHANGED <<workspaceVars, appVars, blipVars>>
        PROVE  RefInv'
    <2>1. TypeOK /\ TypeOK' /\ LogResolves /\ w \in Workspace /\ Live' = Live
      BY <1>1, TypeReadStep
      DEF RefInv, ReferencesResolve, LogResolves, TypeOK, Live, blipVars
    <2>2. LogResolves'
      BY <1>1, <2>1, RowType, LogResolvesAppend DEF Detail, Live, workspaceVars
    <2> QED BY <1>1, <2>1, <2>2
          DEF RefInv, ReferencesResolve, LogResolves, Opened,
              workspaceVars, appVars, blipVars
  <1> QED BY <1>1 DEF ReadStep, ReadAgentBlips, RecordBlipEvent, RecordCaptureSkipped, EventType

LEMMA RefNext == RefInv /\ [Next]_vars => RefInv'
  <1> SUFFICES ASSUME RefInv, [Next]_vars PROVE RefInv'
    OBVIOUS
  <1>1. TypeOK /\ TypeOK'
    BY TypeNext DEF RefInv
  <1>2. CASE CreateSchema
    <2>1. \A i \in 1..Len(audit') :
            i \in 1..Len(audit) \/ i \in {Len(audit) + 1, Len(audit) + 2}
      BY <1>1, <1>2, SchemaRows
    <2>2. LogResolves'
      BY <1>1, <1>2, <2>1, SchemaRows
      DEF LogResolves, RefInv, ReferencesResolve, CreateSchema, AddWorkspace, blipVars, Live
    <2> QED BY <1>1, <1>2, <2>2, InboxAssumption, NullAssumption
          DEF RefInv, ReferencesResolve, LogResolves, CreateSchema, AddWorkspace,
              Opened, Live, blipVars
  <1>3. CASE Tick \/ UNCHANGED vars
    BY <1>1, <1>3 DEF RefInv, ReferencesResolve, Opened, Live, Tick, vars,
                      workspaceVars, appVars, blipVars
  <1> QED BY <1>2, <1>3, RefWorkspaceStep, RefBlipStep, RefReadStep DEF Next, Reopen

\* No table and no audit row ever names a workspace or a blip that is not
\* there, under every interleaving of the store's operations.
THEOREM ReferencesCorrect == Spec => []ReferencesResolve
  BY RefInit, RefNext, PTL DEF Spec, RefInv

-----------------------------------------------------------------------------
(* The log explains where a blip is *)

\* A row about something else than the placement of b leaves what the log says
\* of it.
LEMMA PlacementOtherRow ==
  ASSUME TypeOK, NEW r \in AuditRow, Audited(r), NEW b \in Blip,
         ~(r.type \in Placement /\ r.blip = b),
         place'[b] = place[b], PlacementLogged(b)
  PROVE  PlacementLogged(b)'
  <1>1. BlipRows(Placement, b)' = BlipRows(Placement, b)
    BY AuditedRow DEF BlipRows
  <1>2. \A i \in BlipRows(Placement, b) : audit'[i] = audit[i]
    BY AuditedRow DEF BlipRows
  <1> QED BY <1>1, <1>2 DEF PlacementLogged, IsLast

\* A row that ingests or moves b becomes the last one about its placement.
LEMMA PlacementNewRow ==
  ASSUME TypeOK, NEW r \in AuditRow, Audited(r), NEW b \in Blip,
         r.type \in Placement, r.blip = b, r.ws = place'[b]
  PROVE  PlacementLogged(b)'
  <1>1. Len(audit) \in Nat
    BY AuditedRow
  <1>2. Len(audit) + 1 \in BlipRows(Placement, b)' /\ audit'[Len(audit) + 1].ws = place'[b]
    BY <1>1, AuditedRow DEF BlipRows
  <1>3. \A j \in BlipRows(Placement, b)' : j <= Len(audit) + 1
    BY <1>1, AuditedRow DEF BlipRows
  <1> QED BY <1>2, <1>3 DEF PlacementLogged, IsLast

\* Removing other blips leaves what the log says of b.
LEMMA PlacementRemoval ==
  ASSUME TypeOK, NEW D, RemoveBlips(D), NEW b \in Blip, b \notin D, PlacementLogged(b)
  PROVE  PlacementLogged(b)'
  <1>1. /\ Len(audit') = Len(audit)
        /\ \A i \in 1..Len(audit) :
             /\ audit'[i].type = audit[i].type
             /\ audit'[i].ws = audit[i].ws
             /\ audit'[i].blip = IF audit[i].blip \in D THEN NoBlip ELSE audit[i].blip
    BY ForgetRows DEF RemoveBlips, TypeOK
  <1>2. BlipRows(Placement, b)' = BlipRows(Placement, b)
    BY <1>1, NullAssumption DEF BlipRows
  <1>3. place'[b] = place[b]
    BY DEF RemoveBlips
  <1> QED BY <1>1, <1>2, <1>3 DEF PlacementLogged, IsLast, BlipRows

LEMMA PlacementBlipStep ==
  TypeOK /\ AuditExplainsPlacement /\ BlipStep => AuditExplainsPlacement'
  <1> SUFFICES ASSUME TypeOK, AuditExplainsPlacement, BlipStep, NEW c \in Live'
               PROVE  PlacementLogged(c)'
    BY DEF AuditExplainsPlacement
  <1>1. c \in Blip /\ (c \in Live => PlacementLogged(c))
    BY DEF Live, AuditExplainsPlacement
  <1>2. ASSUME NEW b \in Blip, NEW w \in Workspace, InsertBlip(b, w)
        PROVE  PlacementLogged(c)'
    <2> DEFINE r == Row("blip_ingested", b, w, NoDetail)
    <2>1. /\ r \in AuditRow /\ r.type = "blip_ingested" /\ r.blip = b /\ r.ws = w
          /\ Audited(r)
      BY <1>2, RowType DEF EventType, Detail, InsertBlip
    <2> HIDE DEF r
    <2>2. place'[b] = w /\ (c # b => place'[c] = place[c] /\ c \in Live)
      BY <1>1, <1>2 DEF InsertBlip, TypeOK, Live
    <2>3. CASE c = b
      BY <2>1, <2>2, <2>3, PlacementNewRow DEF Placement
    <2>4. CASE c # b
      BY <1>1, <2>1, <2>2, <2>4, PlacementOtherRow
    <2> QED BY <2>3, <2>4
  <1>3. ASSUME NEW b \in Blip, NEW f \in Fingerprint, PrepareRecopy(b, f)
        PROVE  PlacementLogged(c)'
    <2> DEFINE r == Row("blip_recopied", b, place[b], NoDetail)
    <2>1. place[b] \in Workspace /\ c \in Live /\ place'[c] = place[c]
      BY <1>3 DEF PrepareRecopy, Live, TypeOK
    <2>2. r \in AuditRow /\ r.type = "blip_recopied" /\ Audited(r)
      BY <1>3, <2>1, RowType DEF EventType, Detail, PrepareRecopy
    <2> HIDE DEF r
    <2>3. r.type \notin Placement
      BY <2>2 DEF Placement
    <2> QED BY <1>1, <2>1, <2>2, <2>3, PlacementOtherRow
  <1>4. ASSUME NEW f \in Fingerprint, ConsumeSuppression(f)
        PROVE  PlacementLogged(c)'
    BY <1>1, <1>4 DEF ConsumeSuppression, blipVars, Live, PlacementLogged, BlipRows, IsLast
  <1>5. ASSUME NEW b \in Blip, NEW w \in Workspace, Moved(b, w)
        PROVE  PlacementLogged(c)'
    <2> DEFINE r == Row("blip_moved", b, w, place[b])
    <2>1. place[b] \in Workspace
      BY <1>5 DEF Moved, Live, TypeOK
    <2>2. /\ r \in AuditRow /\ r.type = "blip_moved" /\ r.blip = b /\ r.ws = w
          /\ Audited(r)
      BY <1>5, <2>1, RowType DEF EventType, Detail, Moved
    <2> HIDE DEF r
    <2>3. place'[b] = w /\ (c # b => place'[c] = place[c] /\ c \in Live)
      BY <1>1, <1>5 DEF Moved, TypeOK, Live
    <2>4. CASE c = b
      BY <2>2, <2>3, <2>4, PlacementNewRow DEF Placement
    <2>5. CASE c # b
      BY <1>1, <2>2, <2>3, <2>5, PlacementOtherRow
    <2> QED BY <2>4, <2>5
  <1>6. ASSUME NEW D, RemoveBlips(D)
        PROVE  PlacementLogged(c)'
    <2>1. c \notin D /\ c \in Live
      BY <1>1, <1>6 DEF RemoveBlips, Live
    <2> QED BY <1>1, <1>6, <2>1, PlacementRemoval
  <1> QED BY <1>2, <1>3, <1>4, <1>5, <1>6
        DEF BlipStep, MoveBlip, MoveLatestInboxBlip, DeleteBlip, RetentionCleanup

LEMMA PlacementNext ==
  TypeOK /\ AuditExplainsPlacement /\ [Next]_vars => AuditExplainsPlacement'
  <1> SUFFICES ASSUME TypeOK, AuditExplainsPlacement, [Next]_vars, NEW c \in Live'
               PROVE  PlacementLogged(c)'
    BY DEF AuditExplainsPlacement
  <1>1. ASSUME BlipStep PROVE PlacementLogged(c)'
    BY <1>1, PlacementBlipStep DEF AuditExplainsPlacement
  <1>2. ASSUME UNCHANGED place
        PROVE  c \in Blip /\ place'[c] = place[c] /\ PlacementLogged(c)
    BY <1>2 DEF Live, AuditExplainsPlacement
  <1>3. ASSUME NEW type \in EventType \ Placement, NEW b \in Blip \cup {NoBlip},
               NEW w \in Workspace, NEW d \in Detail, Audited(Row(type, b, w, d)),
               UNCHANGED place
        PROVE  PlacementLogged(c)'
    BY <1>2, <1>3, RowType, PlacementOtherRow
  <1>4. ASSUME UNCHANGED <<place, audit>> PROVE PlacementLogged(c)'
    BY <1>2, <1>4 DEF PlacementLogged, BlipRows, IsLast
  <1>5. CASE CreateSchema
    <2>1. BlipRows(Placement, c)' = BlipRows(Placement, c)
      BY <1>5, SchemaRows DEF BlipRows, Placement
    <2>2. \A i \in BlipRows(Placement, c) : audit'[i] = audit[i]
      BY <1>5, SchemaRows DEF BlipRows
    <2> QED BY <1>2, <1>5, <2>1, <2>2
          DEF CreateSchema, blipVars, PlacementLogged, IsLast
  <1>6. CASE WorkspaceStep
    BY <1>3, <1>6
    DEF WorkspaceStep, CreateWorkspace, SetAgentAccess, SetWorkspacePolicy,
        SetActiveWorkspace, SetStickyCapture, blipVars, EventType, Placement, Detail
  <1>7. CASE ReadStep
    BY <1>3, <1>7
    DEF ReadStep, ReadAgentBlips, RecordBlipEvent, RecordCaptureSkipped, blipVars,
        EventType, Placement, Detail
  <1>8. CASE Reopen \/ Tick \/ UNCHANGED vars
    BY <1>4, <1>8 DEF Reopen, Tick, vars, blipVars
  <1> QED BY <1>1, <1>5, <1>6, <1>7, <1>8 DEF Next

\* Whatever captures, moves, recopies and removals happen, the audit log names
\* the workspace each live blip is in: every operation that places a blip
\* writes its row in the same transaction, and removals rewrite no other row.
THEOREM PlacementExplained == Spec => []AuditExplainsPlacement
  <1>1. Init => AuditExplainsPlacement
    BY DEF Init, AuditExplainsPlacement, Live
  <1> QED BY <1>1, TypeInit, TypeNext, PlacementNext, PTL DEF Spec

-----------------------------------------------------------------------------
(* The store implements the ledger *)

LEMMA LedgerInit == Init => Ledger!Init
  BY DEF Init, Ledger!Init, custody, timed

LEMMA CustodyUnchanged ==
  ASSUME UNCHANGED blipVars
  PROVE  custody' = custody
  BY DEF custody, blipVars

LEMMA LedgerWorkspaceStep == RefInv /\ WorkspaceStep => [Ledger!Next]_(Ledger!vars)
  <1> SUFFICES ASSUME RefInv, WorkspaceStep PROVE [Ledger!Next]_(Ledger!vars)
    OBVIOUS
  <1>1. ASSUME NEW w \in Workspace, NEW r \in Request, CreateWorkspace(w, r)
        PROVE  Ledger!Next
    <2>1. custody' = custody
      BY <1>1, CustodyUnchanged DEF CreateWorkspace
    <2>2. r.keep = NoRetention => timed' = timed
      BY <1>1 DEF CreateWorkspace, AddWorkspace, timed, RefInv, TypeOK
    <2>3. r.keep # NoRetention => timed' = timed \cup {w}
      BY <1>1 DEF CreateWorkspace, AddWorkspace, timed, RefInv, TypeOK
    <2>4. w \notin workspaces /\ workspaces' = workspaces \cup {w}
      BY <1>1 DEF CreateWorkspace, AddWorkspace
    <2>5. CASE r.keep = NoRetention
      <3>1. Ledger!Create(w, TRUE)
        BY <2>1, <2>2, <2>4, <2>5 DEF Ledger!Create
      <3> QED BY <3>1 DEF Ledger!Next
    <2>6. CASE r.keep # NoRetention
      <3>1. Ledger!Create(w, FALSE)
        BY <2>1, <2>3, <2>4, <2>6 DEF Ledger!Create
      <3> QED BY <3>1 DEF Ledger!Next
    <2> QED BY <2>5, <2>6
  <1>2. ASSUME UNCHANGED <<workspaces, retention, blipVars>>
        PROVE  UNCHANGED Ledger!vars
    BY <1>2, CustodyUnchanged DEF Ledger!vars, timed
  <1> QED BY <1>1, <1>2
        DEF WorkspaceStep, SetAgentAccess, SetWorkspacePolicy, SetActiveWorkspace,
            SetStickyCapture, workspaceVars

LEMMA LedgerBlipStep ==
  RefInv /\ BlipStep => [Ledger!Next]_(Ledger!vars)
  <1> SUFFICES ASSUME RefInv, BlipStep PROVE [Ledger!Next]_(Ledger!vars)
    OBVIOUS
  <1> USE DEF RefInv
  <1>1. ASSUME NEW b \in Blip, NEW w \in Workspace, InsertBlip(b, w)
        PROVE  Ledger!Next
    <2>1. custody[b] = "unseen" /\ w \in workspaces
      BY <1>1 DEF InsertBlip, custody
    <2>2. custody' = [custody EXCEPT ![b] = w]
      BY <1>1, NullAssumption, LedgerNames DEF InsertBlip, custody, TypeOK
    <2>3. UNCHANGED <<workspaces, timed>>
      BY <1>1 DEF InsertBlip, workspaceVars, timed
    <2>4. Ledger!Capture(b, w)
      BY <2>1, <2>2, <2>3 DEF Ledger!Capture
    <2> QED BY <2>4 DEF Ledger!Next
  <1>2. ASSUME NEW b \in Blip, NEW f \in Fingerprint, PrepareRecopy(b, f)
        PROVE  UNCHANGED Ledger!vars
    BY <1>2 DEF PrepareRecopy, Ledger!vars, custody, timed, workspaceVars
  <1>3. ASSUME NEW f \in Fingerprint, ConsumeSuppression(f)
        PROVE  UNCHANGED Ledger!vars
    BY <1>3, CustodyUnchanged DEF ConsumeSuppression, Ledger!vars, timed, workspaceVars
  <1>4. ASSUME NEW b \in Blip, NEW w \in Workspace, Moved(b, w)
        PROVE  Ledger!Next
    <2>1. b \in issued /\ place[b] \in workspaces /\ place[b] # NoWorkspace
      BY <1>4 DEF Moved, Live, ReferencesResolve
    <2>2. custody[b] = place[b] /\ w \in workspaces
      BY <1>4, <2>1 DEF Moved, custody
    <2>3. custody' = [custody EXCEPT ![b] = w]
      BY <1>4, <2>1, NullAssumption DEF Moved, custody, TypeOK
    <2>4. UNCHANGED <<workspaces, timed>>
      BY <1>4 DEF Moved, workspaceVars, timed
    <2>5. Ledger!Route(b, w)
      BY <2>1, <2>2, <2>3, <2>4 DEF Ledger!Route
    <2> QED BY <2>5 DEF Ledger!Next
  <1>5. ASSUME NEW D \in SUBSET Live, RemoveBlips(D)
        PROVE  /\ \A b \in D : custody[b] = place[b] /\ place[b] \in workspaces
               /\ custody' = [b \in Blip |-> IF b \in D THEN "gone" ELSE custody[b]]
               /\ UNCHANGED <<workspaces, timed>>
    <2>1. \A b \in D : b \in issued /\ place[b] \in workspaces /\ place[b] # NoWorkspace
      BY <1>5 DEF Live, ReferencesResolve
    <2>2. \A b \in D : custody[b] = place[b]
      BY <1>5, <2>1 DEF Live, custody
    <2>3. custody' = [b \in Blip |-> IF b \in D THEN "gone" ELSE custody[b]]
      BY <1>5, <2>1 DEF RemoveBlips, custody
    <2> QED BY <1>5, <2>1, <2>2, <2>3 DEF RemoveBlips, workspaceVars, timed
  <1>6. ASSUME NEW b \in Blip, DeleteBlip(b)
        PROVE  Ledger!Next
    <2>1. RemoveBlips({b}) /\ {b} \in SUBSET Live
      BY <1>6 DEF DeleteBlip
    <2>2. /\ custody[b] \in workspaces
          /\ custody' = [c \in Blip |-> IF c \in {b} THEN "gone" ELSE custody[c]]
          /\ UNCHANGED <<workspaces, timed>>
      BY <1>5, <2>1
    <2>3. custody' = [custody EXCEPT ![b] = "gone"]
      BY <2>2 DEF custody
    <2>4. Ledger!Discard(b)
      BY <2>2, <2>3 DEF Ledger!Discard
    <2> QED BY <2>4 DEF Ledger!Next
  <1>7. CASE RetentionCleanup
    <2>1. RemoveBlips(Expired) /\ Expired \in SUBSET Live /\ Expired \in SUBSET Blip
      BY <1>7 DEF RetentionCleanup, Expired, Live
    <2>2. \A b \in Expired : custody[b] \in timed
      BY <1>5, <2>1 DEF Expired, timed, NoRetention
    <2>3. Ledger!Expire(Expired)
      BY <1>5, <2>1, <2>2 DEF Ledger!Expire
    <2> QED BY <2>1, <2>3 DEF Ledger!Next
  <1> QED BY <1>1, <1>2, <1>3, <1>4, <1>6, <1>7
        DEF BlipStep, MoveBlip, MoveLatestInboxBlip

LEMMA LedgerNext ==
  RefInv /\ [Next]_vars => [Ledger!Next]_(Ledger!vars)
  <1> SUFFICES ASSUME RefInv, [Next]_vars
               PROVE  [Ledger!Next]_(Ledger!vars)
    OBVIOUS
  <1>1. CASE CreateSchema
    <2>1. custody' = custody /\ Inbox \notin workspaces
      BY <1>1, CustodyUnchanged DEF CreateSchema, Opened
    <2>2. workspaces' = workspaces \cup {Inbox} /\ timed' = timed
      BY <1>1, InboxAssumption DEF CreateSchema, AddWorkspace, Opened, timed, RefInv, TypeOK
    <2>3. Ledger!Create(Inbox, TRUE)
      BY <2>1, <2>2 DEF Ledger!Create
    <2> QED BY <2>3, InboxAssumption DEF Ledger!Next
  <1>2. ASSUME UNCHANGED <<workspaces, retention, blipVars>>
        PROVE  UNCHANGED Ledger!vars
    BY <1>2, CustodyUnchanged DEF Ledger!vars, timed
  <1>3. CASE ReadStep \/ Reopen \/ Tick \/ UNCHANGED vars
    BY <1>2, <1>3
    DEF ReadStep, ReadAgentBlips, RecordBlipEvent, RecordCaptureSkipped, Reopen, Tick,
        vars, workspaceVars
  <1> QED BY <1>1, <1>3, LedgerWorkspaceStep, LedgerBlipStep DEF Next

\* Every behaviour of the store is one of the ledger: each blip has one
\* custodian, what was removed never comes back under its identity, and only a
\* workspace that limits the life of its blips loses several at once.
THEOREM ImplementsLedger == Spec => LedgerSpec
  BY LedgerNext, LedgerInit, RefInit, RefNext, PTL DEF Spec, LedgerSpec, Ledger!Spec

-----------------------------------------------------------------------------
(* The log decides the settings *)

SettingEvents ==
  {"sticky_capture_changed", "workspace_activated", "workspace_policy_changed"}
NewRows == (Len(audit) + 1)..Len(audit')

\* No step shortens the log or rewrites a field of a row other than its blip.
LogGrows ==
  /\ audit' \in Seq(AuditRow)
  /\ Len(audit) \in Nat /\ Len(audit') \in Nat
  /\ Len(audit) <= Len(audit')
  /\ \A i \in 1..Len(audit) :
       /\ audit[i] \in AuditRow
       /\ audit'[i].type = audit[i].type
       /\ audit'[i].ws = audit[i].ws
       /\ audit'[i].detail = audit[i].detail
       /\ audit'[i].at = audit[i].at

\* A step that writes one row, of the values given.
OneRow(type, w, d) ==
  /\ LogGrows
  /\ Len(audit') = Len(audit) + 1
  /\ audit'[Len(audit) + 1] \in AuditRow
  /\ audit'[Len(audit) + 1].type = type
  /\ audit'[Len(audit) + 1].ws = w
  /\ audit'[Len(audit) + 1].detail = d

\* A step that changes no setting and logs no change of one.
Unsettled ==
  /\ LogGrows
  /\ UNCHANGED <<workspaces, agentAccess, sticky, policy, active>>
  /\ \A i \in NewRows : audit'[i].type \notin SettingEvents \cup {"blips_read"}

LEMMA OneRowWritten ==
  ASSUME TypeOK, NEW type \in EventType, NEW b \in Blip \cup {NoBlip},
         NEW w \in Workspace, NEW d \in Detail, Audited(Row(type, b, w, d))
  PROVE  OneRow(type, w, d)
  <1> DEFINE r == Row(type, b, w, d)
  <1>1. r \in AuditRow /\ r.type = type /\ r.ws = w /\ r.detail = d /\ Audited(r)
    BY RowType
  <1> HIDE DEF r
  <1>2. /\ audit' \in Seq(AuditRow) /\ Len(audit) \in Nat
        /\ Len(audit') = Len(audit) + 1
        /\ audit'[Len(audit) + 1] = r
        /\ \A i \in 1..Len(audit) : audit'[i] = audit[i] /\ audit[i] \in AuditRow
    BY <1>1, AuditedRow
  <1> QED BY <1>1, <1>2 DEF OneRow, LogGrows

LEMMA LogKept ==
  ASSUME TypeOK, UNCHANGED audit
  PROVE  LogGrows /\ NewRows = {}
  BY LenProperties, ElementOfSeq DEF TypeOK, LogGrows, NewRows

\* The steps that write no setting.
LEMMA UnsettledStep ==
  ASSUME TypeOK,
         \/ BlipStep
         \/ \E b \in Blip, w \in Workspace :
              \/ RecordBlipEvent("payload_accessed", b, w)
              \/ RecordBlipEvent("hosted_event", b, w)
         \/ \E w \in Workspace : RecordCaptureSkipped(w)
         \/ Tick \/ UNCHANGED vars
  PROVE  Unsettled
  <1>1. ASSUME NEW type \in EventType \ (SettingEvents \cup {"blips_read"}),
               NEW b \in Blip \cup {NoBlip}, NEW w \in Workspace, NEW d \in Detail,
               Audited(Row(type, b, w, d)),
               UNCHANGED <<workspaces, agentAccess, sticky, policy, active>>
        PROVE  Unsettled
    <2>1. OneRow(type, w, d)
      BY <1>1, OneRowWritten
    <2> QED BY <1>1, <2>1 DEF Unsettled, OneRow, LogGrows, NewRows
  <1>2. ASSUME NEW D, RemoveBlips(D)
        PROVE  Unsettled
    <2>1. LogGrows /\ Len(audit') = Len(audit)
      BY <1>2, ForgetRows DEF RemoveBlips, LogGrows, TypeOK
    <2> QED BY <1>2, <2>1 DEF Unsettled, LogGrows, NewRows, RemoveBlips, workspaceVars, appVars
  <1>3. ASSUME UNCHANGED <<workspaces, agentAccess, sticky, policy, active, audit>>
        PROVE  Unsettled
    BY <1>3, LogKept DEF Unsettled
  <1>4. ASSUME NEW b \in Blip, NEW w \in Workspace, InsertBlip(b, w)
        PROVE  Unsettled
    BY <1>1, <1>4 DEF InsertBlip, EventType, SettingEvents, Detail, workspaceVars, appVars
  <1>5. ASSUME NEW b \in Blip, NEW f \in Fingerprint, PrepareRecopy(b, f)
        PROVE  Unsettled
    <2>1. place[b] \in Workspace
      BY <1>5 DEF PrepareRecopy, Live, TypeOK
    <2> QED BY <1>1, <1>5, <2>1
          DEF PrepareRecopy, EventType, SettingEvents, Detail, workspaceVars
  <1>6. ASSUME NEW b \in Blip, NEW w \in Workspace, Moved(b, w)
        PROVE  Unsettled
    <2>1. place[b] \in Workspace
      BY <1>6 DEF Moved, Live, TypeOK
    <2> QED BY <1>1, <1>6, <2>1
          DEF Moved, EventType, SettingEvents, Detail, workspaceVars, appVars
  <1>7. ASSUME NEW f \in Fingerprint, ConsumeSuppression(f)
        PROVE  Unsettled
    BY <1>3, <1>7 DEF ConsumeSuppression, workspaceVars
  <1>8. ASSUME BlipStep PROVE Unsettled
    BY <1>2, <1>4, <1>5, <1>6, <1>7, <1>8
    DEF BlipStep, MoveBlip, MoveLatestInboxBlip, DeleteBlip, RetentionCleanup
  <1>9. ASSUME NEW b \in Blip, NEW w \in Workspace, NEW type \in {"payload_accessed", "hosted_event"},
               RecordBlipEvent(type, b, w)
        PROVE  Unsettled
    BY <1>1, <1>9
    DEF RecordBlipEvent, EventType, SettingEvents, Detail, workspaceVars, appVars
  <1>10. ASSUME NEW w \in Workspace, RecordCaptureSkipped(w)
         PROVE  Unsettled
    BY <1>1, <1>10
    DEF RecordCaptureSkipped, EventType, SettingEvents, Detail, workspaceVars, appVars
  <1>11. ASSUME Tick \/ UNCHANGED vars PROVE Unsettled
    BY <1>3, <1>11 DEF Tick, vars, workspaceVars, appVars
  <1> QED BY <1>8, <1>9, <1>10, <1>11
-----------------------------------------------------------------------------
\* Rows that are not there any more, or not yet, change none of these sets.
LEMMA SameRows ==
  ASSUME LogGrows, NEW types, \A i \in NewRows : audit'[i].type \notin types
  PROVE  /\ TypeRows(types)' = TypeRows(types)
         /\ \A w : WorkspaceRows(types, w)' = WorkspaceRows(types, w)
         /\ \A i \in TypeRows(types) :
              audit'[i].ws = audit[i].ws /\ audit'[i].detail = audit[i].detail
  <1>1. \A i \in 1..Len(audit') : i \in 1..Len(audit) \/ i \in NewRows
    BY DEF LogGrows, NewRows
  <1>2. \A i \in 1..Len(audit) :
          /\ i \in 1..Len(audit')
          /\ audit'[i].type = audit[i].type
          /\ audit'[i].ws = audit[i].ws
          /\ audit'[i].detail = audit[i].detail
    BY DEF LogGrows
  <1>3. TypeRows(types)' = TypeRows(types)
    BY <1>1, <1>2 DEF TypeRows
  <1>4. \A w : WorkspaceRows(types, w)' = WorkspaceRows(types, w)
    BY <1>1, <1>2 DEF WorkspaceRows
  <1> QED BY <1>2, <1>3, <1>4 DEF TypeRows

\* The permission and policy rows of a workspace stay the same too.
LEMMA SameSettingRows ==
  ASSUME LogGrows, NEW w,
         \A i \in NewRows : audit'[i].type # "workspace_policy_changed" \/ audit'[i].ws # w
  PROVE  /\ AccessRows(w)' = AccessRows(w)
         /\ PolicyRows(w)' = PolicyRows(w)
         /\ \A i \in AccessRows(w) \cup PolicyRows(w) : audit'[i].detail = audit[i].detail
  <1>1. \A i \in 1..Len(audit') : i \in 1..Len(audit) \/ i \in NewRows
    BY DEF LogGrows, NewRows
  <1>2. \A i \in 1..Len(audit) :
          /\ i \in 1..Len(audit')
          /\ audit'[i].type = audit[i].type
          /\ audit'[i].ws = audit[i].ws
          /\ audit'[i].detail = audit[i].detail
    BY DEF LogGrows
  <1> QED BY <1>1, <1>2 DEF AccessRows, PolicyRows, WorkspaceRows
-----------------------------------------------------------------------------
StickyRows == TypeRows({"sticky_capture_changed"})
ActiveRows == TypeRows({"workspace_activated"})
ReadRows == TypeRows({"blips_read"})

\* The conjuncts of SettingsMatchAudit; a workspace that was activated is never
\* forgotten, so the first opening of the database replaces none.
StickyLogged ==
  /\ \A v, w \in sticky : v = w
  /\ \A i \in StickyRows :
       IsLast(i, StickyRows) => (audit[i].detail = "enabled" <=> sticky = {audit[i].ws})
ActiveLogged ==
  /\ ActiveRows # {} => active # NoWorkspace
  /\ \A i \in ActiveRows : IsLast(i, ActiveRows) => active = audit[i].ws
PolicyLogged(w) ==
  \A i \in PolicyRows(w) : IsLast(i, PolicyRows(w)) => policy[w] = audit[i].detail
AccessLogged(w) ==
  \A i \in AccessRows(w) :
    IsLast(i, AccessRows(w)) => (w \in agentAccess <=> audit[i].detail = "enabled")

\* The last of the rows about a permission exists when there are any: what
\* the authorization of a new read is compared with.
AccessDecided(w) == AccessRows(w) = {} \/ \E i \in AccessRows(w) : IsLast(i, AccessRows(w))

\* AgentReadsAuthorized, of one row.
Authorized(i) ==
  LET w == audit[i].ws
      before == {j \in AccessRows(w) : j < i}
  IN  \/ \E j \in before : IsLast(j, before) /\ audit[j].detail = "enabled"
      \/ before = {} /\ (AccessRows(w) = {} => w \in agentAccess)

SettingsInv ==
  /\ RefInv
  /\ StickyLogged
  /\ ActiveLogged
  /\ \A w \in workspaces : PolicyLogged(w) /\ AccessLogged(w) /\ AccessDecided(w)
  /\ \A i \in ReadRows : Authorized(i)

\* The steps that change a setting, or log a read, and what they log.
LEMMA SettingStep ==
  ASSUME RefInv, [Next]_vars
  PROVE  \/ Unsettled
         \/ \E w \in Workspace, e \in Setting :
              SetStickyCapture(w, e) /\ OneRow("sticky_capture_changed", w, e)
         \/ \E w \in Workspace :
              SetActiveWorkspace(w) /\ OneRow("workspace_activated", w, NoDetail)
         \/ \E w \in Workspace, p \in Policy :
              SetWorkspacePolicy(w, p) /\ OneRow("workspace_policy_changed", w, p)
         \/ \E w \in Workspace, e \in Setting :
              SetAgentAccess(w, e) /\ OneRow("workspace_policy_changed", w, e)
         \/ \E w \in Workspace : ReadAgentBlips(w) /\ OneRow("blips_read", w, NoDetail)
         \/ \E w \in Workspace, r \in Request :
              CreateWorkspace(w, r) /\ OneRow("workspace_created", w, NoDetail)
         \/ CreateSchema
  <1>1. TypeOK
    BY DEF RefInv
  <1>2. ASSUME NEW type \in EventType, NEW w \in Workspace, NEW d \in Detail,
               Audited(Row(type, NoBlip, w, d))
        PROVE  OneRow(type, w, d)
    BY <1>1, <1>2, OneRowWritten
  <1>3. ASSUME NEW w \in Workspace, NEW e \in Setting, SetStickyCapture(w, e)
        PROVE  OneRow("sticky_capture_changed", w, e)
    BY <1>2, <1>3 DEF SetStickyCapture, EventType, Detail
  <1>4. ASSUME NEW w \in Workspace, SetActiveWorkspace(w)
        PROVE  OneRow("workspace_activated", w, NoDetail)
    BY <1>2, <1>4 DEF SetActiveWorkspace, EventType, Detail
  <1>5. ASSUME NEW w \in Workspace, NEW p \in Policy, SetWorkspacePolicy(w, p)
        PROVE  OneRow("workspace_policy_changed", w, p)
    BY <1>2, <1>5 DEF SetWorkspacePolicy, EventType, Detail
  <1>6. ASSUME NEW w \in Workspace, NEW e \in Setting, SetAgentAccess(w, e)
        PROVE  OneRow("workspace_policy_changed", w, e)
    BY <1>2, <1>6 DEF SetAgentAccess, EventType, Detail
  <1>7. ASSUME NEW w \in Workspace, ReadAgentBlips(w)
        PROVE  OneRow("blips_read", w, NoDetail)
    BY <1>2, <1>7 DEF ReadAgentBlips, EventType, Detail
  <1>8. ASSUME NEW w \in Workspace, NEW r \in Request, CreateWorkspace(w, r)
        PROVE  OneRow("workspace_created", w, NoDetail)
    BY <1>2, <1>8 DEF CreateWorkspace, EventType, Detail
  <1>9. CASE WorkspaceStep
    BY <1>3, <1>4, <1>5, <1>6, <1>8, <1>9 DEF WorkspaceStep
  <1>10. CASE ReadStep
    BY <1>1, <1>7, <1>10, UnsettledStep DEF ReadStep
  <1>11. CASE BlipStep \/ Reopen \/ Tick \/ UNCHANGED vars
    BY <1>1, <1>11, UnsettledStep DEF Reopen
  <1> QED BY <1>9, <1>10, <1>11 DEF Next

\* A row written last is the last of its kind.
LEMMA NewRowLast ==
  ASSUME NEW type, NEW w, NEW d, OneRow(type, w, d)
  PROVE  /\ NewRows = {Len(audit) + 1}
         /\ \A types : type \in types =>
              /\ TypeRows(types)' = TypeRows(types) \cup {Len(audit) + 1}
              /\ \A i : IsLast(i, TypeRows(types))' => i = Len(audit) + 1
         /\ \A i \in 1..Len(audit) : i < Len(audit) + 1
  <1>1. Len(audit) \in Nat /\ Len(audit') = Len(audit) + 1
    BY DEF OneRow, LogGrows
  <1>2. \A types : type \in types =>
          TypeRows(types)' = TypeRows(types) \cup {Len(audit) + 1}
    BY <1>1 DEF OneRow, LogGrows, TypeRows
  <1>3. \A types : TypeRows(types)' \subseteq 1..(Len(audit) + 1)
    BY <1>1 DEF TypeRows
  <1>4. ASSUME NEW types, type \in types, NEW i, IsLast(i, TypeRows(types))'
        PROVE  i = Len(audit) + 1
    <2> DEFINE R == TypeRows(types)'
    <2>1. Len(audit) + 1 \in R /\ R \subseteq 1..(Len(audit) + 1)
      BY <1>2, <1>3, <1>4
    <2>2. i \in R /\ \A j \in R : j <= i
      BY <1>4 DEF IsLast
    <2> HIDE DEF R
    <2> QED BY <1>1, <2>1, <2>2
  <1>5. NewRows = {Len(audit) + 1}
    BY <1>1 DEF NewRows
  <1> QED BY <1>1, <1>2, <1>4, <1>5
\* The highest number a set of rows can hold is its last row when it is there.
LEMMA TopIsLast ==
  ASSUME NEW n \in Nat, NEW R, n \in R, R \subseteq 1..n
  PROVE  IsLast(n, R) /\ \A i : IsLast(i, R) => i = n
  <1>1. \A j \in R : j \in Nat /\ j <= n
    OBVIOUS
  <1>2. ASSUME NEW i, IsLast(i, R) PROVE i = n
    <2>1. i \in R /\ n <= i
      BY <1>2 DEF IsLast
    <2> QED BY <1>1, <2>1
  <1> QED BY <1>1, <1>2 DEF IsLast

\* What the first opening of the database does to the settings.
LEMMA SchemaSettings ==
  ASSUME RefInv, CreateSchema
  PROVE  /\ LogGrows
         /\ Inbox \in Workspace /\ Inbox \notin workspaces
         /\ \A i \in NewRows : audit'[i].type \in {"workspace_created", "schema_initialized"}
         /\ UNCHANGED <<agentAccess, sticky>>
         /\ workspaces' = workspaces \cup {Inbox}
         /\ \A w \in Workspace \ {Inbox} : policy'[w] = policy[w]
         /\ active # NoWorkspace => active' = active
  <1>1. TypeOK
    BY DEF RefInv
  <1>2. LogGrows /\ \A i \in NewRows : audit'[i].type \in {"workspace_created", "schema_initialized"}
    <2>1. \A i \in NewRows : i \in {Len(audit) + 1, Len(audit) + 2}
      BY <1>1, SchemaRows DEF NewRows
    <2>2. LogGrows
      BY <1>1, SchemaRows, LenProperties DEF LogGrows
    <2> QED BY <1>1, <2>1, <2>2, SchemaRows
  <1> QED BY <1>1, <1>2, InboxAssumption DEF CreateSchema, AddWorkspace, Opened, TypeOK

LEMMA StickyFrame ==
  ASSUME LogGrows, StickyLogged, UNCHANGED sticky,
         \A i \in NewRows : audit'[i].type # "sticky_capture_changed"
  PROVE  StickyLogged'
  <1>1. /\ StickyRows' = StickyRows
        /\ \A i \in StickyRows :
             audit'[i].ws = audit[i].ws /\ audit'[i].detail = audit[i].detail
    BY SameRows DEF StickyRows
  <1> QED BY <1>1 DEF StickyLogged, IsLast

LEMMA StickyNext == SettingsInv /\ [Next]_vars => StickyLogged'
  <1> SUFFICES ASSUME SettingsInv, [Next]_vars PROVE StickyLogged'
    OBVIOUS
  <1>1. RefInv /\ StickyLogged /\ TypeOK
    BY DEF SettingsInv, RefInv
  <1>2. CASE Unsettled
    BY <1>1, <1>2, StickyFrame DEF Unsettled, SettingEvents
  <1>3. ASSUME NEW w \in Workspace, NEW e \in Setting, SetStickyCapture(w, e),
               OneRow("sticky_capture_changed", w, e)
        PROVE  StickyLogged'
    <2>1. \A i \in StickyRows' : IsLast(i, StickyRows') =>
            audit'[i].ws = w /\ audit'[i].detail = e
      <3>1. \A i : IsLast(i, StickyRows)' => i = Len(audit) + 1
        BY <1>3, NewRowLast DEF StickyRows
      <3> QED BY <1>3, <3>1 DEF OneRow, IsLast
    <2>2. sticky' = IF e = "enabled" THEN {w} ELSE sticky \ {w}
      BY <1>3 DEF SetStickyCapture
    <2>3. e = "enabled" <=> sticky' = {w}
      BY <2>2
    <2>4. \A u, v \in sticky' : u = v
      BY <1>1, <2>2 DEF StickyLogged
    <2> QED BY <2>1, <2>3, <2>4 DEF StickyLogged
  <1>4. ASSUME NEW type, NEW w, NEW d, OneRow(type, w, d),
               type # "sticky_capture_changed", UNCHANGED sticky
        PROVE  StickyLogged'
    <2>1. LogGrows /\ \A i \in NewRows : audit'[i].type = type
      BY <1>4, NewRowLast DEF OneRow
    <2> QED BY <1>1, <1>4, <2>1, StickyFrame
  <1>5. ASSUME NEW w \in Workspace, NEW r \in Request, CreateWorkspace(w, r)
        PROVE  UNCHANGED sticky
    BY <1>5, StickyAssumption DEF CreateWorkspace, AddWorkspace
  <1>6. CASE CreateSchema
    BY <1>1, <1>6, SchemaSettings, StickyFrame
  <1> QED BY <1>1, <1>2, <1>3, <1>4, <1>5, <1>6, SettingStep
        DEF SetActiveWorkspace, SetWorkspacePolicy, SetAgentAccess, ReadAgentBlips,
            workspaceVars

LEMMA ActiveFrame ==
  ASSUME LogGrows, ActiveLogged, ActiveRows # {} => UNCHANGED active,
         \A i \in NewRows : audit'[i].type # "workspace_activated"
  PROVE  ActiveLogged'
  <1>1. /\ ActiveRows' = ActiveRows
        /\ \A i \in ActiveRows : audit'[i].ws = audit[i].ws
    BY SameRows DEF ActiveRows
  <1> QED BY <1>1 DEF ActiveLogged, IsLast

LEMMA ActiveNext == SettingsInv /\ [Next]_vars => ActiveLogged'
  <1> SUFFICES ASSUME SettingsInv, [Next]_vars PROVE ActiveLogged'
    OBVIOUS
  <1>1. RefInv /\ ActiveLogged /\ TypeOK
    BY DEF SettingsInv, RefInv
  <1>2. CASE Unsettled
    BY <1>1, <1>2, ActiveFrame DEF Unsettled, SettingEvents
  <1>3. ASSUME NEW w \in Workspace, SetActiveWorkspace(w),
               OneRow("workspace_activated", w, NoDetail)
        PROVE  ActiveLogged'
    <2>1. \A i : IsLast(i, ActiveRows)' => i = Len(audit) + 1
      BY <1>3, NewRowLast DEF ActiveRows
    <2>2. active' = w /\ w # NoWorkspace
      BY <1>3, NullAssumption DEF SetActiveWorkspace
    <2> QED BY <1>3, <2>1, <2>2 DEF OneRow, IsLast, ActiveLogged
  <1>4. ASSUME NEW type, NEW w, NEW d, OneRow(type, w, d),
               type # "workspace_activated", UNCHANGED active
        PROVE  ActiveLogged'
    <2>1. LogGrows /\ \A i \in NewRows : audit'[i].type = type
      BY <1>4, NewRowLast DEF OneRow
    <2> QED BY <1>1, <1>4, <2>1, ActiveFrame
  <1>5. CASE CreateSchema
    BY <1>1, <1>5, SchemaSettings, ActiveFrame DEF ActiveLogged
  <1> QED BY <1>1, <1>2, <1>3, <1>4, <1>5, SettingStep
        DEF SetStickyCapture, SetWorkspacePolicy, SetAgentAccess, ReadAgentBlips,
            CreateWorkspace, appVars
LEMMA PolicyFrame ==
  ASSUME LogGrows, NEW w, PolicyLogged(w), policy'[w] = policy[w],
         \A i \in NewRows : audit'[i].type # "workspace_policy_changed" \/ audit'[i].ws # w
  PROVE  PolicyLogged(w)'
  BY SameSettingRows DEF PolicyLogged, IsLast

LEMMA AccessFrame ==
  ASSUME LogGrows, NEW w, AccessLogged(w), AccessDecided(w),
         w \in agentAccess' <=> w \in agentAccess,
         \A i \in NewRows : audit'[i].type # "workspace_policy_changed" \/ audit'[i].ws # w
  PROVE  AccessLogged(w)' /\ AccessDecided(w)'
  BY SameSettingRows DEF AccessLogged, AccessDecided, IsLast

\* The values a row can say the permission or the policy was set to differ.
LEMMA SettingNotPolicy == Setting \cap Policy = {}
  BY DetailAssumption

\* A workspace the log does not mention has no rows.
LEMMA Unmentioned ==
  ASSUME RefInv, NEW w, w \notin workspaces
  PROVE  AccessRows(w) = {} /\ PolicyRows(w) = {}
  BY DEF RefInv, ReferencesResolve, AccessRows, PolicyRows, WorkspaceRows

SettingsLogged(w) == PolicyLogged(w) /\ AccessLogged(w) /\ AccessDecided(w)

LEMMA PolicyNext == SettingsInv /\ [Next]_vars => \A w \in workspaces' : SettingsLogged(w)'
  <1> SUFFICES ASSUME SettingsInv, [Next]_vars, NEW v \in workspaces'
               PROVE  SettingsLogged(v)'
    OBVIOUS
  <1>1. /\ RefInv /\ TypeOK /\ TypeOK' /\ v \in Workspace
        /\ v \in workspaces => SettingsLogged(v)
    BY TypeNext DEF SettingsInv, RefInv, TypeOK, SettingsLogged
  <1>2. ASSUME LogGrows, v \in workspaces, policy'[v] = policy[v],
               v \in agentAccess' <=> v \in agentAccess,
               \A i \in NewRows : audit'[i].type # "workspace_policy_changed" \/ audit'[i].ws # v
        PROVE  SettingsLogged(v)'
    BY <1>1, <1>2, PolicyFrame, AccessFrame DEF SettingsLogged
  <1>3. ASSUME NEW type, NEW w, NEW d, OneRow(type, w, d),
               type # "workspace_policy_changed" \/ w # v
        PROVE  /\ LogGrows
               /\ \A i \in NewRows : audit'[i].type # "workspace_policy_changed"
                                     \/ audit'[i].ws # v
    BY <1>3, NewRowLast DEF OneRow
  <1>4. ASSUME LogGrows, v \notin workspaces,
               \A i \in NewRows : audit'[i].type # "workspace_policy_changed"
        PROVE  SettingsLogged(v)'
    <2>1. AccessRows(v)' = {} /\ PolicyRows(v)' = {}
      BY <1>1, <1>4, Unmentioned, SameSettingRows
    <2> QED BY <2>1 DEF SettingsLogged, PolicyLogged, AccessLogged, AccessDecided
  <1>5. CASE Unsettled
    BY <1>2, <1>5 DEF Unsettled, SettingEvents
  <1>6. ASSUME NEW w \in Workspace, NEW p \in Policy, SetWorkspacePolicy(w, p),
               OneRow("workspace_policy_changed", w, p)
        PROVE  SettingsLogged(v)'
    <2>1. /\ workspaces' = workspaces /\ agentAccess' = agentAccess
          /\ policy' = [policy EXCEPT ![w] = p]
      BY <1>6 DEF SetWorkspacePolicy
    <2>2. CASE v # w
      BY <1>1, <1>2, <1>3, <1>6, <2>1, <2>2 DEF TypeOK
    <2>3. CASE v = w
      <3>1. PolicyLogged(v)'
        <4> DEFINE R == PolicyRows(v)'
        <4>1. Len(audit) + 1 \in R /\ R \subseteq 1..(Len(audit) + 1)
          BY <1>6, <2>3 DEF OneRow, LogGrows, PolicyRows, WorkspaceRows
        <4>2. \A i : IsLast(i, R) => i = Len(audit) + 1
          BY <1>6, <4>1, TopIsLast DEF OneRow, LogGrows
        <4>3. policy'[v] = audit'[Len(audit) + 1].detail
          BY <1>1, <1>6, <2>1, <2>3 DEF TypeOK, OneRow
        <4> QED BY <4>2, <4>3 DEF PolicyLogged, IsLast
      <3>2. AccessRows(v)' = AccessRows(v)
            /\ \A i \in AccessRows(v) : audit'[i].detail = audit[i].detail
        <4>1. \A i \in 1..Len(audit') : i \in 1..Len(audit) \/ audit'[i].detail \notin Setting
          BY <1>6, SettingNotPolicy DEF OneRow, LogGrows
        <4> QED BY <1>6, <4>1 DEF OneRow, LogGrows, AccessRows, WorkspaceRows
      <3> QED BY <1>1, <2>1, <3>1, <3>2
            DEF SettingsLogged, AccessLogged, AccessDecided, IsLast
    <2> QED BY <2>2, <2>3
  <1>7. ASSUME NEW w \in Workspace, NEW e \in Setting, SetAgentAccess(w, e),
               OneRow("workspace_policy_changed", w, e)
        PROVE  SettingsLogged(v)'
    <2>1. /\ workspaces' = workspaces /\ policy' = policy
          /\ agentAccess' = IF e = "enabled" THEN agentAccess \cup {w} ELSE agentAccess \ {w}
      BY <1>7 DEF SetAgentAccess
    <2>2. CASE v # w
      BY <1>1, <1>2, <1>3, <1>7, <2>1, <2>2
    <2>3. CASE v = w
      <3>1. AccessLogged(v)' /\ AccessDecided(v)'
        <4> DEFINE R == AccessRows(v)'
        <4>1. Len(audit) + 1 \in R /\ R \subseteq 1..(Len(audit) + 1)
          BY <1>7, <2>3 DEF OneRow, LogGrows, AccessRows, WorkspaceRows
        <4>2. /\ \A i : IsLast(i, R) => i = Len(audit) + 1
              /\ IsLast(Len(audit) + 1, R)
          <5> HIDE DEF R
          <5>1. Len(audit) + 1 \in Nat
            BY <1>7 DEF OneRow, LogGrows
          <5> QED BY <4>1, <5>1, TopIsLast
        <4>3. v \in agentAccess' <=> audit'[Len(audit) + 1].detail = "enabled"
          BY <1>7, <2>1, <2>3 DEF OneRow
        <4>4. AccessDecided(v)'
          BY <4>1, <4>2 DEF AccessDecided
        <4>5. ASSUME NEW i \in R, IsLast(i, R)
              PROVE  v \in agentAccess' <=> audit'[i].detail = "enabled"
          BY <4>2, <4>3, <4>5
        <4> QED BY <4>4, <4>5 DEF AccessLogged, IsLast
      <3>2. PolicyRows(v)' = PolicyRows(v)
            /\ \A i \in PolicyRows(v) : audit'[i].detail = audit[i].detail
        <4>1. \A i \in 1..Len(audit') : i \in 1..Len(audit) \/ audit'[i].detail \notin Policy
          BY <1>7, SettingNotPolicy DEF OneRow, LogGrows
        <4> QED BY <1>7, <4>1 DEF OneRow, LogGrows, PolicyRows, WorkspaceRows
      <3> QED BY <1>1, <2>1, <3>1, <3>2 DEF SettingsLogged, PolicyLogged, IsLast
    <2> QED BY <2>2, <2>3
  <1>8. ASSUME NEW type, NEW w, NEW d, OneRow(type, w, d),
               type # "workspace_policy_changed",
               UNCHANGED <<workspaces, agentAccess, policy>>
        PROVE  SettingsLogged(v)'
    BY <1>2, <1>3, <1>8
  <1>9. ASSUME NEW w \in Workspace, NEW r \in Request, CreateWorkspace(w, r),
               OneRow("workspace_created", w, NoDetail)
        PROVE  SettingsLogged(v)'
    <2>1. /\ workspaces' = workspaces \cup {w} /\ w \notin workspaces
          /\ agentAccess \subseteq agentAccess' /\ agentAccess' \subseteq agentAccess \cup {w}
          /\ policy' = [policy EXCEPT ![w] = DefaultPolicy]
      BY <1>9 DEF CreateWorkspace, AddWorkspace
    <2>2. LogGrows /\ \A i \in NewRows : audit'[i].type # "workspace_policy_changed"
      BY <1>9, NewRowLast DEF OneRow
    <2>3. CASE v = w
      BY <1>4, <2>1, <2>2, <2>3
    <2>4. CASE v # w
      BY <1>1, <1>2, <2>1, <2>2, <2>4 DEF TypeOK
    <2> QED BY <2>3, <2>4
  <1>10. CASE CreateSchema
    <2>1. LogGrows /\ \A i \in NewRows : audit'[i].type # "workspace_policy_changed"
      BY <1>1, <1>10, SchemaSettings
    <2>2. CASE v = Inbox
      BY <1>1, <1>4, <1>10, <2>1, <2>2, SchemaSettings
    <2>3. CASE v # Inbox
      BY <1>1, <1>2, <1>10, <2>1, <2>3, SchemaSettings
    <2> QED BY <2>2, <2>3
  <1> QED BY <1>1, <1>5, <1>6, <1>7, <1>8, <1>9, <1>10, SettingStep
        DEF SetStickyCapture, SetActiveWorkspace, ReadAgentBlips, workspaceVars
\* A row about a read stays authorized as long as no row about the permission
\* is put before it and its workspace keeps the permission it was created with.
LEMMA AuthorizedFrame ==
  ASSUME SettingsInv, LogGrows, NEW i \in ReadRows, NEW w, w = audit[i].ws,
         \A j \in AccessRows(w)' : j \in AccessRows(w) \/ i < j,
         \A j \in AccessRows(w) : j \in AccessRows(w)',
         AccessRows(w)' = {} => (w \in agentAccess => w \in agentAccess')
  PROVE  Authorized(i)'
  <1> DEFINE before == {j \in AccessRows(w) : j < i}
  <1>1. /\ i \in 1..Len(audit) /\ audit'[i].ws = w
        /\ \A j \in 1..Len(audit) : audit'[j].detail = audit[j].detail
    BY DEF ReadRows, TypeRows, LogGrows
  <1>2. AccessRows(w) \subseteq 1..Len(audit) /\ AccessRows(w)' \subseteq 1..Len(audit')
    BY DEF AccessRows, WorkspaceRows
  <1>3. {j \in AccessRows(w)' : j < i} = before
    BY <1>1, <1>2 DEF LogGrows
  <1>4. Authorized(i)
    BY DEF SettingsInv
  <1>5. before \subseteq 1..Len(audit)
    BY <1>2
  <1>6. CASE \E j \in before : IsLast(j, before) /\ audit[j].detail = "enabled"
    <2>1. \E j \in before : IsLast(j, before) /\ audit'[j].detail = "enabled"
      BY <1>1, <1>5, <1>6
    <2> QED BY <1>1, <1>3, <2>1 DEF Authorized
  <1>7. CASE before = {} /\ (AccessRows(w) = {} => w \in agentAccess)
    <2>1. AccessRows(w)' = {} => w \in agentAccess'
      BY <1>7
    <2> QED BY <1>1, <1>3, <1>7, <2>1 DEF Authorized
  <1> QED BY <1>4, <1>6, <1>7 DEF Authorized

LEMMA ReadsNext == SettingsInv /\ [Next]_vars => \A i \in ReadRows' : Authorized(i)'
  <1> SUFFICES ASSUME SettingsInv, [Next]_vars, NEW i \in ReadRows'
               PROVE  Authorized(i)'
    OBVIOUS
  <1>1. RefInv /\ TypeOK
    BY DEF SettingsInv, RefInv
  <1>2. ASSUME LogGrows, i \in ReadRows,
               \A j \in NewRows : audit'[j].type # "workspace_policy_changed"
                                  \/ audit'[j].ws # audit[i].ws,
               audit[i].ws \in agentAccess => audit[i].ws \in agentAccess'
        PROVE  Authorized(i)'
    BY <1>2, SameSettingRows, AuthorizedFrame
  <1>3. ASSUME LogGrows, \A j \in NewRows : audit'[j].type # "blips_read"
        PROVE  i \in ReadRows /\ audit[i].ws \in workspaces
    <2>1. i \in ReadRows
      BY <1>3, SameRows DEF ReadRows
    <2> QED BY <1>1, <2>1 DEF RefInv, ReferencesResolve, ReadRows, TypeRows
  <1>4. CASE Unsettled
    BY <1>2, <1>3, <1>4 DEF Unsettled, SettingEvents
  <1>5. ASSUME NEW type, NEW w, NEW d, OneRow(type, w, d)
        PROVE  LogGrows /\ \A j \in NewRows : audit'[j].type = type /\ audit'[j].ws = w
    BY <1>5, NewRowLast DEF OneRow
  <1>6. ASSUME NEW type, NEW w, NEW d, OneRow(type, w, d),
               type \notin {"workspace_policy_changed", "blips_read"}, agentAccess \subseteq agentAccess'
        PROVE  Authorized(i)'
    BY <1>2, <1>3, <1>5, <1>6
  <1>7. ASSUME NEW w \in Workspace, NEW d, OneRow("workspace_policy_changed", w, d),
               \A v \in agentAccess : v # w => v \in agentAccess',
               \/ d \in Setting
               \/ d \notin Setting /\ agentAccess \subseteq agentAccess'
        PROVE  Authorized(i)'
    <2>1. LogGrows /\ i \in ReadRows /\ \A j \in NewRows : audit'[j].ws = w
      BY <1>3, <1>5, <1>7
    <2>2. CASE audit[i].ws # w
      BY <1>2, <1>7, <2>1, <2>2
    <2>3. CASE audit[i].ws = w
      <3>1. \A j \in AccessRows(w)' : j \in AccessRows(w) \/ i < j
        BY <1>7, <2>1 DEF OneRow, LogGrows, AccessRows, WorkspaceRows, ReadRows, TypeRows
      <3>2. \A j \in AccessRows(w) : j \in AccessRows(w)'
        BY <2>1 DEF LogGrows, AccessRows, WorkspaceRows
      <3>3. d \in Setting => Len(audit) + 1 \in AccessRows(w)'
        BY <1>7 DEF OneRow, LogGrows, AccessRows, WorkspaceRows
      <3> QED BY <1>7, <2>1, <2>3, <3>1, <3>2, <3>3, AuthorizedFrame
    <2> QED BY <2>2, <2>3
  <1>8. ASSUME NEW w \in Workspace, ReadAgentBlips(w), OneRow("blips_read", w, NoDetail)
        PROVE  Authorized(i)'
    <2>1. /\ LogGrows /\ w \in workspaces /\ w \in agentAccess
          /\ agentAccess' = agentAccess
      BY <1>8 DEF ReadAgentBlips, MayRead, OneRow, workspaceVars
    <2>2. /\ AccessRows(w)' = AccessRows(w)
          /\ \A j \in AccessRows(w) : audit'[j].detail = audit[j].detail
      BY <1>5, <1>8, <2>1, SameSettingRows
    <2>3. CASE i = Len(audit) + 1
      <3> DEFINE R == AccessRows(w)
      <3>1. R \subseteq 1..Len(audit)
        BY DEF AccessRows, WorkspaceRows
      <3>2. audit'[i].ws = w /\ {j \in R : j < i} = R
        BY <1>8, <2>1, <2>3, <3>1 DEF OneRow, LogGrows
      <3>3. AccessLogged(w) /\ AccessDecided(w)
        BY <2>1 DEF SettingsInv
      <3>4. CASE R = {}
        BY <2>1, <2>2, <3>2, <3>4 DEF Authorized
      <3>5. CASE R # {}
        <4>1. PICK j \in R : IsLast(j, R)
          BY <3>3, <3>5 DEF AccessDecided
        <4>2. audit'[j].detail = "enabled"
          BY <2>1, <2>2, <3>3, <4>1 DEF AccessLogged
        <4> QED BY <2>2, <3>2, <4>1, <4>2 DEF Authorized
      <3> QED BY <3>4, <3>5
    <2>4. CASE i # Len(audit) + 1
      <3>1. i \in ReadRows
        BY <1>8, <2>4 DEF OneRow, LogGrows, ReadRows, TypeRows
      <3> QED BY <1>2, <1>5, <1>8, <2>1, <3>1
    <2> QED BY <2>3, <2>4
  <1>9. CASE CreateSchema
    BY <1>1, <1>2, <1>3, <1>9, SchemaSettings
  <1>10. ASSUME NEW w \in Workspace, NEW r \in Request, CreateWorkspace(w, r)
         PROVE  agentAccess \subseteq agentAccess'
    BY <1>10 DEF CreateWorkspace, AddWorkspace
  <1>11. ASSUME NEW w \in Workspace, NEW e \in Setting, SetAgentAccess(w, e)
         PROVE  \A v \in agentAccess : v # w => v \in agentAccess'
    BY <1>11 DEF SetAgentAccess
  <1> QED BY <1>1, <1>4, <1>6, <1>7, <1>8, <1>9, <1>10, <1>11, SettingStep, SettingNotPolicy
        DEF SetStickyCapture, SetActiveWorkspace, SetWorkspacePolicy, workspaceVars

LEMMA SettingsInit == Init => SettingsInv
  <1>1. ASSUME Init PROVE \A types : TypeRows(types) = {}
    BY <1>1, EmptySeq DEF Init, TypeRows
  <1> QED BY <1>1, RefInit
        DEF Init, SettingsInv, StickyLogged, ActiveLogged, StickyRows, ActiveRows, ReadRows

LEMMA SettingsNext == SettingsInv /\ [Next]_vars => SettingsInv'
  BY RefNext, StickyNext, ActiveNext, PolicyNext, ReadsNext DEF SettingsInv, SettingsLogged

LEMMA SettingsFollow == SettingsInv => SettingsMatchAudit /\ AgentReadsAuthorized
  BY DEF SettingsInv, StickyLogged, ActiveLogged, PolicyLogged, AccessLogged, StickyRows,
         ActiveRows, ReadRows, Authorized, SettingsMatchAudit, AgentReadsAuthorized

\* Whatever operations are interleaved, the log alone tells every setting:
\* the sticky workspace, the active one, each policy and each agent permission
\* is what the last row about it says, however many rows there are.
THEOREM SettingsExplained == Spec => []SettingsMatchAudit
  BY SettingsInit, SettingsNext, SettingsFollow, PTL DEF Spec

\* No agent ever reads a workspace after its permission was withdrawn and
\* before it was given back: the check, the read and the row of the read are
\* one transaction.
THEOREM AgentReadsCorrect == Spec => []AgentReadsAuthorized
  BY SettingsInit, SettingsNext, SettingsFollow, PTL DEF Spec
-----------------------------------------------------------------------------
(* The times the log says and the times the tables hold *)

\* The time a blip sorts by is that of the last row that says it was captured
\* or copied again.
TouchDated(b) ==
  \A i \in BlipRows(Touch, b) : IsLast(i, BlipRows(Touch, b)) => audit[i].at = sortAt[b]
\* The time retention counts from is that of the one row about its capture.
CaptureDated(b) ==
  \A i \in BlipRows({"blip_ingested"}, b) : audit[i].at = createdAt[b]
Dated(b) == TouchDated(b) /\ CaptureDated(b)

\* Without the last conjunct a limit other than "none" could be negative.
TimesInv ==
  /\ RefInv
  /\ \A b \in Live : Dated(b)
  /\ \A w \in Workspace : retention[w] = NoRetention \/ retention[w] >= 0

\* A row that touches no time of b.
LEMMA DatedOtherRow ==
  ASSUME TypeOK, NEW r \in AuditRow, Audited(r), NEW b \in Blip, Dated(b),
         ~(r.type \in Touch /\ r.blip = b),
         sortAt'[b] = sortAt[b], createdAt'[b] = createdAt[b]
  PROVE  Dated(b)'
  <1>1. \A types \in {Touch, {"blip_ingested"}} : BlipRows(types, b)' = BlipRows(types, b)
    BY AuditedRow DEF BlipRows, Touch
  <1>2. \A types : \A i \in BlipRows(types, b) : audit'[i] = audit[i]
    BY AuditedRow DEF BlipRows
  <1> QED BY <1>1, <1>2 DEF Dated, TouchDated, CaptureDated, IsLast

\* A row about a capture or a recopy of b carries the time b then sorts by.
LEMMA DatedNewTouch ==
  ASSUME TypeOK, NEW r \in AuditRow, Audited(r), NEW b \in Blip,
         r.type \in Touch, r.blip = b, r.at = sortAt'[b]
  PROVE  TouchDated(b)'
  <1> DEFINE R == BlipRows(Touch, b)'
  <1>1. /\ Len(audit) + 1 \in Nat
        /\ Len(audit) + 1 \in R /\ R \subseteq 1..(Len(audit) + 1)
        /\ audit'[Len(audit) + 1].at = sortAt'[b]
    BY AuditedRow DEF BlipRows
  <1> HIDE DEF R
  <1>2. \A i : IsLast(i, R) => i = Len(audit) + 1
    BY <1>1, TopIsLast
  <1>3. \A i \in R : IsLast(i, R) => audit'[i].at = sortAt'[b]
    BY <1>1, <1>2
  <1> QED BY <1>3 DEF R, TouchDated, IsLast

\* Removing other blips rewrites no row of b.
LEMMA DatedRemoval ==
  ASSUME TypeOK, NEW D, RemoveBlips(D), NEW b \in Blip, b \notin D, Dated(b)
  PROVE  Dated(b)'
  <1>1. /\ Len(audit') = Len(audit)
        /\ \A i \in 1..Len(audit) :
             /\ audit'[i].type = audit[i].type
             /\ audit'[i].at = audit[i].at
             /\ audit'[i].blip = IF audit[i].blip \in D THEN NoBlip ELSE audit[i].blip
    BY ForgetRows DEF RemoveBlips, TypeOK
  <1>2. \A types : BlipRows(types, b)' = BlipRows(types, b)
    BY <1>1, NullAssumption DEF BlipRows
  <1>3. \A types : \A i \in BlipRows(types, b) : audit'[i].at = audit[i].at
    BY <1>1 DEF BlipRows
  <1> QED BY <1>2, <1>3 DEF Dated, TouchDated, CaptureDated, IsLast, RemoveBlips

LEMMA DatedBlipStep ==
  RefInv /\ (\A b \in Live : Dated(b)) /\ BlipStep => \A b \in Live' : Dated(b)'
  <1> SUFFICES ASSUME RefInv, \A b \in Live : Dated(b), BlipStep, NEW c \in Live'
               PROVE  Dated(c)'
    OBVIOUS
  <1>1. TypeOK /\ c \in Blip
    BY DEF RefInv, Live
  <1>2. ASSUME NEW b \in Blip, NEW w \in Workspace, InsertBlip(b, w)
        PROVE  Dated(c)'
    <2> DEFINE r == Row("blip_ingested", b, w, NoDetail)
    <2>1. /\ r \in AuditRow /\ r.type = "blip_ingested" /\ r.blip = b /\ r.at = now
          /\ Audited(r)
      BY <1>1, <1>2, RowType DEF EventType, Detail, InsertBlip
    <2> HIDE DEF r
    <2>2. CASE c = b
      <3>1. sortAt'[b] = now /\ createdAt'[b] = now
        BY <1>1, <1>2 DEF InsertBlip, TypeOK
      <3>2. TouchDated(b)'
        BY <1>1, <2>1, <3>1, DatedNewTouch DEF Touch
      <3>3. \A i \in 1..Len(audit) : audit[i].blip # b
        BY <1>2, NullAssumption DEF RefInv, ReferencesResolve, InsertBlip
      <3>4. \A i \in BlipRows({"blip_ingested"}, b)' : audit'[i].at = now
        BY <1>1, <2>1, <3>3, AuditedRow DEF BlipRows
      <3> QED BY <2>2, <3>1, <3>2, <3>4 DEF Dated, CaptureDated
    <2>3. CASE c # b
      <3>1. c \in Live /\ sortAt'[c] = sortAt[c] /\ createdAt'[c] = createdAt[c]
        BY <1>1, <1>2, <2>3 DEF InsertBlip, TypeOK, Live
      <3> QED BY <1>1, <2>1, <2>3, <3>1, DatedOtherRow
    <2> QED BY <2>2, <2>3
  <1>3. ASSUME NEW b \in Blip, NEW f \in Fingerprint, PrepareRecopy(b, f)
        PROVE  Dated(c)'
    <2> DEFINE r == Row("blip_recopied", b, place[b], NoDetail)
    <2>1. place[b] \in Workspace /\ c \in Live /\ createdAt' = createdAt
      BY <1>1, <1>3 DEF PrepareRecopy, Live, TypeOK
    <2>2. /\ r \in AuditRow /\ r.type = "blip_recopied" /\ r.blip = b /\ r.at = now
          /\ Audited(r)
      BY <1>1, <1>3, <2>1, RowType DEF EventType, Detail, PrepareRecopy
    <2> HIDE DEF r
    <2>3. CASE c = b
      <3>1. sortAt'[b] = now
        BY <1>1, <1>3 DEF PrepareRecopy, TypeOK
      <3>2. TouchDated(b)'
        BY <1>1, <2>2, <3>1, DatedNewTouch DEF Touch
      <3>3. BlipRows({"blip_ingested"}, b)' = BlipRows({"blip_ingested"}, b)
            /\ \A i \in BlipRows({"blip_ingested"}, b) : audit'[i] = audit[i]
        BY <1>1, <2>2, AuditedRow DEF BlipRows
      <3> QED BY <2>1, <2>3, <3>2, <3>3 DEF Dated, CaptureDated
    <2>4. CASE c # b
      <3>1. sortAt'[c] = sortAt[c]
        BY <1>1, <1>3, <2>4 DEF PrepareRecopy, TypeOK
      <3> QED BY <1>1, <2>1, <2>2, <2>4, <3>1, DatedOtherRow
    <2> QED BY <2>3, <2>4
  <1>4. ASSUME NEW b \in Blip, NEW w \in Workspace, Moved(b, w)
        PROVE  Dated(c)'
    <2> DEFINE r == Row("blip_moved", b, w, place[b])
    <2>1. place[b] \in Workspace /\ c \in Live
      BY <1>1, <1>4 DEF Moved, Live, TypeOK
    <2>2. r \in AuditRow /\ r.type = "blip_moved" /\ Audited(r)
      BY <1>1, <1>4, <2>1, RowType DEF EventType, Detail, Moved
    <2> HIDE DEF r
    <2>3. sortAt' = sortAt /\ createdAt' = createdAt
      BY <1>4 DEF Moved
    <2> QED BY <1>1, <2>1, <2>2, <2>3, DatedOtherRow DEF Touch
  <1>5. ASSUME NEW f \in Fingerprint, ConsumeSuppression(f)
        PROVE  Dated(c)'
    <2>1. c \in Live
      BY <1>5 DEF ConsumeSuppression, blipVars, Live
    <2> QED BY <1>5, <2>1
          DEF ConsumeSuppression, blipVars, Dated, TouchDated, CaptureDated, BlipRows, IsLast
  <1>6. ASSUME NEW D, RemoveBlips(D)
        PROVE  Dated(c)'
    <2>1. c \notin D /\ c \in Live
      BY <1>1, <1>6 DEF RemoveBlips, Live
    <2> QED BY <1>1, <1>6, <2>1, DatedRemoval
  <1> QED BY <1>2, <1>3, <1>4, <1>5, <1>6
        DEF BlipStep, MoveBlip, MoveLatestInboxBlip, DeleteBlip, RetentionCleanup

LEMMA DatedNext ==
  RefInv /\ (\A b \in Live : Dated(b)) /\ [Next]_vars => \A b \in Live' : Dated(b)'
  <1> SUFFICES ASSUME RefInv, \A b \in Live : Dated(b), [Next]_vars, NEW c \in Live'
               PROVE  Dated(c)'
    OBVIOUS
  <1>1. TypeOK /\ c \in Blip
    BY DEF RefInv, Live
  <1>2. ASSUME UNCHANGED blipVars
        PROVE  c \in Live /\ Dated(c) /\ sortAt' = sortAt /\ createdAt' = createdAt
    BY <1>2 DEF Live, blipVars
  <1>3. ASSUME NEW type \in EventType \ Touch, NEW b \in Blip \cup {NoBlip},
               NEW w \in Workspace, NEW d \in Detail, Audited(Row(type, b, w, d)),
               UNCHANGED blipVars
        PROVE  Dated(c)'
    BY <1>1, <1>2, <1>3, RowType, DatedOtherRow
  <1>4. CASE CreateSchema
    <2>1. \A types \in {Touch, {"blip_ingested"}} :
            /\ BlipRows(types, c)' = BlipRows(types, c)
            /\ \A i \in BlipRows(types, c) : audit'[i] = audit[i]
      BY <1>1, <1>4, SchemaRows DEF BlipRows, Touch
    <2> QED BY <1>2, <1>4, <2>1
          DEF CreateSchema, Dated, TouchDated, CaptureDated, IsLast
  <1>5. CASE WorkspaceStep
    BY <1>3, <1>5
    DEF WorkspaceStep, CreateWorkspace, SetAgentAccess, SetWorkspacePolicy,
        SetActiveWorkspace, SetStickyCapture, EventType, Touch, Detail
  <1>6. CASE ReadStep
    BY <1>3, <1>6
    DEF ReadStep, ReadAgentBlips, RecordBlipEvent, RecordCaptureSkipped, EventType,
        Touch, Detail
  <1>7. CASE Reopen \/ Tick \/ UNCHANGED vars
    BY <1>2, <1>7 DEF Reopen, Tick, vars, blipVars, Dated, TouchDated, CaptureDated,
                      BlipRows, IsLast
  <1> QED BY <1>4, <1>5, <1>6, <1>7, DatedBlipStep DEF Next
LEMMA RetentionNext ==
  ASSUME TypeOK, [Next]_vars,
         \A w \in Workspace : retention[w] = NoRetention \/ retention[w] >= 0
  PROVE  \A w \in Workspace : retention'[w] = NoRetention \/ retention'[w] >= 0
  <1>1. ASSUME NEW v \in Workspace, NEW r, r.keep \in Int,
               r.keep >= 0 \/ r.keep = NoRetention, AddWorkspace(v, r)
        PROVE  \A w \in Workspace : retention'[w] = NoRetention \/ retention'[w] >= 0
    BY <1>1 DEF AddWorkspace, TypeOK
  <1>2. CASE CreateSchema
    BY <1>1, <1>2, InboxAssumption DEF CreateSchema, NoRetention
  <1>3. ASSUME NEW v \in Workspace, NEW r \in Request, CreateWorkspace(v, r)
        PROVE  \A w \in Workspace : retention'[w] = NoRetention \/ retention'[w] >= 0
    BY <1>1, <1>3, RequestAssumption DEF CreateWorkspace, ValidWorkspace, CreationRequest
  <1>4. CASE UNCHANGED retention
    BY <1>4
  <1>5. BlipStep => UNCHANGED retention
    BY DEF BlipStep, InsertBlip, PrepareRecopy, ConsumeSuppression, MoveBlip,
           MoveLatestInboxBlip, Moved, DeleteBlip, RetentionCleanup, RemoveBlips, workspaceVars
  <1>6. WorkspaceStep => \/ UNCHANGED retention
                         \/ \E v \in Workspace, r \in Request : CreateWorkspace(v, r)
    BY DEF WorkspaceStep, SetAgentAccess, SetWorkspacePolicy, SetActiveWorkspace,
           SetStickyCapture, workspaceVars
  <1>7. ReadStep \/ Reopen \/ Tick \/ UNCHANGED vars => UNCHANGED retention
    BY DEF ReadStep, ReadAgentBlips, RecordBlipEvent, RecordCaptureSkipped, Reopen, Tick,
           vars, workspaceVars
  <1> QED BY <1>2, <1>3, <1>4, <1>5, <1>6, <1>7 DEF Next

LEMMA TimesInit == Init => TimesInv
  BY RefInit DEF Init, TimesInv, Live, NoRetention

LEMMA TimesNext == TimesInv /\ [Next]_vars => TimesInv'
  <1> SUFFICES ASSUME TimesInv, [Next]_vars PROVE TimesInv'
    OBVIOUS
  <1>1. TypeOK
    BY DEF TimesInv, RefInv
  <1> QED BY <1>1, RefNext, DatedNext, RetentionNext DEF TimesInv

\* What the log says of a live blip is what its row says.
LEMMA LoggedTimes ==
  ASSUME TimesInv, NEW b \in Live
  PROVE  /\ \A t : TouchedAt(b, t) => t = sortAt[b]
         /\ \A t : CapturedAt(b, t) => t = createdAt[b]
  BY DEF TimesInv, Dated, TouchDated, CaptureDated, TouchedAt, CapturedAt

\* Whichever blips were captured and copied again, in whatever order and at
\* whatever times, routing "the latest" of the inbox takes one that no other
\* of the inbox was captured or copied after.
THEOREM RouteLatestCorrect == Spec => RouteLatestTakesNewest
  <1>1. ASSUME TimesInv, NEW w \in Workspace, MoveLatestInboxBlip(w),
               NEW b \in InWorkspace(Inbox), NEW c \in InWorkspace(Inbox),
               audit'[Len(audit')].blip = b,
               NEW s \in 0..now, NEW t \in 0..now, TouchedAt(b, s), TouchedAt(c, t)
        PROVE  t <= s
    <2>1. PICK d \in Blip : IsNewestInInbox(d) /\ Moved(d, w)
      BY <1>1 DEF MoveLatestInboxBlip
    <2>2. TypeOK /\ place[d] \in Workspace
      BY <1>1, <2>1 DEF TimesInv, RefInv, TypeOK, Moved, Live
    <2>3. audit'[Len(audit')].blip = d
      <3> DEFINE r == Row("blip_moved", d, w, place[d])
      <3>1. r \in AuditRow /\ r.blip = d /\ Audited(r)
        BY <2>1, <2>2, RowType DEF EventType, Detail, Moved
      <3> HIDE DEF r
      <3> QED BY <2>2, <3>1, AuditedRow
    <2>4. SortsBefore(b, c)
      BY <1>1, <2>1, <2>3 DEF IsNewestInInbox
    <2>5. b \in Live /\ c \in Live /\ b \in Blip /\ c \in Blip
      BY DEF InWorkspace, Live
    <2>6. s = sortAt[b] /\ t = sortAt[c]
      BY <1>1, <2>5, LoggedTimes
    <2> QED BY <2>2, <2>4, <2>5, <2>6 DEF SortsBefore, TypeOK
  <1>2. TimesInv => [\A w \in Workspace : MoveLatestInboxBlip(w) =>
          \A b \in InWorkspace(Inbox) : \A c \in InWorkspace(Inbox) :
            audit'[Len(audit')].blip = b =>
              \A s, t \in 0..now : TouchedAt(b, s) /\ TouchedAt(c, t) => t <= s]_vars
    BY <1>1
  <1> QED BY <1>2, TimesInit, TimesNext, PTL DEF Spec, RouteLatestTakesNewest

\* Retention removes a blip exactly when its capture, as the log dates it, is
\* longer ago than the workspace it is in then keeps its blips: neither moves
\* nor recopies extend or shorten its life.
THEOREM CleanupCorrect == Spec => CleanupIsExact
  <1>1. ASSUME TimesInv, RetentionCleanup, NEW b \in Live, NEW t \in 0..now, CapturedAt(b, t)
        PROVE  place'[b] = NoWorkspace <=>
                 retention[place[b]] # NoRetention /\ t + retention[place[b]] < now
    <2>1. /\ TypeOK /\ b \in Blip /\ place[b] \in Workspace /\ place[b] # NoWorkspace
          /\ retention[place[b]] = NoRetention \/ retention[place[b]] >= 0
      BY <1>1 DEF TimesInv, RefInv, TypeOK, Live
    <2>2. t = createdAt[b]
      BY <1>1, LoggedTimes
    <2>3. place'[b] = IF b \in Expired THEN NoWorkspace ELSE place[b]
      BY <1>1, <2>1 DEF RetentionCleanup, RemoveBlips
    <2>4. b \in Expired <=> retention[place[b]] >= 0 /\ createdAt[b] < now - retention[place[b]]
      BY DEF Expired
    <2> QED BY <2>1, <2>2, <2>3, <2>4 DEF TypeOK, NoRetention
  <1>2. TimesInv => [RetentionCleanup =>
          \A b \in Live : \A t \in 0..now : CapturedAt(b, t) =>
            (place'[b] = NoWorkspace <=>
               retention[place[b]] # NoRetention /\ t + retention[place[b]] < now)]_vars
    BY <1>1
  <1> QED BY <1>2, TimesInit, TimesNext, PTL DEF Spec, CleanupIsExact

=============================================================================
