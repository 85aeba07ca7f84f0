------------------------------ MODULE CloudProofs ------------------------------
(***************************************************************************)
(* Proofs about the hosted service, for every number of workspaces,         *)
(* members, join codes, blips and interrupted requests.                     *)
(***************************************************************************)
EXTENDS CloudProperties, FiniteSetTheorems, TLAPS

\* The rows of codes and blips are records, a new code one that is unused.
USE DEF CodeRow, BlipRow, NewCode

\* Requests that leave all tables but presence as they are.
Aside == Query \/ Heartbeat

LEMMA AsideKeeps ==
  ASSUME Aside
  PROVE  /\ pc = "idle"
         /\ UNCHANGED <<lastSequence, memberOf, role, sessions, codes, blips, events, pc, request,
                        newRole, credentials, now, crashes>>
         /\ presence' = presence \/ \E m \in credentials : presence' = presence \cup {m}
  BY DEF Aside, Query, ListWorkspaces, ReadAs, RefuseJoin, Heartbeat, PresenceHeartbeat, Authorized,
         vars, tables

\* One statement of any handler, and what surrounds it.
LEMMA Steps ==
  ASSUME Next
  PROVE  \/ \E w \in Workspace, m \in Member : CreateWorkspace(w, m)
         \/ \E m \in Member, k \in Code, r \in Role, uses \in 1..MaxUses :
              CreateJoinCode(m, k, r, uses)
         \/ \E k \in Code, m \in Member : JoinWorkspace(k, m)
         \/ \E m \in Member, b \in HostedBlip, t \in Tags : PublishBlip(m, b, t)
         \/ \E m \in Member, b \in HostedBlip, t \in Tags : UpdateBlipTags(m, b, t)
         \/ \E m \in Member, b \in HostedBlip : RecordAccess(m, b)
         \/ InsertMember \/ InsertSession \/ TakeNumber \/ InsertEvent
         \/ Aside \/ CutShort \/ Tick
  BY DEF Next, Handle, Proceed, Aside

-----------------------------------------------------------------------------
(* Types *)

LEMMA TypeInit == Init => CloudInv
  BY CodeAssumption, BoundAssumption, NullAssumption
  DEF Init, CloudInv, TypeOK, RowsInv, RequestInv, NumbersInv, FeedStaysInWorkspace, Absent,
      Role, Statement

\* The event of a request, put together from the identities it names.
LEMMA RequestType ==
  ASSUME NEW w \in Workspace, NEW m \in Member, NEW target \in Workspace \cup Item,
         NEW tags \in Tags \cup {NoTags},
         NEW type \in {"workspace_created", "join_code_created", "member_joined",
                       "blip_published", "blip_tags_updated", "blip_accessed"}
  PROVE  [ws |-> w, change |-> [type |-> type, actor |-> m, target |-> target, tags |-> tags]]
           \in [ws : Workspace, change : Change]
  BY DEF Change

\* A member that is let in belongs to a workspace that has a row.
LEMMA MemberHasWorkspace ==
  ASSUME CloudInv, NEW m \in Member, NEW w, NEW roles, Authorized(m, w, roles)
  PROVE  w = memberOf[m] /\ w \in Workspace /\ lastSequence[w] \in Nat
  BY DEF CloudInv, TypeOK, RowsInv, Authorized, Absent

LEMMA TypeStep == ASSUME CloudInv, Next PROVE TypeOK'
<1> USE DEF CloudInv, TypeOK, Statement, Absent
<1>1. ASSUME NEW w \in Workspace, NEW m \in Member, CreateWorkspace(w, m) PROVE TypeOK'
  <2>1. request' \in [ws : Workspace, change : Change]
    BY <1>1, RequestType DEF CreateWorkspace, Begin
  <2> QED
    BY <1>1, <2>1 DEF CreateWorkspace, Begin, Role
<1>2. ASSUME NEW m \in Member, NEW k \in Code, NEW r \in Role, NEW uses \in 1..MaxUses,
             CreateJoinCode(m, k, r, uses)
      PROVE  TypeOK'
  <2> DEFINE w == memberOf[m]
  <2>1. w \in Workspace
    BY <1>2, MemberHasWorkspace DEF CreateJoinCode
  <2>2. request' \in [ws : Workspace, change : Change]
    BY <1>2, <2>1, RequestType DEF CreateJoinCode, Begin, Item
  <2>3. /\ codes' \in [Code -> [ws : Workspace, role : Role, max : Nat, uses : Nat,
                                expires : Nat] \cup {NoCode}]
        /\ \A j \in Code : codes'[j] # NoCode => codes'[j].uses <= codes'[j].max
    BY <1>2, <2>1, CodeAssumption DEF CreateJoinCode, Begin
  <2> QED
    BY <1>2, <2>2, <2>3 DEF CreateJoinCode, Begin
<1>3. ASSUME NEW k \in Code, NEW m \in Member, JoinWorkspace(k, m) PROVE TypeOK'
  <2>1. codes[k] \in [ws : Workspace, role : Role, max : Nat, uses : Nat, expires : Nat]
    BY <1>3 DEF JoinWorkspace, Redeemable
  <2>2. request' \in [ws : Workspace, change : Change]
    BY <1>3, <2>1, RequestType DEF JoinWorkspace, Begin, Item
  <2>3. /\ codes' \in [Code -> [ws : Workspace, role : Role, max : Nat, uses : Nat,
                                expires : Nat] \cup {NoCode}]
        /\ \A j \in Code : codes'[j] # NoCode => codes'[j].uses <= codes'[j].max
    BY <1>3, <2>1 DEF JoinWorkspace, Redeemable
  <2> QED
    BY <1>3, <2>1, <2>2, <2>3 DEF JoinWorkspace, Begin
<1>4. ASSUME NEW m \in Member, NEW b \in HostedBlip, NEW t \in Tags, PublishBlip(m, b, t)
      PROVE  TypeOK'
  <2> DEFINE w == memberOf[m]
  <2>1. w \in Workspace /\ lastSequence[w] \in Nat
    BY <1>4, MemberHasWorkspace DEF PublishBlip
  <2>2. request' \in [ws : Workspace, change : Change]
    BY <1>4, <2>1, RequestType DEF PublishBlip, Begin, Item
  <2>3. blips' \in [HostedBlip -> [ws : Workspace, publisher : Member, tags : Tags,
                                   sequence : Nat] \cup {NoBlip}]
    BY <1>4, <2>1 DEF PublishBlip
  <2> QED
    BY <1>4, <2>2, <2>3 DEF PublishBlip, Begin
<1>5. ASSUME NEW m \in Member, NEW b \in HostedBlip, NEW t \in Tags, UpdateBlipTags(m, b, t)
      PROVE  TypeOK'
  <2> DEFINE w == memberOf[m]
  <2>1. w \in Workspace /\ lastSequence[w] \in Nat
    BY <1>5, MemberHasWorkspace DEF UpdateBlipTags
  <2>2. request' \in [ws : Workspace, change : Change]
    BY <1>5, <2>1, RequestType DEF UpdateBlipTags, Begin, Item
  <2>3. blips' \in [HostedBlip -> [ws : Workspace, publisher : Member, tags : Tags,
                                   sequence : Nat] \cup {NoBlip}]
    BY <1>5, <2>1 DEF UpdateBlipTags
  <2> QED
    BY <1>5, <2>2, <2>3 DEF UpdateBlipTags, Begin
<1>6. ASSUME NEW m \in Member, NEW b \in HostedBlip, RecordAccess(m, b) PROVE TypeOK'
  <2> DEFINE w == memberOf[m]
  <2>1. w \in Workspace /\ lastSequence[w] \in Nat
    BY <1>6, MemberHasWorkspace DEF RecordAccess
  <2>2. request' \in [ws : Workspace, change : Change]
    BY <1>6, <2>1, RequestType DEF RecordAccess, Begin, Item
  <2> QED
    BY <1>6, <2>1, <2>2 DEF RecordAccess, Begin
<1>7. CASE InsertMember
  BY <1>7 DEF InsertMember, RequestInv, Change
<1>8. CASE InsertSession
  BY <1>8 DEF InsertSession, RequestInv, Change
<1>9. CASE TakeNumber
  BY <1>9 DEF TakeNumber, RequestInv
<1>10. CASE InsertEvent
  BY <1>10 DEF InsertEvent, RequestInv, Numbered, Change
<1>11. CASE Aside
  BY <1>11, AsideKeeps DEF vars, tables
<1>12. CASE CutShort
  BY <1>12 DEF CutShort, tables
<1>13. CASE Tick
  BY <1>13 DEF Tick, tables
<1> QED
  BY <1>1, <1>2, <1>3, <1>4, <1>5, <1>6, <1>7, <1>8, <1>9, <1>10, <1>11, <1>12, <1>13, Steps

-----------------------------------------------------------------------------
(* Rows are never taken back: an event that was proper stays proper *)

RowsKept ==
  /\ \A m \in Member : memberOf[m] \in Workspace => memberOf'[m] = memberOf[m] /\ role'[m] = role[m]
  /\ \A k \in Code : codes[k] # NoCode => codes'[k] # NoCode /\ codes'[k].ws = codes[k].ws
  /\ \A b \in HostedBlip : blips[b] # NoBlip => blips'[b] # NoBlip /\ blips'[b].ws = blips[b].ws
  /\ \A w \in Workspace : lastSequence[w] # Absent =>
       lastSequence'[w] # Absent /\ lastSequence[w] <= lastSequence'[w]

LEMMA RowsStep == ASSUME CloudInv, Next PROVE RowsKept
<1> USE DEF RowsKept, CloudInv, TypeOK, Absent
<1>0. TypeOK'
  BY TypeStep
<1>1. ASSUME NEW w \in Workspace, NEW m \in Member, CreateWorkspace(w, m) PROVE RowsKept
  BY <1>1 DEF CreateWorkspace, Begin
<1>2. ASSUME NEW m \in Member, NEW k \in Code, NEW r \in Role, NEW uses \in 1..MaxUses,
             CreateJoinCode(m, k, r, uses)
      PROVE  RowsKept
  BY <1>2 DEF CreateJoinCode, Begin
<1>3. ASSUME NEW k \in Code, NEW m \in Member, JoinWorkspace(k, m) PROVE RowsKept
  <2>1. ASSUME NEW j \in Code, codes[j] # NoCode
        PROVE  codes'[j] # NoCode /\ codes'[j].ws = codes[j].ws
    <3>1. codes[j] \in [ws : Workspace, role : Role, max : Nat, uses : Nat, expires : Nat]
      BY <2>1
    <3>2. [codes[j] EXCEPT !.uses = @ + 1]
            \in [ws : Workspace, role : Role, max : Nat, uses : Nat, expires : Nat]
      BY <3>1
    <3> QED
      BY <1>3, <2>1, <3>1, <3>2, NullAssumption DEF JoinWorkspace
  <2> QED
    BY <1>3, <2>1 DEF JoinWorkspace, Begin
<1>4. ASSUME NEW m \in Member, NEW b \in HostedBlip, NEW t \in Tags, PublishBlip(m, b, t)
      PROVE  RowsKept
  BY <1>4 DEF PublishBlip, Begin
<1>5. ASSUME NEW m \in Member, NEW b \in HostedBlip, NEW t \in Tags, UpdateBlipTags(m, b, t)
      PROVE  RowsKept
  <2>1. ASSUME NEW c \in HostedBlip, blips[c] # NoBlip
        PROVE  blips'[c] # NoBlip /\ blips'[c].ws = blips[c].ws
    <3>1. blips[c] \in [ws : Workspace, publisher : Member, tags : Tags, sequence : Nat]
      BY <2>1
    <3>2. [blips[c] EXCEPT !.tags = t]
            \in [ws : Workspace, publisher : Member, tags : Tags, sequence : Nat]
      BY <3>1
    <3> QED
      BY <1>5, <2>1, <3>1, <3>2, NullAssumption DEF UpdateBlipTags
  <2> QED
    BY <1>5, <2>1 DEF UpdateBlipTags, Begin
<1>6. ASSUME NEW m \in Member, NEW b \in HostedBlip, RecordAccess(m, b) PROVE RowsKept
  BY <1>6 DEF RecordAccess, Begin
<1>7. CASE InsertMember
  BY <1>7, NullAssumption DEF InsertMember, RequestInv, Change
<1>8. CASE InsertSession
  BY <1>8 DEF InsertSession
<1>9. CASE TakeNumber
  BY <1>9 DEF TakeNumber, RequestInv
<1>10. CASE InsertEvent
  BY <1>10 DEF InsertEvent
<1>11. CASE Aside
  BY <1>11, AsideKeeps DEF vars, tables
<1>12. CASE CutShort
  BY <1>12 DEF CutShort, tables
<1>13. CASE Tick
  BY <1>13 DEF Tick, tables
<1> QED
  BY <1>1, <1>2, <1>3, <1>4, <1>5, <1>6, <1>7, <1>8, <1>9, <1>10, <1>11, <1>12, <1>13, Steps

LEMMA ProperKept ==
  ASSUME CloudInv, RowsKept, NEW w \in Workspace, NEW e \in Change, Proper(w, e)
  PROVE  Proper(w, e)'
<1>1. e.actor \in Member
  BY DEF Change
<1>2. BelongsTo(w, e.target)'
  BY DEF RowsKept, Proper, BelongsTo
<1> QED
  BY <1>1, <1>2 DEF RowsKept, Proper

LEMMA RowsInvStep == ASSUME CloudInv, Next PROVE RowsInv'
<1> USE DEF CloudInv, TypeOK, RowsInv
<1>0. RowsKept
  BY RowsStep
<1>1. ASSUME NEW w \in Workspace, NEW m \in Member, CreateWorkspace(w, m) PROVE RowsInv'
  BY <1>0, <1>1 DEF CreateWorkspace, Begin, RowsKept, Absent
<1>2. ASSUME NEW m \in Member, NEW k \in Code, NEW r \in Role, NEW uses \in 1..MaxUses,
             CreateJoinCode(m, k, r, uses)
      PROVE  RowsInv'
  <2>1. memberOf[m] \in Workspace /\ lastSequence[memberOf[m]] # Absent
    BY <1>2, MemberHasWorkspace DEF CreateJoinCode, Absent
  <2>2. \A j \in Code : codes'[j] # NoCode => lastSequence'[codes'[j].ws] # Absent
    BY <1>2, <2>1 DEF CreateJoinCode
  <2> QED
    BY <1>2, <2>2 DEF CreateJoinCode, Begin
<1>3. ASSUME NEW k \in Code, NEW m \in Member, JoinWorkspace(k, m) PROVE RowsInv'
  <2>1. \A j \in Code : codes'[j] # NoCode => codes[j] # NoCode /\ codes'[j].ws = codes[j].ws
    BY <1>3 DEF JoinWorkspace, Redeemable
  <2> QED
    BY <1>3, <2>1 DEF JoinWorkspace, Begin
<1>4. ASSUME NEW m \in Member, NEW b \in HostedBlip, NEW t \in Tags, PublishBlip(m, b, t)
      PROVE  RowsInv'
  BY <1>4 DEF PublishBlip, Begin
<1>5. ASSUME NEW m \in Member, NEW b \in HostedBlip, NEW t \in Tags, UpdateBlipTags(m, b, t)
      PROVE  RowsInv'
  BY <1>5 DEF UpdateBlipTags, Begin
<1>6. ASSUME NEW m \in Member, NEW b \in HostedBlip, RecordAccess(m, b) PROVE RowsInv'
  BY <1>0, <1>6 DEF RecordAccess, Begin, RowsKept
<1>7. CASE InsertMember
  BY <1>7 DEF InsertMember, RequestInv, Change
<1>8. CASE InsertSession
  BY <1>8 DEF InsertSession, RequestInv, Change, Proper, Statement
<1>9. CASE TakeNumber
  BY <1>0, <1>9 DEF TakeNumber, RowsKept
<1>10. CASE InsertEvent
  BY <1>10 DEF InsertEvent, RequestInv
<1>11. CASE Aside
  BY <1>11, AsideKeeps DEF vars, tables
<1>12. CASE CutShort
  BY <1>12 DEF CutShort, tables
<1>13. CASE Tick
  BY <1>13 DEF Tick, tables
<1> QED
  BY <1>1, <1>2, <1>3, <1>4, <1>5, <1>6, <1>7, <1>8, <1>9, <1>10, <1>11, <1>12, <1>13, Steps

-----------------------------------------------------------------------------
(* The event a request ends with *)

\* What a first statement leaves for RequestInv when the member exists already.
LEMMA RequestMade ==
  ASSUME NEW w \in Workspace, NEW m \in Member, NEW type, NEW target, NEW tags,
         request' = [ws |-> w, change |-> [type |-> type, actor |-> m, target |-> target,
                                           tags |-> tags]]
  PROVE  /\ request'.ws = w /\ request'.change.type = type /\ request'.change.actor = m
         /\ request'.change.target = target
  OBVIOUS

LEMMA RequestInvStep == ASSUME CloudInv, Next PROVE RequestInv'
<1>0. TypeOK' /\ RowsKept
  BY TypeStep, RowsStep
<1> USE DEF CloudInv, RequestInv
<1>1. ASSUME NEW w \in Workspace, NEW m \in Member, CreateWorkspace(w, m) PROVE RequestInv'
  <2>1. request' \in [ws : Workspace, change : Change]
    BY <1>1, RequestType DEF CreateWorkspace, Begin
  <2>2. /\ request'.ws = w /\ request'.change.type = "workspace_created"
        /\ request'.change.actor = m /\ request'.change.target = w
    BY <1>1, RequestMade DEF CreateWorkspace, Begin
  <2>3. lastSequence'[w] = 0 /\ memberOf'[m] = NoWorkspace /\ pc' = "member"
    BY <1>1 DEF CreateWorkspace, Begin, TypeOK
  <2> QED
    BY <2>1, <2>2, <2>3 DEF Absent
<1>2. ASSUME NEW m \in Member, NEW k \in Code, NEW r \in Role, NEW uses \in 1..MaxUses,
             CreateJoinCode(m, k, r, uses)
      PROVE  RequestInv'
  <2> DEFINE w == memberOf[m]
  <2>1. w \in Workspace /\ lastSequence[w] \in Nat
    BY <1>2, MemberHasWorkspace DEF CreateJoinCode
  <2>2. request' \in [ws : Workspace, change : Change]
    BY <1>2, <2>1, RequestType DEF CreateJoinCode, Begin, Item
  <2>3. /\ request'.ws = w /\ request'.change.type = "join_code_created"
        /\ request'.change.actor = m /\ request'.change.target = k
    BY <1>2, <2>1, RequestMade DEF CreateJoinCode, Begin
  <2>4. codes'[k].ws = w /\ codes'[k] # NoCode
    <3> DEFINE row == [ws |-> w, role |-> r, max |-> uses, uses |-> 0, expires |-> now + Lifetime]
    <3>1. row \in [ws : Workspace, role : Role, max : Nat, uses : Nat, expires : Nat]
      BY <2>1, CodeAssumption DEF TypeOK
    <3>2. codes'[k] = row
      BY <1>2 DEF CreateJoinCode, TypeOK
    <3> QED
      BY <3>1, <3>2, NullAssumption
  <2>5. Proper(request.ws, request.change)'
    BY <1>2, <2>1, <2>3, <2>4 DEF CreateJoinCode, Proper, BelongsTo, Authorized
  <2> QED
    BY <1>2, <2>1, <2>2, <2>3, <2>5 DEF CreateJoinCode, Begin, Absent
<1>3. ASSUME NEW k \in Code, NEW m \in Member, JoinWorkspace(k, m) PROVE RequestInv'
  <2>1. codes[k] \in [ws : Workspace, role : Role, max : Nat, uses : Nat, expires : Nat]
    BY <1>3 DEF JoinWorkspace, Redeemable, TypeOK
  <2>2. request' \in [ws : Workspace, change : Change]
    BY <1>3, <2>1, RequestType DEF JoinWorkspace, Begin, Item
  <2>3. /\ request'.ws = codes[k].ws /\ request'.change.type = "member_joined"
        /\ request'.change.actor = m /\ request'.change.target = m
    BY <1>3, <2>1, RequestMade DEF JoinWorkspace, Begin
  <2> QED
    BY <1>3, <2>1, <2>2, <2>3 DEF JoinWorkspace, Redeemable, Begin, RowsInv
<1>4. ASSUME NEW m \in Member, NEW b \in HostedBlip, NEW t \in Tags, PublishBlip(m, b, t)
      PROVE  RequestInv'
  <2> DEFINE w == memberOf[m]
  <2>1. w \in Workspace /\ lastSequence[w] \in Nat
    BY <1>4, MemberHasWorkspace DEF PublishBlip
  <2>2. request' \in [ws : Workspace, change : Change]
    BY <1>4, <2>1, RequestType DEF PublishBlip, Begin, Item
  <2>3. /\ request'.ws = w /\ request'.change.type = "blip_published"
        /\ request'.change.actor = m /\ request'.change.target = b
    BY <1>4, <2>1, RequestMade DEF PublishBlip, Begin
  <2>4. blips'[b].ws = w /\ blips'[b] # NoBlip
    BY <1>0, <1>4, <2>1, NullAssumption DEF PublishBlip, TypeOK
  <2>5. Proper(request.ws, request.change)'
    BY <1>4, <2>1, <2>3, <2>4 DEF PublishBlip, Proper, BelongsTo, Authorized
  <2> QED
    BY <1>4, <2>1, <2>2, <2>3, <2>5 DEF PublishBlip, Begin, Absent
<1>5. ASSUME NEW m \in Member, NEW b \in HostedBlip, NEW t \in Tags, UpdateBlipTags(m, b, t)
      PROVE  RequestInv'
  <2> DEFINE w == memberOf[m]
  <2>1. w \in Workspace /\ lastSequence[w] \in Nat
    BY <1>5, MemberHasWorkspace DEF UpdateBlipTags
  <2>2. request' \in [ws : Workspace, change : Change]
    BY <1>5, <2>1, RequestType DEF UpdateBlipTags, Begin, Item
  <2>3. /\ request'.ws = w /\ request'.change.type = "blip_tags_updated"
        /\ request'.change.actor = m /\ request'.change.target = b
    BY <1>5, <2>1, RequestMade DEF UpdateBlipTags, Begin
  <2>4. blips'[b].ws = w /\ blips'[b] # NoBlip
    BY <1>0, <1>5 DEF UpdateBlipTags, RowsKept
  <2>5. Proper(request.ws, request.change)'
    BY <1>5, <2>1, <2>3, <2>4 DEF UpdateBlipTags, Proper, BelongsTo, Authorized
  <2> QED
    BY <1>5, <2>1, <2>2, <2>3, <2>5 DEF UpdateBlipTags, Begin, Absent
<1>6. ASSUME NEW m \in Member, NEW b \in HostedBlip, RecordAccess(m, b) PROVE RequestInv'
  <2> DEFINE w == memberOf[m]
  <2>1. w \in Workspace /\ lastSequence[w] \in Nat
    BY <1>6, MemberHasWorkspace DEF RecordAccess
  <2>2. request' \in [ws : Workspace, change : Change]
    BY <1>6, <2>1, RequestType DEF RecordAccess, Begin, Item
  <2>3. /\ request'.ws = w /\ request'.change.type = "blip_accessed"
        /\ request'.change.actor = m /\ request'.change.target = b
    BY <1>6, <2>1, RequestMade DEF RecordAccess, Begin
  <2>4. Proper(request.ws, request.change)'
    BY <1>6, <2>1, <2>3 DEF RecordAccess, Proper, BelongsTo, Authorized
  <2> QED
    BY <1>0, <1>6, <2>1, <2>2, <2>3, <2>4 DEF RecordAccess, Begin, RowsKept, Absent
<1>7. CASE InsertMember
  <2>1. /\ request' = request /\ request.ws \in Workspace /\ request.change.actor \in Member
        /\ pc = "member" /\ pc' = "session"
    BY <1>7 DEF InsertMember, Change
  <2>2. memberOf'[request.change.actor] = request.ws
    BY <1>7, <2>1 DEF InsertMember, TypeOK
  <2>3. Proper(request.ws, request.change)'
    BY <2>1, <2>2 DEF Proper, BelongsTo
  <2> QED
    BY <1>7, <2>1, <2>3 DEF InsertMember
<1>8. CASE InsertSession
  <2>1. Proper(request.ws, request.change)'
    BY <1>8 DEF InsertSession, Proper, BelongsTo
  <2> QED
    BY <1>8, <2>1 DEF InsertSession
<1>9. CASE TakeNumber
  <2>1. Proper(request.ws, request.change)'
    BY <1>9 DEF TakeNumber, Proper, BelongsTo
  <2> QED
    BY <1>0, <1>9, <2>1 DEF TakeNumber, RowsKept
<1>10. CASE InsertEvent
  BY <1>10 DEF InsertEvent
<1>11. CASE Aside
  BY <1>11, AsideKeeps DEF vars, tables
<1>12. CASE CutShort
  BY <1>12 DEF CutShort
<1>13. CASE Tick
  BY <1>13 DEF Tick, tables, Proper, BelongsTo
<1> QED
  BY <1>1, <1>2, <1>3, <1>4, <1>5, <1>6, <1>7, <1>8, <1>9, <1>10, <1>11, <1>12, <1>13, Steps

-----------------------------------------------------------------------------
(* Numbers *)

\* What a request begun by a member says about the number it starts from.
LEMMA NumbersInvStep == ASSUME CloudInv, Next PROVE NumbersInv'
<1>0. TypeOK' /\ RowsKept
  BY TypeStep, RowsStep
<1> USE DEF CloudInv, NumbersInv
<1>1. ASSUME NEW w \in Workspace, NEW m \in Member, CreateWorkspace(w, m) PROVE NumbersInv'
  BY <1>1 DEF CreateWorkspace, Begin, TypeOK, Absent
<1>2. ASSUME NEW m \in Member, NEW k \in Code, NEW r \in Role, NEW uses \in 1..MaxUses,
             CreateJoinCode(m, k, r, uses)
      PROVE  NumbersInv'
  BY <1>2 DEF CreateJoinCode, Begin
<1>3. ASSUME NEW k \in Code, NEW m \in Member, JoinWorkspace(k, m) PROVE NumbersInv'
  BY <1>3 DEF JoinWorkspace, Begin
<1>4. ASSUME NEW m \in Member, NEW b \in HostedBlip, NEW t \in Tags, PublishBlip(m, b, t)
      PROVE  NumbersInv'
  BY <1>4 DEF PublishBlip, Begin
<1>5. ASSUME NEW m \in Member, NEW b \in HostedBlip, NEW t \in Tags, UpdateBlipTags(m, b, t)
      PROVE  NumbersInv'
  BY <1>5 DEF UpdateBlipTags, Begin
<1>6. ASSUME NEW m \in Member, NEW b \in HostedBlip, RecordAccess(m, b) PROVE NumbersInv'
  <2> DEFINE w == memberOf[m]
  <2>1. w \in Workspace /\ lastSequence[w] \in Nat
    BY <1>6, MemberHasWorkspace DEF RecordAccess
  <2>2. request'.ws = w
    BY <1>6, <2>1, RequestMade DEF RecordAccess, Begin
  <2>3. lastSequence' = [lastSequence EXCEPT ![w] = lastSequence[w] + 1] /\ events' = events
    BY <1>6 DEF RecordAccess
  <2>4. \A v \in Workspace : \A i \in DOMAIN events'[v] :
          i \in Nat /\ 1 <= i /\ i <= lastSequence'[v]
    BY <2>1, <2>3 DEF TypeOK, Absent
  <2>5. lastSequence'[w] = lastSequence[w] + 1
    BY <2>1, <2>3 DEF TypeOK
  <2>6. 1 <= lastSequence'[w] /\ lastSequence'[w] \notin DOMAIN events'[w]
    BY <2>1, <2>3, <2>5
  <2> QED
    BY <2>2, <2>4, <2>6
<1>7. CASE InsertMember
  BY <1>7 DEF InsertMember
<1>8. CASE InsertSession
  BY <1>8 DEF InsertSession
<1>9. CASE TakeNumber
  <2> DEFINE w == request.ws
  <2>1. w \in Workspace /\ lastSequence[w] \in Nat
    BY <1>9 DEF TakeNumber, RequestInv, TypeOK, Absent
  <2>2. /\ lastSequence' = [lastSequence EXCEPT ![w] = lastSequence[w] + 1]
        /\ events' = events /\ request' = request
    BY <1>9 DEF TakeNumber
  <2>3. \A v \in Workspace : \A i \in DOMAIN events'[v] :
          i \in Nat /\ 1 <= i /\ i <= lastSequence'[v]
    BY <2>1, <2>2 DEF TypeOK, Absent
  <2>4. lastSequence'[w] = lastSequence[w] + 1
    BY <2>1, <2>2 DEF TypeOK
  <2>5. 1 <= lastSequence'[w] /\ lastSequence'[w] \notin DOMAIN events'[w]
    BY <2>1, <2>2, <2>4
  <2> QED
    BY <2>2, <2>3, <2>5
<1>10. CASE InsertEvent
  <2> DEFINE w == request.ws
             n == lastSequence[w]
  <2>1. w \in Workspace /\ n \in Nat /\ 1 <= n
    BY <1>10 DEF InsertEvent, RequestInv, TypeOK, Absent
  <2>2. /\ events' = [events EXCEPT ![w] = Numbered(events[w], n, request.change)]
        /\ lastSequence' = lastSequence /\ pc' = "idle"
    BY <1>10 DEF InsertEvent
  <2>3. DOMAIN events'[w] = DOMAIN events[w] \cup {n}
    BY <2>1, <2>2 DEF Numbered, TypeOK
  <2>4. \A v \in Workspace \ {w} : events'[v] = events[v]
    BY <2>1, <2>2 DEF TypeOK
  <2> QED
    BY <2>1, <2>2, <2>3, <2>4
<1>11. CASE Aside
  BY <1>11, AsideKeeps DEF vars, tables
<1>12. CASE CutShort
  BY <1>12 DEF CutShort, tables
<1>13. CASE Tick
  BY <1>13 DEF Tick, tables
<1> QED
  BY <1>1, <1>2, <1>3, <1>4, <1>5, <1>6, <1>7, <1>8, <1>9, <1>10, <1>11, <1>12, <1>13, Steps

-----------------------------------------------------------------------------
(* The feed *)

\* The event a step adds to a feed, and the number it has.
LEMMA EventAdded ==
  ASSUME CloudInv, InsertEvent
  PROVE  LET w == request.ws
             n == lastSequence[w]
         IN /\ w \in Workspace /\ n \in Nat /\ n \notin DOMAIN events[w]
            /\ DOMAIN events'[w] = DOMAIN events[w] \cup {n}
            /\ events'[w][n] = request.change
            /\ \A i \in DOMAIN events[w] : events'[w][i] = events[w][i] /\ i < n
            /\ \A v \in Workspace \ {w} : events'[v] = events[v]
            /\ Proper(w, request.change)
<1> DEFINE w == request.ws
           n == lastSequence[w]
<1>1. w \in Workspace /\ n \in Nat /\ n \notin DOMAIN events[w] /\ Proper(w, request.change)
  BY DEF CloudInv, TypeOK, RequestInv, NumbersInv, InsertEvent, Absent
<1>2. events' = [events EXCEPT ![w] = Numbered(events[w], n, request.change)]
  BY DEF InsertEvent
<1>3. events'[w] = Numbered(events[w], n, request.change)
  BY <1>1, <1>2 DEF CloudInv, TypeOK
<1>4. DOMAIN events'[w] = DOMAIN events[w] \cup {n} /\ events'[w][n] = request.change
  BY <1>3 DEF Numbered
<1>5. ASSUME NEW i \in DOMAIN events[w] PROVE events'[w][i] = events[w][i] /\ i < n
  BY <1>1, <1>3 DEF Numbered, CloudInv, NumbersInv
<1>6. \A v \in Workspace \ {w} : events'[v] = events[v]
  BY <1>1, <1>2 DEF CloudInv, TypeOK
<1> QED
  BY <1>1, <1>4, <1>5, <1>6

\* Every other step leaves the feeds as they are.
LEMMA EventsKept == ASSUME CloudInv, Next, ~InsertEvent PROVE events' = events
  BY Steps, AsideKeeps
  DEF CreateWorkspace, CreateJoinCode, JoinWorkspace, PublishBlip, UpdateBlipTags, RecordAccess,
      InsertMember, InsertSession, TakeNumber, CutShort, Tick, tables, vars

LEMMA FeedStep ==
  ASSUME CloudInv, Next
  PROVE  FeedStaysInWorkspace' /\
         \A w \in Workspace :
           /\ \A i \in DOMAIN events[w] : i \in DOMAIN events'[w] /\ events'[w][i] = events[w][i]
           /\ \A i \in DOMAIN events'[w] \ DOMAIN events[w] : \A j \in DOMAIN events[w] : j < i
<1>1. RowsKept
  BY RowsStep
<1>2. \A w \in Workspace : \A i \in DOMAIN events[w] :
        \A e : e = events[w][i] => Proper(w, e)'
  <2> SUFFICES ASSUME NEW w \in Workspace, NEW i \in DOMAIN events[w], NEW e, e = events[w][i]
               PROVE  Proper(w, e)'
    OBVIOUS
  <2> QED
    BY <1>1, ProperKept DEF CloudInv, TypeOK, FeedStaysInWorkspace
<1>3. CASE ~InsertEvent
  BY <1>2, <1>3, EventsKept DEF FeedStaysInWorkspace
<1>4. CASE InsertEvent
  <2> DEFINE w == request.ws
             n == lastSequence[w]
  <2>1. /\ w \in Workspace /\ n \in Nat /\ n \notin DOMAIN events[w]
        /\ DOMAIN events'[w] = DOMAIN events[w] \cup {n}
        /\ events'[w][n] = request.change
        /\ \A i \in DOMAIN events[w] : events'[w][i] = events[w][i] /\ i < n
        /\ \A v \in Workspace \ {w} : events'[v] = events[v]
        /\ Proper(w, request.change)
    BY <1>4, EventAdded
  <2>2. request.change \in Change
    BY <1>4 DEF InsertEvent, CloudInv, RequestInv
  <2>3. ASSUME NEW v \in Workspace, NEW e, v = w, e = request.change PROVE Proper(v, e)'
    BY <1>1, <2>1, <2>2, <2>3, ProperKept
  <2>4. FeedStaysInWorkspace'
    <3> SUFFICES ASSUME NEW v \in Workspace, NEW i \in DOMAIN events'[v], NEW e,
                        e = events'[v][i]
                 PROVE  Proper(v, e)'
      BY DEF FeedStaysInWorkspace, Proper, BelongsTo
    <3>1. CASE v = w /\ i = n
      BY <2>1, <2>3, <3>1
    <3>2. CASE ~(v = w /\ i = n)
      <4>1. i \in DOMAIN events[v] /\ e = events[v][i]
        BY <2>1, <3>2
      <4> QED
        BY <1>2, <4>1
    <3> QED
      BY <3>1, <3>2
  <2>5. ASSUME NEW v \in Workspace
        PROVE  /\ \A i \in DOMAIN events[v] : i \in DOMAIN events'[v] /\ events'[v][i] = events[v][i]
               /\ \A i \in DOMAIN events'[v] \ DOMAIN events[v] : \A j \in DOMAIN events[v] : j < i
    BY <2>1
  <2> QED
    BY <2>4, <2>5
<1> QED
  BY <1>3, <1>4

-----------------------------------------------------------------------------
(* Theorems *)

\* The invariant that the others rest on holds in every state, so the service
\* never mixes workspaces up, and its tables are what their columns say.
THEOREM CloudInvariant == Spec => []CloudInv
<1>1. Init => CloudInv
  BY TypeInit
<1>2. CloudInv /\ [Next]_vars => CloudInv'
  <2>1. ASSUME CloudInv, Next PROVE CloudInv'
    BY <2>1, TypeStep, RowsInvStep, RequestInvStep, NumbersInvStep, FeedStep DEF CloudInv
  <2>2. ASSUME CloudInv, UNCHANGED vars PROVE CloudInv'
    BY <2>2 DEF CloudInv, TypeOK, RowsInv, RequestInv, NumbersInv, FeedStaysInWorkspace,
                Proper, BelongsTo, vars, tables
  <2> QED
    BY <2>1, <2>2
<1> QED
  BY <1>1, <1>2, PTL DEF Spec

\* No event of a workspace names a member, a code or a blip of another one, and
\* no actor did what its role forbids.
THEOREM WorkspacesApart == Spec => []FeedStaysInWorkspace
  BY CloudInvariant, PTL DEF CloudInv

\* A feed is only ever extended, by an event with a larger number than all
\* before it: crashes leave gaps, never a number that is used again.
THEOREM FeedCorrect == Spec => FeedOnlyGrows
<1>1. CloudInv /\ [Next]_vars =>
        [\A w \in Workspace :
          /\ \A i \in DOMAIN events[w] : i \in DOMAIN events'[w] /\ events'[w][i] = events[w][i]
          /\ \A i \in DOMAIN events'[w] \ DOMAIN events[w] :
               \A j \in DOMAIN events[w] : j < i]_vars
  BY FeedStep
<1> QED
  BY <1>1, CloudInvariant, PTL DEF Spec, FeedOnlyGrows

-----------------------------------------------------------------------------
(* Tags *)

\* A tags event about b is still to be announced.
TagsPending(b) ==
  /\ pc # "idle"
  /\ request.change.type = "blip_tags_updated" /\ request.change.target = b

\* The row of b holds the tags that are pending or, without any, those that the
\* last event about them announced.
LastTags(b) ==
  LET rows == TagsRows(blips[b].ws, b) IN
  \A i \in rows : (\A j \in rows : j <= i) => events[blips[b].ws][i].tags = blips[b].tags
TagsAgree(b) ==
  IF TagsPending(b) THEN blips[b].tags = request.change.tags ELSE LastTags(b)
TagsInv ==
  crashes = 0 => \A b \in HostedBlip : blips[b] # NoBlip => TagsAgree(b)

\* What Proper says about an event whose target is a blip.
LEMMA BlipTarget ==
  ASSUME NEW w \in Workspace, NEW b \in HostedBlip, NEW e, Proper(w, e), e.target = b
  PROVE  blips[b] # NoBlip /\ blips[b].ws = w
  BY IdentityAssumption DEF Proper, BelongsTo, Item

\* A blip without a row is in no feed.
LEMMA NoTagsRows ==
  ASSUME CloudInv, NEW b \in HostedBlip, blips[b] = NoBlip, NEW w \in Workspace
  PROVE  TagsRows(w, b) = {}
<1> SUFFICES ASSUME NEW i \in TagsRows(w, b) PROVE FALSE
  OBVIOUS
<1> DEFINE e == events[w][i]
<1>1. Proper(w, e) /\ e.target = b
  BY DEF TagsRows, CloudInv, FeedStaysInWorkspace
<1> HIDE DEF e
<1> QED
  BY <1>1, BlipTarget

\* A step that leaves the row of b, the events about it and what is pending.
LEMMA TagsFrame ==
  ASSUME NEW b \in HostedBlip, blips'[b] = blips[b], events' = events,
         TagsPending(b)' <=> TagsPending(b), request' = request \/ ~TagsPending(b)',
         TagsAgree(b)
  PROVE  TagsAgree(b)'
<1>1. LastTags(b)' <=> LastTags(b)
  BY DEF LastTags, TagsRows
<1> QED
  BY <1>1 DEF TagsAgree

\* A first statement begins a request: what it leaves of the blips that the
\* request does not announce tags of.
LEMMA TagsBegin ==
  ASSUME NEW w \in Workspace, NEW type, NEW m \in Member, NEW target, NEW tags, NEW next,
         Begin(w, type, m, target, tags, next), events' = events,
         NEW b \in HostedBlip, blips'[b] = blips[b], TagsAgree(b),
         type # "blip_tags_updated" \/ target # b
  PROVE  TagsAgree(b)'
<1>1. ~TagsPending(b) /\ ~TagsPending(b)'
  BY RequestMade DEF Begin, TagsPending
<1> QED
  BY <1>1, TagsFrame

LEMMA TagsInsert ==
  ASSUME CloudInv, InsertEvent, NEW b \in HostedBlip, blips[b] # NoBlip, TagsAgree(b)
  PROVE  TagsAgree(b)'
<1> SUFFICES ASSUME NEW w, w = request.ws, NEW n, n = lastSequence[w],
                    NEW v, v = blips[b].ws
             PROVE  TagsAgree(b)'
  OBVIOUS
<1>1. /\ w \in Workspace /\ n \in Nat /\ n \notin DOMAIN events[w]
      /\ DOMAIN events'[w] = DOMAIN events[w] \cup {n}
      /\ events'[w][n] = request.change
      /\ \A i \in DOMAIN events[w] : events'[w][i] = events[w][i] /\ i < n
      /\ \A u \in Workspace \ {w} : events'[u] = events[u]
      /\ Proper(w, request.change)
  BY EventAdded
<1>2. blips' = blips /\ pc' = "idle" /\ pc # "idle"
  BY DEF InsertEvent
<1>3. v \in Workspace
  BY DEF CloudInv, TypeOK
<1>4. \A i \in DOMAIN events[w] : i \in Nat
  BY <1>1 DEF CloudInv, NumbersInv
<1>5. ~TagsPending(b)'
  BY <1>2 DEF TagsPending
<1>6. CASE TagsPending(b)
  <2>1. w = v
    BY <1>1, <1>6, BlipTarget DEF TagsPending
  <2>2. TagsRows(v, b)' = TagsRows(v, b) \cup {n}
    <3>1. request.change.type = "blip_tags_updated" /\ request.change.target = b
      BY <1>6 DEF TagsPending
    <3> QED
      BY <1>1, <2>1, <3>1 DEF TagsRows
  <2>3. TagsRows(v, b) \subseteq DOMAIN events[w]
    BY <2>1 DEF TagsRows
  <2>4. \A i \in TagsRows(v, b)' : (\A j \in TagsRows(v, b)' : j <= i) => i = n
    BY <1>1, <1>4, <2>2, <2>3
  <2>5. events'[v][n].tags = blips[b].tags
    BY <1>1, <1>6, <2>1 DEF TagsAgree
  <2>6. LastTags(b)'
    BY <1>2, <2>4, <2>5 DEF LastTags
  <2> QED
    BY <1>5, <2>6 DEF TagsAgree
<1>7. CASE ~TagsPending(b)
  <2>1. TagsRows(v, b)' = TagsRows(v, b)
    <3>1. CASE v = w
      <4>1. ~(request.change.type = "blip_tags_updated" /\ request.change.target = b)
        BY <1>2, <1>7 DEF TagsPending
      <4> QED
        BY <1>1, <3>1, <4>1 DEF TagsRows
    <3>2. CASE v # w
      BY <1>1, <1>3, <3>2 DEF TagsRows
    <3> QED
      BY <3>1, <3>2
  <2>2. \A i \in TagsRows(v, b) : events'[v][i] = events[v][i]
    BY <1>1, <1>3 DEF TagsRows
  <2>3. LastTags(b)'
    BY <1>2, <1>7, <2>1, <2>2 DEF LastTags, TagsAgree
  <2> QED
    BY <1>5, <2>3 DEF TagsAgree
<1> QED
  BY <1>6, <1>7

LEMMA TagsStep == ASSUME CloudInv, TagsInv, Next PROVE TagsInv'
<1> SUFFICES ASSUME crashes' = 0, NEW c \in HostedBlip, blips'[c] # NoBlip
             PROVE  TagsAgree(c)'
  BY DEF TagsInv
<1>0. /\ crashes = 0
      /\ blips[c] # NoBlip => TagsAgree(c)
  <2>1. crashes' = crashes \/ crashes' = crashes + 1
    BY Steps, AsideKeeps
    DEF CreateWorkspace, CreateJoinCode, JoinWorkspace, PublishBlip, UpdateBlipTags, RecordAccess,
        Begin, InsertMember, InsertSession, TakeNumber, InsertEvent, CutShort, Tick, vars
  <2> QED
    BY <2>1 DEF TagsInv, CloudInv, TypeOK
<1>1. ASSUME NEW w \in Workspace, NEW m \in Member, CreateWorkspace(w, m) PROVE TagsAgree(c)'
  BY <1>0, <1>1, TagsBegin DEF CreateWorkspace
<1>2. ASSUME NEW m \in Member, NEW k \in Code, NEW r \in Role, NEW uses \in 1..MaxUses,
             CreateJoinCode(m, k, r, uses)
      PROVE  TagsAgree(c)'
  <2>1. memberOf[m] \in Workspace
    BY <1>2, MemberHasWorkspace DEF CreateJoinCode
  <2> QED
    BY <1>0, <1>2, <2>1, TagsBegin DEF CreateJoinCode
<1>3. ASSUME NEW k \in Code, NEW m \in Member, JoinWorkspace(k, m) PROVE TagsAgree(c)'
  <2>1. codes[k].ws \in Workspace
    BY <1>3 DEF JoinWorkspace, Redeemable, CloudInv, TypeOK
  <2> QED
    BY <1>0, <1>3, <2>1, TagsBegin DEF JoinWorkspace
<1>4. ASSUME NEW m \in Member, NEW b \in HostedBlip, NEW t \in Tags, PublishBlip(m, b, t)
      PROVE  TagsAgree(c)'
  <2> DEFINE w == memberOf[m]
  <2>1. w \in Workspace
    BY <1>4, MemberHasWorkspace DEF PublishBlip
  <2>2. CASE c = b
    <3> SUFFICES ASSUME NEW v \in Workspace, v = w PROVE TagsAgree(c)'
      BY <2>1
    <3>1. blips'[b].ws = v /\ blips[b] = NoBlip
      BY <1>4 DEF PublishBlip, CloudInv, TypeOK
    <3>2. TagsRows(v, b)' = {}
      <4>1. TagsRows(v, b) = {}
        BY <3>1, NoTagsRows
      <4> QED
        BY <1>4, <4>1 DEF PublishBlip, TagsRows
    <3>3. ~TagsPending(b)'
      BY <1>4, <2>1, RequestMade DEF PublishBlip, Begin, TagsPending
    <3> QED
      BY <2>2, <3>1, <3>2, <3>3 DEF TagsAgree, LastTags
  <2>3. CASE c # b
    <3>1. blips'[c] = blips[c]
      BY <1>4, <2>3 DEF PublishBlip, CloudInv, TypeOK
    <3> QED
      BY <1>0, <1>4, <2>1, <3>1, TagsBegin DEF PublishBlip
  <2> QED
    BY <2>2, <2>3
<1>5. ASSUME NEW m \in Member, NEW b \in HostedBlip, NEW t \in Tags, UpdateBlipTags(m, b, t)
      PROVE  TagsAgree(c)'
  <2> DEFINE w == memberOf[m]
  <2>1. w \in Workspace
    BY <1>5, MemberHasWorkspace DEF UpdateBlipTags
  <2>2. CASE c = b
    <3>1. blips'[b].tags = t
      <4>1. blips[b] \in [ws : Workspace, publisher : Member, tags : Tags, sequence : Nat]
        BY <1>5 DEF UpdateBlipTags, CloudInv, TypeOK
      <4> QED
        BY <1>5, <4>1 DEF UpdateBlipTags, CloudInv, TypeOK
    <3>2. request'.change.tags = t /\ TagsPending(b)'
      BY <1>5 DEF UpdateBlipTags, Begin, TagsPending
    <3> QED
      BY <2>2, <3>1, <3>2 DEF TagsAgree
  <2>3. CASE c # b
    <3>1. blips'[c] = blips[c]
      BY <1>5, <2>3 DEF UpdateBlipTags, CloudInv, TypeOK
    <3> QED
      BY <1>0, <1>5, <2>1, <2>3, <3>1, TagsBegin DEF UpdateBlipTags
  <2> QED
    BY <2>2, <2>3
<1>6. ASSUME NEW m \in Member, NEW b \in HostedBlip, RecordAccess(m, b) PROVE TagsAgree(c)'
  <2>1. memberOf[m] \in Workspace
    BY <1>6, MemberHasWorkspace DEF RecordAccess
  <2> QED
    BY <1>0, <1>6, <2>1, TagsBegin DEF RecordAccess
<1>7. CASE InsertMember \/ InsertSession \/ TakeNumber \/ Aside \/ Tick
  <2>1. /\ blips' = blips /\ events' = events /\ request' = request
        /\ pc # "idle" <=> pc' # "idle"
    BY <1>7, AsideKeeps DEF InsertMember, InsertSession, TakeNumber, Tick, vars, tables
  <2> QED
    BY <1>0, <2>1, TagsFrame DEF TagsPending
<1>8. CASE InsertEvent
  <2>1. blips[c] # NoBlip
    BY <1>8 DEF InsertEvent
  <2> QED
    BY <1>0, <1>8, <2>1, TagsInsert
<1>9. CASE CutShort
  BY <1>0, <1>9 DEF CutShort
<1> QED
  BY <1>1, <1>2, <1>3, <1>4, <1>5, <1>6, <1>7, <1>8, <1>9, Steps

\* Unless a request is cut short, the tags of a blip are always what a member
\* reads off the feed: the tags of the last event about it.
THEOREM TagsCorrect == Spec => []TagsMatchFeed
<1>1. Init => TagsInv
  BY DEF Init, TagsInv
<1>2. CloudInv /\ TagsInv /\ [Next]_vars => TagsInv'
  <2>1. ASSUME TagsInv, UNCHANGED vars PROVE TagsInv'
    BY <2>1 DEF TagsInv, TagsAgree, TagsPending, LastTags, TagsRows, vars, tables
  <2> QED
    BY <2>1, TagsStep
<1>3. TagsInv => TagsMatchFeed
  BY DEF TagsInv, TagsMatchFeed, TagsAgree, TagsPending, LastTags
<1> QED
  BY <1>1, <1>2, <1>3, CloudInvariant, PTL DEF Spec

-----------------------------------------------------------------------------
(* Seats *)

\* The creator's seat, and a member that is about to be inserted.
Founder(w) == IF lastSequence[w] = Absent THEN 0 ELSE 1
Pending(w) == IF pc = "member" /\ request.ws = w THEN 1 ELSE 0

\* A seat is taken before its member exists, so a join that is cut short leaves
\* a seat too many and never a member too many.
SeatsInv ==
  \A w \in Workspace :
    /\ IsFiniteSet(MembersOf(w)) /\ IsFiniteSet(SeatsTaken(w))
    /\ Cardinality(MembersOf(w)) + Pending(w) <= Founder(w) + Cardinality(SeatsTaken(w))

\* A new element counts for one.
LEMMA OneMore ==
  ASSUME NEW S, IsFiniteSet(S), NEW x, x \notin S
  PROVE  /\ IsFiniteSet(S \cup {x})
         /\ Cardinality(S) \in Nat
         /\ Cardinality(S \cup {x}) = Cardinality(S) + 1
  BY FS_AddElement, FS_CardinalityType

\* A step that leaves the members and the seats.
LEMMA SeatsFrame ==
  ASSUME SeatsInv, NEW w \in Workspace,
         MembersOf(w)' = MembersOf(w), SeatsTaken(w)' = SeatsTaken(w),
         \/ Pending(w)' <= Pending(w) /\ Founder(w) <= Founder(w)'
         \/ Pending(w)' = Pending(w) + 1 /\ Founder(w)' = Founder(w) + 1
  PROVE  /\ IsFiniteSet(MembersOf(w))' /\ IsFiniteSet(SeatsTaken(w))'
         /\ Cardinality(MembersOf(w))' + Pending(w)' <= Founder(w)' + Cardinality(SeatsTaken(w))'
<1> DEFINE M == Cardinality(MembersOf(w))
           S == Cardinality(SeatsTaken(w))
<1>1. /\ IsFiniteSet(MembersOf(w)) /\ IsFiniteSet(SeatsTaken(w))
      /\ M \in Nat /\ S \in Nat /\ M + Pending(w) <= Founder(w) + S
  BY FS_CardinalityType DEF SeatsInv
<1>2. /\ Pending(w) \in {0, 1} /\ Pending(w)' \in {0, 1}
      /\ Founder(w) \in {0, 1} /\ Founder(w)' \in {0, 1}
  BY DEF Pending, Founder
<1>3. Cardinality(MembersOf(w))' = M /\ Cardinality(SeatsTaken(w))' = S
  OBVIOUS
<1> HIDE DEF M, S
<1> QED
  BY <1>1, <1>2, <1>3

\* Codes that keep their workspace and their uses take the same seats.
LEMMA SameSeats ==
  ASSUME NEW w,
         \A k \in Code : codes[k] # NoCode =>
           codes'[k] # NoCode /\ codes'[k].ws = codes[k].ws /\ codes'[k].uses = codes[k].uses,
         \A k \in Code : codes[k] = NoCode =>
           codes'[k] = NoCode \/ codes'[k].uses = 0
  PROVE  SeatsTaken(w)' = SeatsTaken(w)
<1>1. SeatsTaken(w)' =
        UNION {{k} \X (1..codes'[k].uses) : k \in {c \in Code : codes'[c] # NoCode /\ codes'[c].ws = w}}
  BY DEF SeatsTaken, Invitations
<1>2. ASSUME NEW s PROVE s \in SeatsTaken(w)' <=> s \in SeatsTaken(w)
  <2>1. s \in SeatsTaken(w)' <=>
          \E k \in Code : codes'[k] # NoCode /\ codes'[k].ws = w /\ s \in {k} \X (1..codes'[k].uses)
    BY <1>1
  <2>2. s \in SeatsTaken(w) <=>
          \E k \in Code : codes[k] # NoCode /\ codes[k].ws = w /\ s \in {k} \X (1..codes[k].uses)
    BY DEF SeatsTaken, Invitations
  <2>3. 1..0 = {}
    OBVIOUS
  <2>4. ASSUME NEW k \in Code
        PROVE  (codes'[k] # NoCode /\ codes'[k].ws = w /\ s \in {k} \X (1..codes'[k].uses)) <=>
               (codes[k] # NoCode /\ codes[k].ws = w /\ s \in {k} \X (1..codes[k].uses))
    <3>1. CASE codes[k] # NoCode
      BY <3>1
    <3>2. CASE codes[k] = NoCode
      BY <2>3, <3>2
    <3> QED
      BY <3>1, <3>2
  <2> QED
    BY <2>1, <2>2, <2>4
<1> QED
  BY <1>2

\* Redeeming a code takes one seat more of its workspace.
LEMMA SeatRedeemed ==
  ASSUME CloudInv, NEW k \in Code, NEW m \in Member, JoinWorkspace(k, m), NEW w \in Workspace
  PROVE  /\ codes[k].ws = w =>
              /\ <<k, codes[k].uses + 1>> \notin SeatsTaken(w)
              /\ SeatsTaken(w)' = SeatsTaken(w) \cup {<<k, codes[k].uses + 1>>}
         /\ codes[k].ws # w => SeatsTaken(w)' = SeatsTaken(w)
<1> SUFFICES ASSUME NEW n, n = codes[k].uses, NEW v, v = codes[k].ws
             PROVE  /\ v = w => /\ <<k, n + 1>> \notin SeatsTaken(w)
                                /\ SeatsTaken(w)' = SeatsTaken(w) \cup {<<k, n + 1>>}
                    /\ v # w => SeatsTaken(w)' = SeatsTaken(w)
  OBVIOUS
<1>1. codes[k] \in [ws : Workspace, role : Role, max : Nat, uses : Nat, expires : Nat]
  BY DEF JoinWorkspace, Redeemable, CloudInv, TypeOK
<1>2. n \in Nat
  BY <1>1
<1>3. codes'[k].uses = n + 1 /\ codes'[k].ws = v /\ codes'[k] # NoCode /\ codes[k] # NoCode
  <2>1. codes'[k] = [codes[k] EXCEPT !.uses = @ + 1]
    BY DEF JoinWorkspace, CloudInv, TypeOK
  <2>2. codes'[k] \in [ws : Workspace, role : Role, max : Nat, uses : Nat, expires : Nat]
    BY <1>1, <2>1
  <2> QED
    BY <1>1, <2>1, <2>2, NullAssumption
<1>4. \A j \in Code \ {k} : codes'[j] = codes[j]
  BY DEF JoinWorkspace, CloudInv, TypeOK
<1>5. \A s : s \in SeatsTaken(w) <=>
        \E j \in Code : codes[j] # NoCode /\ codes[j].ws = w /\ s \in {j} \X (1..codes[j].uses)
  BY DEF SeatsTaken, Invitations
<1>6. \A s : s \in SeatsTaken(w)' <=>
        \E j \in Code : codes'[j] # NoCode /\ codes'[j].ws = w /\ s \in {j} \X (1..codes'[j].uses)
  BY DEF SeatsTaken, Invitations
<1>7. \A s : s \in {k} \X (1..n + 1) <=> s \in {k} \X (1..n) \/ s = <<k, n + 1>>
  BY <1>2
<1>8. <<k, n + 1>> \notin SeatsTaken(w)
  <2> SUFFICES ASSUME NEW j \in Code, <<k, n + 1>> \in {j} \X (1..codes[j].uses) PROVE FALSE
    BY <1>5
  <2>1. j = k /\ n + 1 \in 1..codes[j].uses
    OBVIOUS
  <2>2. n + 1 \in 1..n
    BY <2>1
  <2> QED
    BY <1>2, <2>2
<1>9. CASE v = w
  <2>1. ASSUME NEW s, s \in SeatsTaken(w)' PROVE s \in SeatsTaken(w) \/ s = <<k, n + 1>>
    <3>1. PICK j \in Code :
            codes'[j] # NoCode /\ codes'[j].ws = w /\ s \in {j} \X (1..codes'[j].uses)
      BY <1>6, <2>1
    <3>2. CASE j = k
      <4>1. s \in {k} \X (1..n) \/ s = <<k, n + 1>>
        BY <1>3, <1>7, <3>1, <3>2
      <4> QED
        BY <1>3, <1>5, <1>9, <4>1
    <3>3. CASE j # k
      BY <1>4, <1>5, <3>1, <3>3
    <3> QED
      BY <3>2, <3>3
  <2>2. ASSUME NEW s, s \in SeatsTaken(w) \/ s = <<k, n + 1>> PROVE s \in SeatsTaken(w)'
    <3>1. CASE s = <<k, n + 1>>
      <4>1. s \in {k} \X (1..codes'[k].uses)
        BY <1>3, <1>7, <3>1
      <4> QED
        BY <1>3, <1>6, <1>9, <4>1
    <3>2. CASE s \in SeatsTaken(w)
      <4>1. PICK j \in Code :
              codes[j] # NoCode /\ codes[j].ws = w /\ s \in {j} \X (1..codes[j].uses)
        BY <1>5, <3>2
      <4>2. CASE j = k
        <5>1. s \in {k} \X (1..codes'[k].uses)
          BY <1>3, <1>7, <4>1, <4>2
        <5> QED
          BY <1>3, <1>6, <1>9, <5>1
      <4>3. CASE j # k
        BY <1>4, <1>6, <4>1, <4>3
      <4> QED
        BY <4>2, <4>3
    <3> QED
      BY <2>2, <3>1, <3>2
  <2> QED
    BY <1>8, <1>9, <2>1, <2>2
<1>10. CASE v # w
  <2>1. \A s : s \in SeatsTaken(w)' <=> s \in SeatsTaken(w)
    BY <1>3, <1>4, <1>5, <1>6, <1>10
  <2> QED
    BY <1>10, <2>1
<1> QED
  BY <1>9, <1>10

LEMMA SeatsStep == ASSUME CloudInv, SeatsInv, Next PROVE SeatsInv'
<1> SUFFICES ASSUME NEW v \in Workspace
             PROVE  /\ IsFiniteSet(MembersOf(v))' /\ IsFiniteSet(SeatsTaken(v))'
                    /\ Cardinality(MembersOf(v))' + Pending(v)'
                         <= Founder(v)' + Cardinality(SeatsTaken(v))'
  BY DEF SeatsInv
<1> DEFINE Seats ==
      /\ IsFiniteSet(MembersOf(v))' /\ IsFiniteSet(SeatsTaken(v))'
      /\ Cardinality(MembersOf(v))' + Pending(v)' <= Founder(v)' + Cardinality(SeatsTaken(v))'
<1>0. ASSUME UNCHANGED memberOf PROVE MembersOf(v)' = MembersOf(v)
  BY <1>0 DEF MembersOf
<1>00. ASSUME UNCHANGED codes PROVE SeatsTaken(v)' = SeatsTaken(v)
  BY <1>00 DEF SeatsTaken, Invitations
<1>1. ASSUME NEW w \in Workspace, NEW m \in Member, CreateWorkspace(w, m) PROVE Seats
  <2>1. \/ Pending(v)' <= Pending(v) /\ Founder(v) <= Founder(v)'
        \/ Pending(v)' = Pending(v) + 1 /\ Founder(v)' = Founder(v) + 1
    BY <1>1, RequestMade DEF CreateWorkspace, Begin, Pending, Founder, CloudInv, TypeOK, Absent
  <2> QED
    BY <1>0, <1>00, <1>1, <2>1, SeatsFrame DEF CreateWorkspace
<1>2. ASSUME NEW m \in Member, NEW k \in Code, NEW r \in Role, NEW uses \in 1..MaxUses,
             CreateJoinCode(m, k, r, uses)
      PROVE  Seats
  <2>1. \A j \in Code : \/ j # k /\ codes'[j] = codes[j]
                        \/ j = k /\ codes[j] = NoCode /\ codes'[j].uses = 0
    BY <1>2 DEF CreateJoinCode, CloudInv, TypeOK
  <2>2. SeatsTaken(v)' = SeatsTaken(v)
    BY <2>1, SameSeats
  <2>3. Pending(v)' <= Pending(v) /\ Founder(v) <= Founder(v)'
    BY <1>2 DEF CreateJoinCode, Begin, Pending, Founder
  <2> QED
    BY <1>0, <1>2, <2>2, <2>3, SeatsFrame DEF CreateJoinCode
<1>3. ASSUME NEW k \in Code, NEW m \in Member, JoinWorkspace(k, m) PROVE Seats
  <2>1. MembersOf(v)' = MembersOf(v) /\ Founder(v)' = Founder(v)
    BY <1>0, <1>3 DEF JoinWorkspace, Founder
  <2>2. CASE codes[k].ws # v
    <3>1. request'.ws # v /\ pc' = "member"
      BY <1>3, <2>2, RequestMade DEF JoinWorkspace, Begin
    <3>2. Pending(v)' <= Pending(v) /\ Founder(v) <= Founder(v)'
      BY <2>1, <3>1 DEF Pending, Founder
    <3> QED
      BY <1>3, <2>1, <2>2, <3>2, SeatRedeemed, SeatsFrame
  <2>3. CASE codes[k].ws = v
    <3>1. Pending(v) = 0 /\ Pending(v)' \in {0, 1}
      BY <1>3 DEF JoinWorkspace, Begin, Pending
    <3>2. /\ <<k, codes[k].uses + 1>> \notin SeatsTaken(v)
          /\ SeatsTaken(v)' = SeatsTaken(v) \cup {<<k, codes[k].uses + 1>>}
      BY <1>3, <2>3, SeatRedeemed
    <3>3. /\ IsFiniteSet(SeatsTaken(v))' /\ Cardinality(SeatsTaken(v)) \in Nat
          /\ Cardinality(SeatsTaken(v))' = Cardinality(SeatsTaken(v)) + 1
      BY <3>2, OneMore DEF SeatsInv
    <3>4. /\ IsFiniteSet(MembersOf(v)) /\ Cardinality(MembersOf(v)) \in Nat
          /\ Cardinality(MembersOf(v)) + 0 <= Founder(v) + Cardinality(SeatsTaken(v))
          /\ Founder(v) \in {0, 1}
      BY <3>1, FS_CardinalityType DEF SeatsInv, Founder
    <3>5. Cardinality(MembersOf(v))' = Cardinality(MembersOf(v))
      BY <2>1
    <3> QED
      BY <2>1, <3>1, <3>3, <3>4, <3>5
  <2> QED
    BY <2>2, <2>3
<1>4. CASE InsertMember
  <2> DEFINE m == request.change.actor
  <2>1. /\ m \in Member /\ memberOf[m] = NoWorkspace /\ request.ws \in Workspace /\ pc = "member"
        /\ request' = request /\ pc' = "session" /\ UNCHANGED <<lastSequence, codes>>
    BY <1>4 DEF InsertMember, CloudInv, RequestInv, Change
  <2>2. memberOf' = [memberOf EXCEPT ![m] = request.ws]
    BY <1>4 DEF InsertMember
  <2>3. SeatsTaken(v)' = SeatsTaken(v) /\ Founder(v)' = Founder(v) /\ Pending(v)' = 0
    BY <1>00, <2>1 DEF Founder, Pending
  <2>4. CASE request.ws # v
    <3>1. MembersOf(v)' = MembersOf(v)
      BY <2>1, <2>2, <2>4, NullAssumption DEF MembersOf, CloudInv, TypeOK
    <3>2. Pending(v)' <= Pending(v) /\ Founder(v) <= Founder(v)'
      BY <2>3 DEF Pending, Founder
    <3> QED
      BY <2>3, <3>1, <3>2, SeatsFrame
  <2>5. CASE request.ws = v
    <3>1. m \notin MembersOf(v)
      BY <2>1, NullAssumption DEF MembersOf
    <3> SUFFICES ASSUME NEW x, x = m PROVE Seats
      OBVIOUS
    <3>2. MembersOf(v)' = MembersOf(v) \cup {x}
      BY <2>1, <2>2, <2>5 DEF MembersOf, CloudInv, TypeOK
    <3>3. /\ IsFiniteSet(MembersOf(v))' /\ Cardinality(MembersOf(v)) \in Nat
          /\ Cardinality(MembersOf(v))' = Cardinality(MembersOf(v)) + 1
      BY <3>1, <3>2, OneMore DEF SeatsInv
    <3>4. /\ IsFiniteSet(SeatsTaken(v)) /\ Cardinality(SeatsTaken(v)) \in Nat
          /\ Cardinality(MembersOf(v)) + 1 <= Founder(v) + Cardinality(SeatsTaken(v))
          /\ Founder(v) \in {0, 1}
      BY <2>1, <2>5, FS_CardinalityType DEF SeatsInv, Founder, Pending
    <3>5. Cardinality(SeatsTaken(v))' = Cardinality(SeatsTaken(v))
      BY <2>3
    <3> QED
      BY <2>3, <3>3, <3>4, <3>5
  <2> QED
    BY <2>4, <2>5
<1>5. ASSUME UNCHANGED <<memberOf, codes>>,
             Pending(v)' <= Pending(v), Founder(v) <= Founder(v)'
      PROVE  Seats
  BY <1>0, <1>00, <1>5, SeatsFrame
<1>6. ASSUME pc # "member", pc' # "member" PROVE Pending(v)' <= Pending(v)
  BY <1>6 DEF Pending
<1>7. Founder(v) <= Founder(v)'
  BY RowsStep DEF RowsKept, Founder
<1>8. ASSUME NEW m \in Member, NEW b \in HostedBlip, NEW t \in Tags,
             PublishBlip(m, b, t) \/ UpdateBlipTags(m, b, t)
      PROVE  Seats
  BY <1>5, <1>6, <1>7, <1>8 DEF PublishBlip, UpdateBlipTags, Begin
<1>9. ASSUME NEW m \in Member, NEW b \in HostedBlip, RecordAccess(m, b) PROVE Seats
  BY <1>5, <1>6, <1>7, <1>9 DEF RecordAccess, Begin
<1>10. CASE InsertSession \/ TakeNumber \/ InsertEvent
  BY <1>5, <1>6, <1>7, <1>10 DEF InsertSession, TakeNumber, InsertEvent
<1>11. CASE CutShort
  <2>1. Pending(v)' <= Pending(v)
    BY <1>11 DEF CutShort, Pending
  <2> QED
    BY <1>5, <1>7, <1>11, <2>1 DEF CutShort, tables
<1>12. CASE Aside \/ Tick
  <2>1. Pending(v)' <= Pending(v)
    BY <1>12, AsideKeeps DEF Tick, vars, Pending
  <2> QED
    BY <1>5, <1>7, <1>12, <2>1, AsideKeeps DEF Tick, vars, tables
<1> QED
  BY <1>1, <1>2, <1>3, <1>4, <1>8, <1>9, <1>10, <1>11, <1>12, Steps

LEMMA SeatsInit == Init => SeatsInv
<1> SUFFICES ASSUME Init, NEW w \in Workspace
             PROVE  /\ IsFiniteSet(MembersOf(w)) /\ IsFiniteSet(SeatsTaken(w))
                    /\ Cardinality(MembersOf(w)) + Pending(w)
                         <= Founder(w) + Cardinality(SeatsTaken(w))
  BY DEF SeatsInv
<1>1. MembersOf(w) = {} /\ SeatsTaken(w) = {} /\ Pending(w) = 0 /\ Founder(w) = 0
  BY NullAssumption DEF Init, MembersOf, SeatsTaken, Invitations, Pending, Founder
<1> QED
  BY <1>1, FS_EmptySet

LEMMA SeatsFollow == CloudInv /\ SeatsInv => JoinsWithinInvitations
<1> SUFFICES ASSUME CloudInv, SeatsInv, NEW w \in Workspace
             PROVE  /\ Cardinality(MembersOf(w)) <= 1 + Cardinality(SeatsTaken(w))
                    /\ SeatsTaken(w) \subseteq SeatsGiven(w)
  BY DEF JoinsWithinInvitations
<1>1. Cardinality(MembersOf(w)) <= 1 + Cardinality(SeatsTaken(w))
  <2>1. /\ Cardinality(MembersOf(w)) \in Nat /\ Cardinality(SeatsTaken(w)) \in Nat
        /\ Cardinality(MembersOf(w)) + Pending(w) <= Founder(w) + Cardinality(SeatsTaken(w))
    BY FS_CardinalityType DEF SeatsInv
  <2>2. Pending(w) \in {0, 1} /\ Founder(w) \in {0, 1}
    BY DEF Pending, Founder
  <2> QED
    BY <2>1, <2>2
<1>2. ASSUME NEW k \in Invitations(w) PROVE 1..codes[k].uses \subseteq 1..codes[k].max
  <2>1. codes[k].uses \in Nat /\ codes[k].max \in Nat /\ codes[k].uses <= codes[k].max
    BY DEF Invitations, CloudInv, TypeOK
  <2> QED
    BY <2>1
<1>3. SeatsTaken(w) \subseteq SeatsGiven(w)
  <2> SUFFICES ASSUME NEW k \in Invitations(w), NEW s \in {k} \X (1..codes[k].uses)
               PROVE  s \in {k} \X (1..codes[k].max)
    BY DEF SeatsTaken, SeatsGiven
  <2> QED
    BY <1>2
<1> QED
  BY <1>1, <1>3

\* However many clients race for a join code, and wherever a join is cut short,
\* a workspace has no more members than its creator and the uses its owners
\* gave away.
THEOREM JoinsCorrect == Spec => []JoinsWithinInvitations
<1>1. CloudInv /\ SeatsInv /\ [Next]_vars => SeatsInv'
  <2>1. ASSUME SeatsInv, UNCHANGED vars PROVE SeatsInv'
    BY <2>1 DEF SeatsInv, MembersOf, SeatsTaken, Invitations, Pending, Founder, vars, tables
  <2> QED
    BY <2>1, SeatsStep
<1> QED
  BY <1>1, SeatsInit, SeatsFollow, CloudInvariant, PTL DEF Spec

-----------------------------------------------------------------------------
(* The service implements HostedFeed *)

\* The kind of the row that a request announces.
RequestTyped ==
  pc # "idle" =>
    LET c == request.change IN
    /\ c.type = "join_code_created" => c.target \in Code
    /\ c.type = "blip_published" => c.target \in HostedBlip
    /\ c.type = "member_joined" => c.target = c.actor

\* As long as no request is cut short, a feed is a sequence without gaps: only
\* the number that the request in progress has taken is missing from it, and a
\* blip about to be announced carries the number it will be announced with.
Taken(w) == IF pc = "announce" /\ request.ws = w THEN 1 ELSE 0
FeedLength(w) == IF lastSequence[w] = Absent THEN 0 ELSE lastSequence[w] - Taken(w)
FeedExact ==
  crashes = 0 =>
    /\ events \in [Workspace -> Seq(Change)]
    /\ \A w \in Workspace : Len(events[w]) = FeedLength(w)
    /\ pc # "idle" /\ request.change.type = "blip_published" =>
         blips[request.change.target].sequence
           = lastSequence[request.ws] + 1 - Taken(request.ws)

LEMMA RequestTypedStep == ASSUME CloudInv, RequestTyped, Next PROVE RequestTyped'
<1>1. ASSUME NEW w, NEW type, NEW m, NEW target, NEW tags, NEW next,
             Begin(w, type, m, target, tags, next),
             type = "join_code_created" => target \in Code,
             type = "blip_published" => target \in HostedBlip,
             type = "member_joined" => target = m
      PROVE  RequestTyped'
  <2>1. /\ request'.change.type = type /\ request'.change.target = target
        /\ request'.change.actor = m
    BY <1>1 DEF Begin
  <2> QED
    BY <1>1, <2>1 DEF RequestTyped
<1>2. ASSUME request' = request, pc # "idle" PROVE RequestTyped'
  BY <1>2 DEF RequestTyped
<1>3. ASSUME pc' = "idle" PROVE RequestTyped'
  BY <1>3 DEF RequestTyped
<1>4. ASSUME NEW w \in Workspace, NEW m \in Member, CreateWorkspace(w, m) PROVE RequestTyped'
  BY <1>1, <1>4 DEF CreateWorkspace
<1>5. ASSUME NEW m \in Member, NEW k \in Code, NEW r \in Role, NEW uses \in 1..MaxUses,
             CreateJoinCode(m, k, r, uses)
      PROVE  RequestTyped'
  BY <1>1, <1>5 DEF CreateJoinCode
<1>6. ASSUME NEW k \in Code, NEW m \in Member, JoinWorkspace(k, m) PROVE RequestTyped'
  BY <1>1, <1>6 DEF JoinWorkspace
<1>7. ASSUME NEW m \in Member, NEW b \in HostedBlip, NEW t \in Tags, PublishBlip(m, b, t)
      PROVE  RequestTyped'
  BY <1>1, <1>7 DEF PublishBlip
<1>8. ASSUME NEW m \in Member, NEW b \in HostedBlip, NEW t \in Tags, UpdateBlipTags(m, b, t)
      PROVE  RequestTyped'
  BY <1>1, <1>8 DEF UpdateBlipTags
<1>9. ASSUME NEW m \in Member, NEW b \in HostedBlip, RecordAccess(m, b) PROVE RequestTyped'
  BY <1>1, <1>9 DEF RecordAccess
<1>10. CASE InsertMember \/ InsertSession \/ TakeNumber
  BY <1>2, <1>10 DEF InsertMember, InsertSession, TakeNumber
<1>11. CASE InsertEvent \/ CutShort
  BY <1>3, <1>11 DEF InsertEvent, CutShort
<1>12. CASE Aside \/ Tick
  BY <1>12, AsideKeeps DEF Tick, vars, RequestTyped
<1> QED
  BY <1>4, <1>5, <1>6, <1>7, <1>8, <1>9, <1>10, <1>11, <1>12, Steps

\* A first statement that takes no number.
LEMMA ExactBegin ==
  ASSUME NEW w, NEW type, NEW m, NEW target, NEW tags, NEW next \in {"member", "number"},
         Begin(w, type, m, target, tags, next),
         FeedExact, UNCHANGED <<lastSequence, events>>,
         type = "blip_published" => blips'[target].sequence = lastSequence[w] + 1 - 0
  PROVE  FeedExact'
<1> SUFFICES ASSUME crashes' = 0 PROVE FeedExact'
  BY DEF FeedExact
<1>1. /\ crashes = 0 /\ pc = "idle" /\ pc' = next
      /\ request'.ws = w /\ request'.change.type = type /\ request'.change.target = target
  BY DEF Begin
<1>2. \A v : Taken(v) = 0 /\ Taken(v)' = 0
  BY <1>1 DEF Taken
<1>3. \A v : FeedLength(v)' = FeedLength(v)
  BY <1>2 DEF FeedLength
<1> QED
  BY <1>1, <1>2, <1>3 DEF FeedExact

\* The statement that takes the number.
LEMMA ExactTake ==
  ASSUME CloudInv, FeedExact, NEW w \in Workspace, lastSequence[w] \in Nat, pc # "announce",
         pc' = "announce", request'.ws = w, events' = events, crashes' = crashes,
         lastSequence' = [lastSequence EXCEPT ![w] = @ + 1],
         request'.change.type = "blip_published" =>
           /\ blips'[request'.change.target].sequence = lastSequence[w] + 1
  PROVE  FeedExact'
<1> SUFFICES ASSUME crashes' = 0 PROVE FeedExact'
  BY DEF FeedExact
<1>1. /\ lastSequence'[w] = lastSequence[w] + 1
      /\ \A v \in Workspace \ {w} : lastSequence'[v] = lastSequence[v]
  BY DEF CloudInv, TypeOK
<1>2. /\ Taken(w) = 0 /\ Taken(w)' = 1
      /\ \A v \in Workspace \ {w} : Taken(v) = 0 /\ Taken(v)' = 0
  BY DEF Taken
<1>3. \A v \in Workspace : FeedLength(v)' = FeedLength(v)
  BY <1>1, <1>2 DEF FeedLength, Absent
<1>4. pc' # "idle" /\ request'.change.type = "blip_published" =>
        blips'[request'.change.target].sequence = lastSequence'[request'.ws] + 1 - Taken(request.ws)'
  <2>1. Taken(request.ws)' = 1
    BY DEF Taken
  <2> QED
    BY <1>1, <2>1
<1> QED
  BY <1>3, <1>4 DEF FeedExact

\* The event goes to the end of its feed.
LEMMA EventAppended ==
  ASSUME CloudInv, FeedExact, InsertEvent, crashes = 0
  PROVE  /\ request.ws \in Workspace /\ request.change \in Change
         /\ lastSequence[request.ws] = Len(events[request.ws]) + 1
         /\ events' = [events EXCEPT ![request.ws] = Append(@, request.change)]
<1> SUFFICES ASSUME NEW w, w = request.ws, NEW c, c = request.change
             PROVE  /\ w \in Workspace /\ c \in Change
                    /\ lastSequence[w] = Len(events[w]) + 1
                    /\ events' = [events EXCEPT ![w] = Append(@, c)]
  OBVIOUS
<1>1. /\ w \in Workspace /\ c \in Change /\ lastSequence[w] \in Nat
  BY DEF InsertEvent, CloudInv, TypeOK, RequestInv, Absent
<1>2. lastSequence[w] = Len(events[w]) + 1
  BY <1>1 DEF InsertEvent, FeedExact, FeedLength, Taken, Absent
<1>3. ASSUME NEW s \in Seq(Change), NEW n, n = Len(s) + 1 PROVE Numbered(s, n, c) = Append(s, c)
  <2>1. DOMAIN s \cup {n} = 1..n
    BY <1>3
  <2>2. Append(s, c) = [i \in 1..n |-> IF i = n THEN c ELSE s[i]]
    BY <1>3, <1>1
  <2> QED
    BY <2>1, <2>2 DEF Numbered
<1>4. events[w] \in Seq(Change)
  BY <1>1 DEF FeedExact
<1>5. events' = [events EXCEPT ![w] = Numbered(events[w], lastSequence[w], c)]
  BY DEF InsertEvent
<1> QED
  BY <1>1, <1>2, <1>3, <1>4, <1>5

LEMMA FeedExactStep ==
  ASSUME CloudInv, RequestTyped, FeedExact, Next
  PROVE  FeedExact'
<1>0. TypeOK' /\ RowsKept
  BY TypeStep, RowsStep
<1>1. ASSUME NEW w \in Workspace, NEW m \in Member, CreateWorkspace(w, m) PROVE FeedExact'
  <2> SUFFICES ASSUME crashes' = 0 PROVE FeedExact'
    BY DEF FeedExact
  <2>1. /\ crashes = 0 /\ pc = "idle" /\ pc' = "member" /\ events' = events
        /\ request'.change.type = "workspace_created"
    BY <1>1 DEF CreateWorkspace, Begin
  <2>2. /\ lastSequence[w] = Absent /\ lastSequence'[w] = 0
        /\ \A v \in Workspace \ {w} : lastSequence'[v] = lastSequence[v]
    BY <1>1 DEF CreateWorkspace, CloudInv, TypeOK
  <2>3. \A v : Taken(v) = 0 /\ Taken(v)' = 0
    BY <2>1 DEF Taken
  <2>4. \A v \in Workspace : FeedLength(v)' = FeedLength(v)
    BY <2>2, <2>3 DEF FeedLength, Absent
  <2> QED
    BY <2>1, <2>4 DEF FeedExact
<1>2. ASSUME NEW m \in Member, NEW k \in Code, NEW r \in Role, NEW uses \in 1..MaxUses,
             CreateJoinCode(m, k, r, uses)
      PROVE  FeedExact'
  BY <1>2, ExactBegin DEF CreateJoinCode
<1>3. ASSUME NEW k \in Code, NEW m \in Member, JoinWorkspace(k, m) PROVE FeedExact'
  BY <1>3, ExactBegin DEF JoinWorkspace
<1>4. ASSUME NEW m \in Member, NEW b \in HostedBlip, NEW t \in Tags, PublishBlip(m, b, t)
      PROVE  FeedExact'
  <2>1. memberOf[m] \in Workspace /\ lastSequence[memberOf[m]] \in Nat
    BY <1>4, MemberHasWorkspace DEF PublishBlip
  <2>2. blips'[b].sequence = lastSequence[memberOf[m]] + 1
    BY <1>4 DEF PublishBlip, CloudInv, TypeOK
  <2>3. blips'[b].sequence = lastSequence[memberOf[m]] + 1 - 0
    BY <2>1, <2>2
  <2> QED
    BY <1>4, <2>3, ExactBegin DEF PublishBlip
<1>5. ASSUME NEW m \in Member, NEW b \in HostedBlip, NEW t \in Tags, UpdateBlipTags(m, b, t)
      PROVE  FeedExact'
  BY <1>5, ExactBegin DEF UpdateBlipTags
<1>6. ASSUME NEW m \in Member, NEW b \in HostedBlip, RecordAccess(m, b) PROVE FeedExact'
  <2> SUFFICES ASSUME NEW w, w = memberOf[m] PROVE FeedExact'
    OBVIOUS
  <2>1. w \in Workspace /\ lastSequence[w] \in Nat
    BY <1>6, MemberHasWorkspace DEF RecordAccess
  <2>2. /\ pc # "announce" /\ pc' = "announce" /\ request'.ws = w
        /\ request'.change.type = "blip_accessed" /\ crashes' = crashes
    BY <1>6 DEF RecordAccess, Begin
  <2>3. events' = events /\ lastSequence' = [lastSequence EXCEPT ![w] = @ + 1]
    BY <1>6 DEF RecordAccess
  <2> QED
    BY <2>1, <2>2, <2>3, ExactTake
<1>7. CASE InsertMember \/ InsertSession
  <2>1. /\ pc # "idle" /\ pc # "announce" /\ pc' # "announce" /\ pc' # "idle"
        /\ UNCHANGED <<request, crashes, events, lastSequence, blips>>
    BY <1>7 DEF InsertMember, InsertSession
  <2>2. \A v : Taken(v) = 0 /\ Taken(v)' = 0
    BY <2>1 DEF Taken
  <2>3. \A v : FeedLength(v)' = FeedLength(v)
    BY <2>1, <2>2 DEF FeedLength
  <2> QED
    BY <2>1, <2>2, <2>3 DEF FeedExact
<1>8. CASE TakeNumber
  <2> SUFFICES ASSUME NEW w, w = request.ws, crashes' = 0 PROVE FeedExact'
    BY DEF FeedExact
  <2>1. w \in Workspace /\ lastSequence[w] \in Nat
    BY <1>8 DEF TakeNumber, CloudInv, TypeOK, RequestInv, Absent
  <2>2. /\ pc = "number" /\ pc' = "announce" /\ UNCHANGED <<request, crashes, events, blips>>
        /\ lastSequence' = [lastSequence EXCEPT ![w] = @ + 1]
    BY <1>8 DEF TakeNumber
  <2>3. request.change.type = "blip_published" =>
          blips[request.change.target].sequence = lastSequence[w] + 1
    <3>1. Taken(w) = 0
      BY <2>2 DEF Taken
    <3> QED
      BY <2>1, <2>2, <3>1 DEF FeedExact
  <2> QED
    BY <2>1, <2>2, <2>3, ExactTake
<1>9. CASE InsertEvent
  <2> SUFFICES ASSUME NEW w, w = request.ws, crashes' = 0 PROVE FeedExact'
    BY DEF FeedExact
  <2>1. /\ pc = "announce" /\ pc' = "idle" /\ crashes = 0 /\ lastSequence' = lastSequence
    BY <1>9 DEF InsertEvent
  <2>2. /\ w \in Workspace /\ request.change \in Change
        /\ lastSequence[w] = Len(events[w]) + 1
        /\ events' = [events EXCEPT ![w] = Append(@, request.change)]
    BY <1>9, <2>1, EventAppended
  <2>3. events \in [Workspace -> Seq(Change)]
    BY <2>1 DEF FeedExact
  <2>4. /\ events' \in [Workspace -> Seq(Change)]
        /\ Len(events'[w]) = Len(events[w]) + 1
        /\ \A v \in Workspace \ {w} : events'[v] = events[v]
    BY <2>2, <2>3
  <2>5. \A v : Taken(v)' = 0
    BY <2>1 DEF Taken
  <2>6. Len(events'[w]) = FeedLength(w)'
    BY <2>1, <2>2, <2>3, <2>4, <2>5 DEF FeedLength, Absent
  <2>7. ASSUME NEW v \in Workspace \ {w} PROVE Len(events'[v]) = FeedLength(v)'
    <3>1. Taken(v) = 0
      BY DEF Taken
    <3> QED
      BY <2>1, <2>4, <2>5, <3>1 DEF FeedExact, FeedLength
  <2> QED
    BY <2>1, <2>4, <2>6, <2>7 DEF FeedExact
<1>10. CASE CutShort
  BY <1>10 DEF CutShort, FeedExact, CloudInv, TypeOK
<1>11. CASE Aside \/ Tick
  BY <1>11, AsideKeeps DEF Tick, vars, tables, FeedExact, FeedLength, Taken
<1> QED
  BY <1>1, <1>2, <1>3, <1>4, <1>5, <1>6, <1>7, <1>8, <1>9, <1>10, <1>11, Steps

\* What the request in progress holds back is what its event will tell of.
LEMMA HeldBack ==
  ASSUME RequestTyped, pc # "idle"
  PROVE  Unannounced = Feed!Made(request.change)
<1>1. CASE request.change.type = "member_joined"
  BY <1>1 DEF RequestTyped, Unannounced, Feed!Made
<1>2. CASE request.change.type # "member_joined"
  BY <1>2 DEF Unannounced, Feed!Made
<1> QED
  BY <1>1, <1>2

\* Every row belongs to one workspace.
LEMMA RowOwner ==
  ASSUME CloudInv, NEW w \in Workspace, NEW x \in Item
  PROVE  x \in Rows(w) <=> \/ x \in Member /\ memberOf[x] = w
                           \/ x \in Code /\ codes[x] # NoCode /\ codes[x].ws = w
                           \/ x \in HostedBlip /\ blips[x] # NoBlip /\ blips[x].ws = w
  BY DEF Rows, MembersOf

\* Once the member of a request exists, its event is about a row of its own
\* workspace and about no other.
LEMMA HeldBackHere ==
  ASSUME CloudInv, RequestTyped, pc # "idle", pc # "member"
  PROVE  /\ request.ws \in Workspace
         /\ Unannounced \subseteq Rows(request.ws)
         /\ \A v \in Workspace \ {request.ws} : Unannounced \cap Rows(v) = {}
<1> SUFFICES ASSUME NEW w, w = request.ws, NEW c, c = request.change
             PROVE  /\ w \in Workspace
                    /\ Unannounced \subseteq Rows(w)
                    /\ \A v \in Workspace \ {w} : Unannounced \cap Rows(v) = {}
  OBVIOUS
<1>1. w \in Workspace /\ c \in Change /\ Proper(w, c)
  BY DEF CloudInv, RequestInv
<1>2. c.actor \in Member /\ memberOf[c.actor] = w /\ BelongsTo(w, c.target)
  BY <1>1 DEF Proper, Change
<1>3. CASE c.type \in {"workspace_created", "member_joined"}
  <2>1. Unannounced = {c.actor}
    BY <1>3 DEF Unannounced
  <2> QED
    BY <1>1, <1>2, <2>1, IdentityAssumption DEF Rows, MembersOf
<1>4. CASE c.type = "join_code_created"
  <2>1. Unannounced = {c.target} /\ c.target \in Code
    BY <1>4 DEF Unannounced, RequestTyped
  <2>2. codes[c.target] # NoCode /\ codes[c.target].ws = w
    BY <1>1, <1>2, <2>1, IdentityAssumption DEF BelongsTo, Item
  <2> QED
    BY <1>1, <2>1, <2>2, IdentityAssumption DEF Rows, MembersOf
<1>5. CASE c.type = "blip_published"
  <2>1. Unannounced = {c.target} /\ c.target \in HostedBlip
    BY <1>5 DEF Unannounced, RequestTyped
  <2>2. blips[c.target] # NoBlip /\ blips[c.target].ws = w
    BY <1>1, <1>2, <2>1, IdentityAssumption DEF BelongsTo, Item
  <2> QED
    BY <1>1, <2>1, <2>2, IdentityAssumption DEF Rows, MembersOf
<1>6. CASE c.type \notin {"workspace_created", "member_joined", "join_code_created",
                          "blip_published"}
  <2>1. Unannounced = {}
    BY <1>6 DEF Unannounced
  <2> QED
    BY <1>1, <2>1
<1> QED
  BY <1>3, <1>4, <1>5, <1>6

\* The event of a request makes the whole of its change visible at once.
LEMMA FeedAnnounces ==
  ASSUME CloudInv, RequestTyped, FeedExact, InsertEvent, crashes = 0
  PROVE  Feed!Announce(request.ws, request.change)
<1> SUFFICES ASSUME NEW w, w = request.ws, NEW c, c = request.change
             PROVE  Feed!Announce(w, c)
  OBVIOUS
<1>1. /\ w \in Workspace /\ c \in Change /\ lastSequence[w] = Len(events[w]) + 1
      /\ events' = [events EXCEPT ![w] = Append(@, c)]
  BY EventAppended
<1>2. /\ pc = "announce" /\ pc' = "idle"
      /\ UNCHANGED <<memberOf, codes, blips>>
  BY DEF InsertEvent
<1>3. Unannounced = Feed!Made(c) /\ Unannounced' = {}
  BY <1>2, HeldBack DEF Unannounced
<1>4. \A v : Rows(v)' = Rows(v)
  BY <1>2 DEF Rows, MembersOf
<1>5. /\ Feed!Made(c) \subseteq Rows(w)
      /\ \A v \in Workspace \ {w} : Feed!Made(c) \cap Rows(v) = {}
  BY <1>2, <1>3, HeldBackHere
<1>6. Feed!Made(c) \cap items[w] = {}
  BY <1>1, <1>3 DEF items
<1>7. items' = [items EXCEPT ![w] = @ \cup Feed!Made(c)]
  <2>1. items' = [v \in Workspace |-> Rows(v)]
    BY <1>3, <1>4 DEF items
  <2>2. items[w] \cup Feed!Made(c) = Rows(w)
    BY <1>1, <1>3, <1>5 DEF items
  <2>3. \A v \in Workspace \ {w} : items[v] = Rows(v)
    BY <1>3, <1>5 DEF items
  <2>4. DOMAIN items = Workspace
    BY DEF items
  <2>5. [items EXCEPT ![w] = @ \cup Feed!Made(c)] = [v \in Workspace |-> Rows(v)]
    <3> HIDE DEF items
    <3> QED
      BY <1>1, <2>2, <2>3, <2>4
  <2> QED
    BY <2>1, <2>5
<1>8. numbers' = IF c.type = "blip_published"
                 THEN numbers \cup {<<c.target, Len(events[w]) + 1>>} ELSE numbers
  <2>1. numbers' = {<<b, blips[b].sequence>> : b \in {d \in HostedBlip : blips[d] # NoBlip}}
    BY <1>2, <1>3 DEF numbers
  <2>2. CASE c.type = "blip_published"
    <3>1. c.target \in HostedBlip /\ Unannounced = {c.target}
      BY <1>2, <2>2 DEF RequestTyped, Unannounced
    <3>2. blips[c.target] # NoBlip
      <4>1. Proper(w, c)
        BY <1>2 DEF CloudInv, RequestInv
      <4> QED
        BY <1>1, <3>1, <4>1, BlipTarget
    <3>3. blips[c.target].sequence = Len(events[w]) + 1
      <4>1. Taken(w) = 1
        BY <1>2 DEF Taken
      <4>2. blips[c.target].sequence = lastSequence[w] + 1 - 1
        BY <1>2, <2>2, <4>1 DEF FeedExact
      <4>3. Len(events[w]) \in Nat
        BY <1>1 DEF FeedExact
      <4> QED
        BY <1>1, <4>2, <4>3
    <3> QED
      BY <2>1, <2>2, <3>1, <3>2, <3>3 DEF numbers
  <2>3. CASE c.type # "blip_published"
    <3>1. \A b \in HostedBlip : b \notin Unannounced
      <4>1. c.actor \in Member /\ (c.type = "join_code_created" => c.target \in Code)
        BY <1>1, <1>2 DEF RequestTyped, Change
      <4> QED
        BY <1>2, <2>3, <4>1, IdentityAssumption DEF Unannounced
    <3> QED
      BY <2>1, <2>3, <3>1 DEF numbers
  <2> QED
    BY <2>2, <2>3
<1> QED
  BY <1>1, <1>6, <1>7, <1>8 DEF Feed!Announce

\* A step shows nothing of itself when the rows that are not held back stay.
LEMMA FeedSame ==
  ASSUME events' = events,
         \A w \in Workspace : (Rows(w) \ Unannounced)' = Rows(w) \ Unannounced,
         \A b \in HostedBlip :
           /\ (blips[b] # NoBlip /\ b \notin Unannounced)'
                <=> (blips[b] # NoBlip /\ b \notin Unannounced)
           /\ blips[b] # NoBlip /\ b \notin Unannounced => blips'[b].sequence = blips[b].sequence
  PROVE  UNCHANGED Feed!vars
<1>1. items' = items
  BY DEF items
<1>2. numbers' = numbers
  BY DEF numbers
<1> QED
  BY <1>1, <1>2 DEF Feed!vars

\* The rows stay as they are, and so does what is held back.
LEMMA FeedRest ==
  ASSUME UNCHANGED <<events, memberOf, codes, blips>>, Unannounced' = Unannounced
  PROVE  UNCHANGED Feed!vars
<1>1. \A w \in Workspace : Rows(w)' = Rows(w)
  BY DEF Rows, MembersOf
<1> QED
  BY <1>1, FeedSame

\* A first statement adds at most a row that its request holds back.
LEMMA FeedBegin ==
  ASSUME NEW w, NEW type, NEW m, NEW target, NEW tags, NEW next,
         next # "idle", Begin(w, type, m, target, tags, next)
  PROVE  /\ Unannounced = {}
         /\ type \in {"workspace_created", "member_joined"} => Unannounced' = {m}
         /\ type \in {"join_code_created", "blip_published"} => Unannounced' = {target}
         /\ type \in {"blip_tags_updated", "blip_accessed"} => Unannounced' = {}
<1>1. /\ pc = "idle" /\ pc' # "idle"
      /\ request'.change.type = type /\ request'.change.target = target
      /\ request'.change.actor = m
  BY DEF Begin
<1> QED
  BY <1>1 DEF Unannounced

LEMMA FeedFollows ==
  ASSUME CloudInv, RequestTyped, FeedExact, Next
  PROVE  (crashes' = 0 => Feed!Next) \/ UNCHANGED Feed!vars
<1>0. RowsKept
  BY RowsStep
<1>1. ASSUME NEW w \in Workspace, NEW m \in Member, CreateWorkspace(w, m)
      PROVE  UNCHANGED Feed!vars
  <2>1. Unannounced = {} /\ Unannounced' = {m}
    BY <1>1, FeedBegin DEF CreateWorkspace
  <2>2. UNCHANGED <<events, memberOf, codes, blips>> /\ memberOf[m] = NoWorkspace
    BY <1>1 DEF CreateWorkspace
  <2>3. \A v \in Workspace : Rows(v)' = Rows(v) /\ m \notin Rows(v)
    BY <2>2, NullAssumption, IdentityAssumption DEF Rows, MembersOf
  <2>4. m \notin HostedBlip
    BY IdentityAssumption
  <2> QED
    BY <2>1, <2>2, <2>3, <2>4, FeedSame
<1>2. ASSUME NEW m \in Member, NEW k \in Code, NEW r \in Role, NEW uses \in 1..MaxUses,
             CreateJoinCode(m, k, r, uses)
      PROVE  UNCHANGED Feed!vars
  <2>1. Unannounced = {} /\ Unannounced' = {k}
    BY <1>2, FeedBegin DEF CreateJoinCode
  <2>2. /\ UNCHANGED <<events, memberOf, blips>> /\ codes[k] = NoCode
        /\ \A j \in Code \ {k} : codes'[j] = codes[j]
    BY <1>2 DEF CreateJoinCode, CloudInv, TypeOK
  <2>3. ASSUME NEW v \in Workspace PROVE Rows(v)' \ {k} = Rows(v)
    BY <2>2, IdentityAssumption DEF Rows, MembersOf
  <2>4. k \notin HostedBlip
    BY IdentityAssumption
  <2> QED
    BY <2>1, <2>2, <2>3, <2>4, FeedSame
<1>3. ASSUME NEW k \in Code, NEW m \in Member, JoinWorkspace(k, m) PROVE UNCHANGED Feed!vars
  <2>1. Unannounced = {} /\ Unannounced' = {m}
    BY <1>3, FeedBegin DEF JoinWorkspace
  <2>2. /\ UNCHANGED <<events, memberOf, blips>> /\ memberOf[m] = NoWorkspace
        /\ codes[k] # NoCode /\ \A j \in Code \ {k} : codes'[j] = codes[j]
    BY <1>3 DEF JoinWorkspace, Redeemable, CloudInv, TypeOK
  <2>3. codes'[k] # NoCode /\ codes'[k].ws = codes[k].ws
    BY <1>0, <2>2 DEF RowsKept
  <2>4. ASSUME NEW v \in Workspace PROVE Rows(v)' = Rows(v) /\ m \notin Rows(v)
    <3>1. \A j \in Code : (codes'[j] # NoCode /\ codes'[j].ws = v)
                            <=> (codes[j] # NoCode /\ codes[j].ws = v)
      BY <2>2, <2>3
    <3> QED
      BY <2>2, <3>1, NullAssumption, IdentityAssumption DEF Rows, MembersOf
  <2>5. m \notin HostedBlip
    BY IdentityAssumption
  <2> QED
    BY <2>1, <2>2, <2>4, <2>5, FeedSame
<1>4. ASSUME NEW m \in Member, NEW b \in HostedBlip, NEW t \in Tags, PublishBlip(m, b, t)
      PROVE  UNCHANGED Feed!vars
  <2>1. Unannounced = {} /\ Unannounced' = {b}
    BY <1>4, FeedBegin DEF PublishBlip
  <2>2. /\ UNCHANGED <<events, memberOf, codes>> /\ blips[b] = NoBlip
        /\ \A d \in HostedBlip \ {b} : blips'[d] = blips[d]
    BY <1>4 DEF PublishBlip, CloudInv, TypeOK
  <2>3. ASSUME NEW v \in Workspace PROVE Rows(v)' \ {b} = Rows(v)
    BY <2>2, IdentityAssumption DEF Rows, MembersOf
  <2> QED
    BY <2>1, <2>2, <2>3, FeedSame
<1>5. ASSUME NEW m \in Member, NEW b \in HostedBlip, NEW t \in Tags, UpdateBlipTags(m, b, t)
      PROVE  UNCHANGED Feed!vars
  <2>1. Unannounced = {} /\ Unannounced' = {}
    BY <1>5, FeedBegin DEF UpdateBlipTags
  <2>2. /\ UNCHANGED <<events, memberOf, codes>> /\ blips[b] # NoBlip
        /\ \A d \in HostedBlip \ {b} : blips'[d] = blips[d]
        /\ blips'[b].sequence = blips[b].sequence
    BY <1>5 DEF UpdateBlipTags, CloudInv, TypeOK
  <2>3. blips'[b] # NoBlip /\ blips'[b].ws = blips[b].ws
    BY <1>0, <2>2 DEF RowsKept
  <2>4. ASSUME NEW v \in Workspace PROVE Rows(v)' = Rows(v)
    <3>1. \A d \in HostedBlip : (blips'[d] # NoBlip /\ blips'[d].ws = v)
                                  <=> (blips[d] # NoBlip /\ blips[d].ws = v)
      BY <2>2, <2>3
    <3> QED
      BY <2>2, <3>1 DEF Rows, MembersOf
  <2> QED
    BY <2>1, <2>2, <2>3, <2>4, FeedSame
<1>6. ASSUME NEW m \in Member, NEW b \in HostedBlip, RecordAccess(m, b)
      PROVE  UNCHANGED Feed!vars
  BY <1>6, FeedBegin, FeedRest DEF RecordAccess
<1>7. CASE InsertMember
  <2> SUFFICES ASSUME NEW m, m = request.change.actor, NEW w, w = request.ws
               PROVE  UNCHANGED Feed!vars
    OBVIOUS
  <2>1. /\ m \in Member /\ w \in Workspace
        /\ request.change.type \in {"workspace_created", "member_joined"}
    BY <1>7 DEF InsertMember, CloudInv, RequestInv, Change
  <2>2. Unannounced = {m} /\ Unannounced' = {m}
    BY <1>7, <2>1 DEF InsertMember, Unannounced
  <2>3. /\ UNCHANGED <<events, codes, blips>>
        /\ \A n \in Member \ {m} : memberOf'[n] = memberOf[n]
    BY <1>7, <2>1 DEF InsertMember, CloudInv, TypeOK
  <2>4. ASSUME NEW v \in Workspace PROVE Rows(v)' \ {m} = Rows(v) \ {m}
    BY <2>3 DEF Rows, MembersOf
  <2> QED
    BY <2>2, <2>3, <2>4, FeedSame
<1>8. CASE InsertSession \/ TakeNumber
  BY <1>8, FeedRest DEF InsertSession, TakeNumber, Unannounced
<1>9. CASE InsertEvent
  <2>1. crashes' = 0 => request.ws \in Workspace /\ request.change \in Change
                        /\ Feed!Announce(request.ws, request.change)
    BY <1>9, FeedAnnounces, EventAppended DEF InsertEvent
  <2> QED
    BY <2>1 DEF Feed!Next
<1>10. CASE Aside \/ Tick
  BY <1>10, FeedRest, AsideKeeps DEF Tick, vars, tables, Unannounced
<1>11. CASE CutShort
  BY <1>11 DEF CutShort, CloudInv, TypeOK
<1> QED
  BY <1>1, <1>2, <1>3, <1>4, <1>5, <1>6, <1>7, <1>8, <1>9, <1>10, <1>11, Steps

\* As long as no request is cut short, the four tables and the statements that
\* write them one by one cannot be told from one feed to which a change and its
\* announcement are added in one step, each blip numbered by its place.
THEOREM FeedRefined == Spec => FeedSpec
<1>1. Init => RequestTyped /\ FeedExact /\ Feed!Init
  <2> SUFFICES ASSUME Init PROVE RequestTyped /\ FeedExact /\ Feed!Init
    OBVIOUS
  <2>1. RequestTyped /\ FeedExact
    BY DEF Init, RequestTyped, FeedExact, FeedLength
  <2>2. \A w \in Workspace : Rows(w) = {}
    BY NullAssumption DEF Init, Rows, MembersOf
  <2>3. items = [w \in Workspace |-> {}] /\ numbers = {}
    BY <2>2 DEF Init, items, numbers
  <2> QED
    BY <2>1, <2>3 DEF Init, Feed!Init
<1>2. CloudInv /\ RequestTyped /\ FeedExact /\ [Next]_vars => (RequestTyped /\ FeedExact)'
  <2>1. ASSUME RequestTyped, FeedExact, UNCHANGED vars PROVE (RequestTyped /\ FeedExact)'
    BY <2>1 DEF RequestTyped, FeedExact, FeedLength, Taken, vars, tables
  <2> QED
    BY <2>1, RequestTypedStep, FeedExactStep
<1>3. CloudInv /\ RequestTyped /\ FeedExact /\ [Next]_vars
        => [crashes' = 0 => Feed!Next]_(Feed!vars)
  <2>1. ASSUME UNCHANGED vars PROVE UNCHANGED Feed!vars
    BY <2>1, FeedRest DEF vars, tables, Unannounced
  <2> QED
    BY <2>1, FeedFollows
<1> QED
  BY <1>1, <1>2, <1>3, CloudInvariant, PTL DEF Spec, FeedSpec
=============================================================================
