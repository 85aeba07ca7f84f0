----------------------------- MODULE PayloadProofs -----------------------------
(***************************************************************************)
(* Proofs about payload access, for every set of workspaces, payloads and   *)
(* files, every number of requests and every interference.                  *)
(***************************************************************************)
EXTENDS PayloadProperties, FiniteSetTheorems, WellFoundedInduction, SequenceTheorems, TLAPS

\* What a step of the request itself, and one of the surroundings, leaves alone.
LEMMA ServeKeeps ==
  ASSUME Serve
  PROVE  UNCHANGED <<payload, place, agentAccess, policy, file, request, moments, mark,
                     requests, changes>>
  BY DEF Serve, GetPayload, GetBlip, CheckVisibility, CheckAgentAccess, CheckGrant, Stat, Read,
         Record, FailLookup, FailCheck, Serving, shared, history

LEMMA OthersKeep ==
  ASSUME Others
  PROVE  /\ UNCHANGED <<payload, audit, pc, request, outcome, ws, mark, requests>>
         /\ changes' = changes + 1
         /\ moments' = IF pc = "idle" THEN moments ELSE moments \cup {Moment'}
  BY DEF Others, MoveBlip, DeleteBlip, SetAgentAccess, SetWorkspacePolicy, SpoilFile, Meanwhile

LEMMA Steps ==
  ASSUME Next
  PROVE  (\E r \in Request : Ask(r)) \/ Serve \/ Finish \/ Crash \/ Others
  BY DEF Next

LEMMA PayloadInit == Init => PayloadInv
<1> SUFFICES ASSUME Init PROVE PayloadInv
  OBVIOUS
<1> USE DEF Init
<1>1. file \in [Ref -> FileState]
  BY DEF StoredFiles, FileState
<1>2. policy \in [Workspace -> Policy]
  BY DEF DefaultPolicy, Policy, Visibility
<1>3. request \in Request
  BY DEF Request, Requester
<1>4. TypeOK
  BY <1>1, <1>2, <1>3 DEF TypeOK, Moment, Moments, Outcome
<1>5. Progress /\ Bookkeeping
  BY DEF Progress, Located, Passed, Bookkeeping, Check, Access
<1> QED
  BY <1>4, <1>5 DEF PayloadInv

\* Whichever way a row got into the table, it is a row.
LEMMA StoredRow == \A p \in Payloads : p \in PayloadRow
  BY PayloadAssumption DEF TextRows, BlobRows, MetadataRows

-----------------------------------------------------------------------------
(* Types *)

LEMMA RowType ==
  ASSUME TypeOK, ws \in Workspace
  PROVE  [event |-> AccessEvent(request), actor |-> request.requester, ws |-> ws,
          decision |-> Decision(outcome)] \in AuditRow
<1>1. AccessEvent(request) \in {"payload_preview_read", "payload_raw_exported", "agent_payload_read"}
  BY DEF TypeOK, Request, AccessEvent
<1>2. Decision(outcome) \in Decisions
  BY DEF Decision, Decisions
<1> QED
  BY <1>1, <1>2 DEF TypeOK, Request, AuditRow

LEMMA ServeTypes == ASSUME PayloadInv, Serve PROVE TypeOK'
<1>1. /\ audit' \in Seq(AuditRow)
      /\ pc' \in {"idle", "answered"} \cup Lookup \cup Check \cup Access
      /\ outcome' \in Outcome
      /\ ws' \in Workspace \cup {NoWorkspace}
  <2> USE DEF PayloadInv, TypeOK, At, Goto, Answer, Conclude, Lookup, Check, Access, Outcome
  <2>1. CASE GetPayload
    BY <2>1 DEF GetPayload
  <2>2. CASE GetBlip
    BY <2>2 DEF GetBlip, Moment, Moments
  <2>3. CASE CheckVisibility
    BY <2>3 DEF CheckVisibility
  <2>4. CASE CheckAgentAccess
    BY <2>4 DEF CheckAgentAccess
  <2>5. CASE CheckGrant
    BY <2>5 DEF CheckGrant
  <2>6. CASE Stat
    BY <2>6 DEF Stat
  <2>7. CASE Read
    BY <2>7 DEF Read
  <2>8. CASE Record
    <3>1. ws \in Workspace
      BY <2>8 DEF Record, Progress, Located
    <3> QED
      BY <2>8, <3>1, RowType DEF Record
  <2>9. CASE FailLookup
    BY <2>9 DEF FailLookup
  <2>10. CASE FailCheck
    BY <2>10 DEF FailCheck
  <2> QED
    BY <2>1, <2>2, <2>3, <2>4, <2>5, <2>6, <2>7, <2>8, <2>9, <2>10 DEF Serve
<1> QED
  BY <1>1, ServeKeeps DEF PayloadInv, TypeOK, Moment

LEMMA OthersTypes == ASSUME TypeOK, Others PROVE TypeOK'
<1>1. Moment' \in Moments
  <2> USE DEF TypeOK, Moment, Moments
  <2>1. ASSUME NEW w \in Workspace, MoveBlip(w) PROVE Moment' \in Moments
    BY <2>1 DEF MoveBlip
  <2>2. ASSUME NEW w \in Workspace, NEW enabled \in BOOLEAN, SetAgentAccess(w, enabled)
        PROVE  Moment' \in Moments
    BY <2>2 DEF SetAgentAccess
  <2>3. ASSUME NEW w \in Workspace, NEW p \in Policy, SetWorkspacePolicy(w, p)
        PROVE  Moment' \in Moments
    BY <2>3 DEF SetWorkspacePolicy
  <2>4. CASE DeleteBlip
    BY <2>4 DEF DeleteBlip
  <2>5. ASSUME NEW r \in Ref, NEW state \in {"absent", "damaged"}, SpoilFile(r, state)
        PROVE  Moment' \in Moments
    BY <2>5 DEF SpoilFile, FileState
  <2> QED
    BY <2>1, <2>2, <2>3, <2>4, <2>5 DEF Others
<1> QED
  BY <1>1, OthersKeep DEF TypeOK

LEMMA TypeStep == ASSUME PayloadInv, [Next]_vars PROVE TypeOK'
<1>1. CASE UNCHANGED vars
  BY <1>1 DEF PayloadInv, TypeOK, vars, shared, history, Moment
<1>2. ASSUME NEW r \in Request, Ask(r) PROVE TypeOK'
  BY <1>2 DEF PayloadInv, TypeOK, Ask, Goto, Lookup, shared, Moment
<1>3. CASE Serve
  BY <1>3, ServeTypes
<1>4. CASE Finish
  BY <1>4 DEF PayloadInv, TypeOK, Finish, shared, Moment, Outcome
<1>5. CASE Crash
  BY <1>5 DEF PayloadInv, TypeOK, Crash, shared, Moment, Outcome
<1>6. CASE Others
  BY <1>6, OthersTypes DEF PayloadInv
<1> QED
  BY <1>1, <1>2, <1>3, <1>4, <1>5, <1>6, Steps

-----------------------------------------------------------------------------
(* What each step knows *)

\* A fact about some moment of the request lasts as long as the request.
LEMMA MomentsLast ==
  ASSUME moments \subseteq moments', UNCHANGED <<request, ws>>
  PROVE  /\ WasIn(ws) => WasIn(ws)'
         /\ SeenAsAllowed => SeenAsAllowed'
         /\ WasOpen(ws) => WasOpen(ws)'
         /\ WasGranted(ws) => WasGranted(ws)'
  BY DEF WasIn, SeenAsAllowed, Shown, WasVisible, WasOpen, WasGranted

\* What a step reads is what one moment of the request held.
LEMMA NowIsAMoment ==
  ASSUME Progress, pc # "idle", NEW w
  PROVE  /\ place = w => WasIn(w)
         /\ \A enough : policy[w].visibility \in enough => WasVisible(w, enough)
         /\ agentAccess[w] => WasOpen(w)
         /\ policy[w].raw => WasGranted(w)
  BY DEF Progress, Moment, WasIn, WasVisible, WasOpen, WasGranted

LEMMA ServeProgress == ASSUME PayloadInv, Serve PROVE Progress'
<1> USE DEF PayloadInv
<1>1. /\ moments' = moments /\ Moment' = Moment
      /\ UNCHANGED <<request, place, policy, agentAccess>>
  BY ServeKeeps DEF Moment
<1>2. pc # "idle" /\ Moment' \in moments'
  BY <1>1 DEF Serve, Progress, GetPayload, GetBlip, CheckVisibility, CheckAgentAccess, CheckGrant,
      Stat, Read, Record, FailLookup, FailCheck, At, Lookup, Check, Access
<1>3. ws' = ws =>
        /\ WasIn(ws) => WasIn(ws)'
        /\ SeenAsAllowed => SeenAsAllowed'
        /\ WasOpen(ws) => WasOpen(ws)'
        /\ WasGranted(ws) => WasGranted(ws)'
  BY <1>1, MomentsLast
<1>0. Exports' = Exports /\ Shown' = Shown
  BY <1>1 DEF Exports, Shown
<1> USE <1>0, <1>1, <1>2, <1>3 DEF At, Goto, Answer, Conclude, Located, Passed, Lookup, Check, Access
<1>4. CASE GetPayload
  BY <1>4 DEF GetPayload, Progress, Bookkeeping
<1>5. CASE GetBlip
  <2>1. CASE place = NoWorkspace
    BY <1>5, <2>1 DEF GetBlip, Progress, Bookkeeping
  <2>2. CASE place # NoWorkspace
    <3>1. ws' \in Workspace /\ WasIn(ws')
      BY <1>5, <2>2, NowIsAMoment DEF GetBlip, TypeOK, Moment, Moments
    <3>2. /\ outcome' = "none"
          /\ pc' = IF request.requester = "agent" THEN "agent" ELSE "visibility"
      BY <1>5, <2>2 DEF GetBlip, Bookkeeping
    <3>3. WasIn(ws)'
      BY <3>1 DEF WasIn
    <3> QED
      BY <3>1, <3>2, <3>3 DEF Progress, Shown, Exports, SeenAsAllowed
  <2> QED
    BY <2>1, <2>2
<1>6. CASE CheckVisibility
  <2>1. policy[ws].visibility \in {"hidden", "metadata", "safe_preview"}
    BY <1>6 DEF CheckVisibility, Progress, TypeOK, Moment, Moments, Policy, Visibility
  <2>2. pc' # "record" => SeenAsAllowed
    BY <1>6, <2>1, NowIsAMoment DEF CheckVisibility, SeenAsAllowed, TypeOK, Request
  <2>3. pc' = "stat" => request.access = "preview" /\ Shown
    BY <1>6 DEF CheckVisibility, Progress
  <2>4. pc' = "agent" => request.access = "raw"
    BY <1>6 DEF CheckVisibility, TypeOK, Request
  <2> QED
    BY <1>6, <2>2, <2>3, <2>4 DEF CheckVisibility, Progress, Exports, Shown
<1>7. CASE CheckAgentAccess
  BY <1>7, NowIsAMoment DEF CheckAgentAccess, Progress, Exports
<1>8. CASE CheckGrant
  BY <1>8, NowIsAMoment DEF CheckGrant, Progress, Exports
<1>9. CASE Stat
  BY <1>9 DEF Stat, Progress, Exports
<1>10. CASE Read
  BY <1>10 DEF Read, Progress, Exports
<1>11. CASE Record
  BY <1>11 DEF Record, Progress, Exports
<1>12. CASE FailLookup
  BY <1>12 DEF FailLookup, Progress, Exports
<1>13. CASE FailCheck
  BY <1>13 DEF FailCheck, Progress, Exports
<1> QED
  BY <1>4, <1>5, <1>6, <1>7, <1>8, <1>9, <1>10, <1>11, <1>12, <1>13 DEF Serve

LEMMA ProgressStep == ASSUME PayloadInv, [Next]_vars PROVE Progress'
<1> USE DEF PayloadInv
<1>1. CASE UNCHANGED vars
  BY <1>1 DEF Progress, vars, shared, history, Moment, WasIn, WasVisible, WasOpen, WasGranted,
      Located, Passed, Shown, Exports, SeenAsAllowed
<1>2. ASSUME NEW r \in Request, Ask(r) PROVE Progress'
  <2>1. pc' = "payload" /\ Moment' \in moments'
    BY <1>2 DEF Ask, Goto, shared, Moment
  <2> QED
    BY <2>1 DEF Progress, Located, Passed, Check, Access
<1>3. CASE Serve
  BY <1>3, ServeProgress
<1>4. CASE Finish \/ Crash
  BY <1>4 DEF Finish, Crash, Progress, Located, Passed, Check, Access
<1>5. CASE Others
  <2>1. /\ UNCHANGED <<pc, request, outcome, ws>> /\ moments \subseteq moments'
        /\ pc # "idle" => Moment' \in moments'
    BY <1>5, OthersKeep
  <2>2. /\ Located' = Located /\ Passed' = Passed /\ Shown' = Shown /\ Exports' = Exports
    BY <2>1 DEF Located, Passed, Shown, Exports
  <2>3. /\ WasIn(ws) => WasIn(ws)'
        /\ SeenAsAllowed => SeenAsAllowed'
        /\ WasOpen(ws) => WasOpen(ws)'
        /\ WasGranted(ws) => WasGranted(ws)'
    BY <2>1, MomentsLast
  <2> QED
    BY <2>1, <2>2, <2>3 DEF Progress
<1> QED
  BY <1>1, <1>2, <1>3, <1>4, <1>5, Steps

-----------------------------------------------------------------------------
(* What is recorded *)

LEMMA ServeBookkeeping == ASSUME PayloadInv, Serve PROVE Bookkeeping'
<1> USE DEF PayloadInv
<1>1. moments' = moments /\ request' = request /\ mark' = mark
  BY ServeKeeps
<1>2. AccessEvent(request)' = AccessEvent(request)
  BY <1>1 DEF AccessEvent
<1>3. mark \in Nat /\ Len(audit) \in Nat
  BY DEF TypeOK
<1> USE <1>1, <1>3 DEF At, Goto, Answer, Conclude, Recorded, Lookup, Check, Access
<1>4. CASE GetPayload
  BY <1>4 DEF GetPayload, Bookkeeping
<1>5. CASE GetBlip
  BY <1>5 DEF GetBlip, Bookkeeping
<1>6. CASE CheckVisibility
  BY <1>6 DEF CheckVisibility, Bookkeeping
<1>7. CASE CheckAgentAccess
  BY <1>7 DEF CheckAgentAccess, Bookkeeping
<1>8. CASE CheckGrant
  BY <1>8 DEF CheckGrant, Bookkeeping
<1>9. CASE Stat
  BY <1>9 DEF Stat, Bookkeeping
<1>10. CASE Read
  BY <1>10 DEF Read, Bookkeeping
<1>11. CASE Record
  <2>1. ws \in Workspace /\ WasIn(ws) /\ mark = Len(audit)
    BY <1>11 DEF Record, Progress, Located, Bookkeeping
  <2>2. CASE place = NoWorkspace
    BY <1>11, <2>1, <2>2 DEF Record, Bookkeeping
  <2>3. CASE place # NoWorkspace
    <3> DEFINE row == [event |-> AccessEvent(request), actor |-> request.requester, ws |-> ws,
                       decision |-> Decision(outcome)]
    <3>1. /\ audit' = Append(audit, row) /\ outcome' = outcome /\ ws' = ws
          /\ pc' = "answered" /\ outcome \in Recorded \cup {"store_unavailable"}
      BY <1>11, <2>3 DEF Record, Bookkeeping
    <3>2. row \in AuditRow
      BY <2>1, RowType
    <3> HIDE DEF row
    <3>3. Len(audit') = mark + 1 /\ audit'[mark + 1] = row
      BY <2>1, <3>1, <3>2 DEF TypeOK
    <3>4. row = [event |-> AccessEvent(request), actor |-> request.requester, ws |-> ws,
                 decision |-> Decision(outcome)]'
      BY <3>1, <1>2 DEF row, Decision
    <3>5. WasIn(ws)'
      BY <2>1, <3>1 DEF WasIn
    <3>6. outcome = "store_unavailable" => row.decision = "denied"
      BY DEF row, Decision
    <3> QED
      BY <2>1, <3>1, <3>3, <3>4, <3>5, <3>6 DEF Bookkeeping
  <2> QED
    BY <2>2, <2>3
<1>12. CASE FailLookup
  BY <1>12 DEF FailLookup, Bookkeeping
<1>13. CASE FailCheck
  BY <1>13 DEF FailCheck, Bookkeeping
<1> QED
  BY <1>4, <1>5, <1>6, <1>7, <1>8, <1>9, <1>10, <1>11, <1>12, <1>13 DEF Serve

LEMMA BookkeepingStep == ASSUME PayloadInv, [Next]_vars PROVE Bookkeeping'
<1> USE DEF PayloadInv
<1>1. CASE UNCHANGED vars
  BY <1>1 DEF Bookkeeping, vars, shared, history, WasIn, AccessEvent, Decision
<1>2. ASSUME NEW r \in Request, Ask(r) PROVE Bookkeeping'
  BY <1>2 DEF Ask, At, Goto, Bookkeeping, TypeOK, Check, Access
<1>3. CASE Serve
  BY <1>3, ServeBookkeeping
<1>4. CASE Finish \/ Crash
  BY <1>4 DEF Finish, Crash, Bookkeeping, TypeOK, Check, Access
<1>5. CASE Others
  <2>1. /\ UNCHANGED <<pc, request, outcome, ws, audit, mark>> /\ moments \subseteq moments'
    BY <1>5, OthersKeep
  <2>2. WasIn(ws) => WasIn(ws)'
    BY <2>1 DEF WasIn
  <2>3. /\ AccessEvent(request)' = AccessEvent(request)
        /\ Decision(outcome)' = Decision(outcome)
    BY <2>1 DEF AccessEvent, Decision
  <2> QED
    BY <2>1, <2>2, <2>3 DEF Bookkeeping
<1> QED
  BY <1>1, <1>2, <1>3, <1>4, <1>5, Steps

-----------------------------------------------------------------------------
(* The theorems *)

\* The inductive invariant: what payload_bytes_response knows between its steps.
THEOREM PayloadInvariant == Spec => []PayloadInv
<1>1. PayloadInv /\ [Next]_vars => PayloadInv'
  BY TypeStep, ProgressStep, BookkeepingStep DEF PayloadInv
<1> QED
  BY PayloadInit, <1>1, PTL DEF Spec

\* Every answer is recorded as the documentation of the daemon API says.
THEOREM AnswersRecorded == Spec => []AuditMatchesAnswer
<1>1. PayloadInv => AuditMatchesAnswer
  <2> SUFFICES ASSUME PayloadInv, pc = "answered" PROVE AuditMatchesAnswer
    BY DEF AuditMatchesAnswer
  <2> USE DEF PayloadInv
  <2>1. /\ mark \in Nat /\ Len(audit) \in Nat /\ mark <= Len(audit)
        /\ audit \in Seq(AuditRow)
    BY DEF TypeOK, Bookkeeping
  <2>2. Len(audit) = mark => Written = << >>
    BY <2>1 DEF Written
  <2>3. Len(audit) = mark + 1 => Len(Written) = 1 /\ Written[1] = audit[mark + 1]
    BY <2>1 DEF Written
  <2>4. CASE outcome \in Recorded
    <3>1. /\ Len(audit) = mark + 1 /\ WasIn(ws)
          /\ audit[mark + 1] = [event |-> AccessEvent(request), actor |-> request.requester,
                                ws |-> ws, decision |-> Decision(outcome)]
      BY <2>4 DEF Bookkeeping, Recorded
    <3>2. /\ Decision(outcome) = "allowed" <=> outcome = "bytes"
          /\ Decision(outcome) = "missing_blob" <=> outcome = "missing_blob"
      BY DEF Decision
    <3>3. /\ Written[1].decision = Decision(outcome)
          /\ Written[1].actor = request.requester
          /\ Written[1].ws = ws
      BY <2>3, <3>1
    <3>4. Len(Written) = 1 /\ \E m \in moments : m.place = Written[1].ws
      BY <2>3, <3>1, <3>3 DEF WasIn
    <3> QED
      BY <2>4, <3>2, <3>3, <3>4 DEF AuditMatchesAnswer, Recorded
  <2>5. CASE outcome = "store_unavailable"
    <3>1. /\ Len(audit) \in {mark, mark + 1}
          /\ Len(audit) = mark + 1 => audit[mark + 1].decision = "denied"
      BY <2>5 DEF Bookkeeping
    <3>2. \A i \in DOMAIN Written : Written[i].decision = "denied"
      BY <2>1, <2>2, <2>3, <3>1
    <3> QED
      BY <2>5, <3>2 DEF AuditMatchesAnswer, Recorded
  <2>6. CASE outcome \notin Recorded \cup {"store_unavailable"}
    BY <2>6, <2>2 DEF AuditMatchesAnswer, Bookkeeping
  <2> QED
    BY <2>4, <2>5, <2>6
<1> QED
  BY PayloadInvariant, <1>1, PTL

\* Bytes only leave the daemon by permissions that held during the request.
THEOREM BytesPermitted == Spec => []BytesJustified
<1>1. PayloadInv => BytesJustified
  BY DEF PayloadInv, Progress, Passed, BytesJustified, SeenAsAllowed, WasVisible, Visibility,
         TypeOK, Request
<1> QED
  BY PayloadInvariant, <1>1, PTL

-----------------------------------------------------------------------------
(* The two copies of the summary *)

Below == {p \in Nat \X Nat : p[1] < p[2]}

LEMMA LeastExists ==
  ASSUME NEW S \in SUBSET Nat, S # {}
  PROVE  \E x \in S : \A y \in S : x <= y
<1>1. IsWellFoundedOn(OpToRel(<, Nat), Nat)
  BY NatLessThanWellFounded
<1>2. OpToRel(<, Nat) = Below
  BY DEF OpToRel, Below
<1>3. IsWellFoundedOn(Below, Nat)
  BY <1>1, <1>2
<1>4. PICK x \in S : \A y \in S : ~ (<<y, x>> \in Below)
  BY <1>3, WFMin
<1>5. ASSUME NEW y \in S PROVE x <= y
  <2>1. x \in Nat /\ y \in Nat /\ ~ (<<y, x>> \in Below)
    BY <1>4
  <2>2. y < x => <<y, x>> \in Below
    BY <2>1 DEF Below
  <2> QED
    BY <2>1, <2>2
<1> QED
  BY <1>5

LEMMA MinIs ==
  ASSUME NEW S \in SUBSET Nat, S # {}
  PROVE  Min(S) \in S /\ \A y \in S : Min(S) <= y
  BY LeastExists DEF Min

LEMMA MaxIs ==
  ASSUME NEW n \in Nat, NEW S \in SUBSET (1..n), S # {}
  PROVE  Max(S) \in S /\ \A y \in S : y <= Max(S)
<1> DEFINE T == {n - i : i \in S}
<1>1. \A i \in S : n - i \in Nat
  OBVIOUS
<1>2. T \in SUBSET Nat /\ T # {}
  BY <1>1
<1>3. PICK t \in T : \A u \in T : t <= u
  BY <1>2, LeastExists
<1>4. PICK x \in S : t = n - x
  OBVIOUS
<1>5. ASSUME NEW y \in S PROVE x >= y
  <2>1. n - y \in T /\ x \in 1..n /\ y \in 1..n
    OBVIOUS
  <2>2. n - x <= n - y
    BY <2>1, <1>3, <1>4
  <2> QED
    BY <2>1, <2>2
<1>6. Max(S) \in S /\ \A y \in S : Max(S) >= y
  BY <1>5 DEF Max
<1> QED
  BY <1>6

LEMMA TakeIs ==
  ASSUME NEW s \in Seq(Char), NEW n \in Nat
  PROVE  /\ Take(s, n) \in Seq(Char)
         /\ Len(Take(s, n)) <= n /\ Len(Take(s, n)) <= Len(s)
         /\ Len(s) <= n => Take(s, n) = s
         /\ n <= Len(s) => Len(Take(s, n)) = n
         /\ \A i \in 1..Len(Take(s, n)) : Take(s, n)[i] = s[i]
<1>1. CASE Len(s) < n
  BY <1>1, SubSeqFull DEF Take
<1>2. CASE Len(s) >= n
  BY <1>2, SubSeqFull DEF Take
<1> QED
  BY <1>1, <1>2

LEMMA TakeTwice ==
  ASSUME NEW s \in Seq(Char), NEW n \in Nat
  PROVE  Take(Take(s, n), n) = Take(s, n)
  BY TakeIs

\* What is left of a text runs from its first to its last mark.
LEMMA TrimIs ==
  ASSUME NEW s \in Seq(Char)
  PROVE  /\ Trim(s) \in Seq(Char)
         /\ \/ (\A i \in 1..Len(s) : s[i] = Blank) /\ Trim(s) = << >>
            \/ \E lo, hi \in 1..Len(s) :
                 /\ lo <= hi /\ s[lo] # Blank /\ s[hi] # Blank
                 /\ \A i \in 1..Len(s) : s[i] # Blank => lo <= i /\ i <= hi
                 /\ Len(Trim(s)) = hi - lo + 1
                 /\ \A i \in 1..hi - lo + 1 : Trim(s)[i] = s[lo + i - 1]
<1> DEFINE marks == {i \in DOMAIN s : s[i] # Blank}
<1>1. CASE marks = {}
  BY <1>1 DEF Trim
<1>2. CASE marks # {}
  <2> DEFINE lo == Min(marks)
             hi == Max(marks)
  <2>1. marks \in SUBSET Nat /\ marks \in SUBSET (1..Len(s)) /\ Len(s) \in Nat
    OBVIOUS
  <2> HIDE DEF marks
  <2>2. lo \in marks /\ \A i \in marks : lo <= i
    BY <1>2, <2>1, MinIs
  <2>3. hi \in marks /\ \A i \in marks : i <= hi
    BY <1>2, <2>1, MaxIs
  <2>4. Trim(s) = SubSeq(s, lo, hi)
    BY <1>2 DEF Trim, marks
  <2> HIDE DEF lo, hi
  <2>5. lo \in 1..Len(s) /\ hi \in 1..Len(s) /\ lo <= hi
    BY <2>1, <2>2, <2>3
  <2>6. \A i \in lo..hi : s[i] \in Char
    BY <2>5
  <2>7. /\ SubSeq(s, lo, hi) \in Seq(Char) /\ Len(SubSeq(s, lo, hi)) = hi - lo + 1
        /\ \A i \in 1..hi - lo + 1 : SubSeq(s, lo, hi)[i] = s[lo + i - 1]
    BY <2>5, <2>6, SubSeqProperties
  <2>8. s[lo] # Blank /\ s[hi] # Blank
        /\ \A i \in 1..Len(s) : s[i] # Blank => lo <= i /\ i <= hi
    BY <2>2, <2>3 DEF marks
  <2> QED
    BY <2>4, <2>5, <2>7, <2>8
<1> QED
  BY <1>1, <1>2

LEMMA TruncateIs ==
  ASSUME NEW s \in Seq(Char)
  PROVE  /\ Truncate(s) \in Seq(Char)
         /\ Len(s) <= PreviewChars => Truncate(s) = s
         /\ \A k \in Nat : k <= Len(s) /\ k <= PreviewChars =>
              k <= Len(Truncate(s)) /\ \A i \in 1..k : Truncate(s)[i] = s[i]
<1> DEFINE n == PreviewChars
           c == Take(s, n)
<1>1. n \in Nat
  BY SummaryAssumption
<1>2. CASE Len(s) <= n
  BY <1>1, <1>2 DEF Truncate
<1>3. CASE Len(s) > n
  <2>0. n <= Len(s)
    BY <1>1, <1>3
  <2>1. c \in Seq(Char) /\ Len(c) = n /\ \A i \in 1..n : c[i] = s[i]
    BY <1>1, <2>0, TakeIs
  <2>2. Truncate(s) = Append(c, Dots)
    BY <1>3, Zenon DEF Truncate
  <2> HIDE DEF c
  <2>4. /\ Append(c, Dots) \in Seq(Char) /\ Len(Append(c, Dots)) = n + 1
        /\ \A i \in 1..n : Append(c, Dots)[i] = s[i]
    BY <1>1, <2>1, CharAssumption, AppendProperties
  <2> HIDE DEF n
  <2>5. ASSUME NEW k \in Nat, k <= Len(s), k <= n
        PROVE  k <= Len(Truncate(s)) /\ \A i \in 1..k : Truncate(s)[i] = s[i]
    BY <1>1, <2>2, <2>4, <2>5
  <2> QED
    BY <1>1, <1>3, <2>2, <2>4, <2>5 DEF n
<1> QED
  BY <1>1, <1>2, <1>3

\* The text of the list is a prefix of the text of the blip.
LEMMA TextIsPrefix ==
  ASSUME NEW s \in Seq(Char)
  PROVE  SamePrefix(Truncate(Trim(Take(s, PreviewChars))), Truncate(Trim(s)))
<1> DEFINE n == PreviewChars
           t == Take(s, n)
           a == Trim(t)
           b == Trim(s)
           d == Truncate(b)
<1>1. n \in Nat
  BY SummaryAssumption
<1>2. /\ t \in Seq(Char) /\ Len(t) <= n /\ Len(t) <= Len(s)
      /\ \A i \in 1..Len(t) : t[i] = s[i]
  BY <1>1, TakeIs
<1>3. a \in Seq(Char) /\ b \in Seq(Char)
  BY <1>2, TrimIs
<1>4. d \in Seq(Char)
  BY <1>3, TruncateIs
<1>5. SUFFICES /\ a \in Seq(Char) /\ Len(a) <= n /\ Len(a) <= Len(b)
               /\ \A i \in 1..Len(a) : a[i] = b[i]
  <2> HIDE DEF a, b, d, t
  <2>1. Truncate(a) = a
    BY <1>5, TruncateIs
  <2>2. Len(a) <= Len(d) /\ \A i \in 1..Len(a) : a[i] = d[i]
    BY <1>3, <1>5, TruncateIs DEF d
  <2>3. /\ SubSeq(d, 1, Len(a)) \in Seq(Char)
        /\ Len(SubSeq(d, 1, Len(a))) = Len(a)
        /\ \A i \in 1..Len(a) : SubSeq(d, 1, Len(a))[i] = d[i]
    BY <1>4, <1>5, <2>2
  <2>4. a = SubSeq(d, 1, Len(a))
    BY <1>5, <2>2, <2>3
  <2>5. SamePrefix(a, d)
    BY <1>4, <1>5, <2>2, <2>4, NullAssumption DEF SamePrefix
  <2> QED
    BY <2>1, <2>5 DEF a, b, d, t
<1> HIDE DEF t
<1>6. CASE a = << >>
  BY <1>1, <1>3, <1>6
<1>7. CASE a # << >>
  <2>1. PICK lo \in 1..Len(t), hi \in 1..Len(t) :
          /\ lo <= hi /\ t[lo] # Blank /\ t[hi] # Blank
          /\ \A i \in 1..Len(t) : t[i] # Blank => lo <= i /\ i <= hi
          /\ Len(a) = hi - lo + 1
          /\ \A i \in 1..hi - lo + 1 : a[i] = t[lo + i - 1]
    BY <1>2, <1>7, TrimIs
  <2>2. s[lo] # Blank /\ s[hi] # Blank /\ lo \in 1..Len(s) /\ hi \in 1..Len(s)
    BY <1>2, <2>1
  <2>3. PICK first \in 1..Len(s), last \in 1..Len(s) :
          /\ first <= last /\ s[first] # Blank
          /\ \A i \in 1..Len(s) : s[i] # Blank => first <= i /\ i <= last
          /\ Len(b) = last - first + 1
          /\ \A i \in 1..last - first + 1 : b[i] = s[first + i - 1]
    BY <2>2, TrimIs
  <2> HIDE DEF a, b
  <2>4. first = lo /\ hi <= last
    <3>1. first <= lo /\ hi <= last
      BY <2>2, <2>3
    <3>2. first \in 1..Len(t)
      BY <1>2, <3>1
    <3>3. t[first] # Blank
      BY <1>2, <2>3, <3>2
    <3> QED
      BY <2>1, <3>1, <3>2, <3>3
  <2> QED
    BY <1>1, <1>2, <1>3, <2>1, <2>3, <2>4
<1> QED
  BY <1>6, <1>7

\* The projection keeps all a summary is made of, except the length of its text.
LEMMA ProjectionKeeps ==
  ASSUME NEW p \in PayloadRow
  PROVE  /\ Projected(p).kind = p.kind /\ Projected(p).raw = p.raw
         /\ Projected(p).thumb = p.thumb
         /\ Projected(p).inline = NoText <=> p.inline = NoText
         /\ p.inline # NoText => Projected(p).inline = Take(p.inline, PreviewChars)
         /\ Projected(p).paths = Take(p.paths, PathLimit)
<1>1. p.inline # NoText => Take(p.inline, PreviewChars) # NoText
  BY SummaryAssumption, NullAssumption, TakeIs DEF PayloadRow
<1> QED
  BY <1>1 DEF PayloadRow, Projected

LEMMA SummaryAgrees ==
  ASSUME NEW p \in PayloadRow, NEW redacted \in BOOLEAN, NEW present
  PROVE  LET short == Summary(Projected(p), redacted, present)
             long == Summary(p, redacted, present)
         IN /\ short.kind = long.kind /\ short.hasBlob = long.hasBlob
            /\ short.hasInline = long.hasInline /\ short.paths = long.paths
            /\ [short EXCEPT !.text = long.text] = long
            /\ SamePrefix(short.text, long.text)
<1> DEFINE q == Projected(p)
<1>1. PreviewState(q, redacted, present) = PreviewState(p, redacted, present)
  BY ProjectionKeeps DEF PreviewState
<1>2. MetadataPaths(q, redacted) = MetadataPaths(p, redacted)
  BY ProjectionKeeps, TakeTwice, SummaryAssumption DEF MetadataPaths, PayloadRow
<1>3. SamePrefix(PreviewText(q, redacted), PreviewText(p, redacted))
  <2>1. CASE p.kind \in Textual /\ p.inline # NoText /\ ~redacted
    <3>1. /\ PreviewText(q, redacted) = Truncate(Trim(Take(p.inline, PreviewChars)))
          /\ PreviewText(p, redacted) = Truncate(Trim(p.inline))
      BY <2>1, ProjectionKeeps DEF PreviewText
    <3>2. p.inline \in Seq(Char)
      BY <2>1 DEF PayloadRow
    <3> QED
      BY <3>1, <3>2, TextIsPrefix
  <2>2. CASE ~(p.kind \in Textual /\ p.inline # NoText /\ ~redacted)
    <3>1. PreviewText(q, redacted) = PreviewText(p, redacted)
      BY <2>2, ProjectionKeeps DEF PreviewText, Description
    <3> QED
      BY <3>1 DEF SamePrefix
  <2> QED
    BY <2>1, <2>2
<1> HIDE DEF q
<1>4. q.kind = p.kind /\ q.raw = p.raw /\ q.thumb = p.thumb /\ (q.inline = NoText <=> p.inline = NoText)
  BY ProjectionKeeps DEF q
<1> QED
  BY <1>1, <1>2, <1>3, <1>4 DEF Summary, q

\* The list and the blip describe every payload alike.
THEOREM SummariesAgree == Spec => []ListingAgrees
<1>1. TypeOK => ListingAgrees
  <2> SUFFICES ASSUME TypeOK, NEW v \in Visibility, NEW redacted \in BOOLEAN
               PROVE  LET inList == Listed(payload, redacted, Present, v)
                          inBlip == Detailed(payload, redacted, Present, v)
                          alone == Inspected(payload, redacted, Present, v)
                      IN /\ Len(inList) = Len(inBlip)
                         /\ v # "hidden" => alone = inBlip
                         /\ \A i \in DOMAIN inList :
                              /\ [inList[i] EXCEPT !.text = inBlip[i].text] = inBlip[i]
                              /\ SamePrefix(inList[i].text, inBlip[i].text)
    BY DEF ListingAgrees
  <2> DEFINE short == Summary(Projected(payload), redacted, Present)
             long == Summary(payload, redacted, Present)
  <2>1. /\ short.kind = long.kind /\ short.hasBlob = long.hasBlob
        /\ short.hasInline = long.hasInline /\ short.paths = long.paths
        /\ [short EXCEPT !.text = long.text] = long
        /\ SamePrefix(short.text, long.text)
    BY StoredRow, SummaryAgrees DEF TypeOK
  <2>2. /\ [Visible(short, v) EXCEPT !.text = Visible(long, v).text] = Visible(long, v)
        /\ SamePrefix(Visible(short, v).text, Visible(long, v).text)
    <3>1. CASE v = "metadata" /\ long.kind # "text"
      <4> DEFINE bare == [kind |-> long.kind, state |-> "metadata_only", text |-> NoText,
                          thumb |-> NoRef, hasBlob |-> long.hasBlob,
                          hasInline |-> long.hasInline, paths |-> long.paths]
      <4>a. Visible(long, v) = bare
        BY <3>1 DEF Visible, Summary
      <4>b. Visible(short, v) = [kind |-> short.kind, state |-> "metadata_only",
                                 text |-> NoText, thumb |-> NoRef, hasBlob |-> short.hasBlob,
                                 hasInline |-> short.hasInline, paths |-> short.paths]
        BY <2>1, <3>1 DEF Visible, Summary
      <4>1. Visible(short, v) = Visible(long, v)
        BY <2>1, <4>a, <4>b
      <4>2. [Visible(long, v) EXCEPT !.text = Visible(long, v).text] = Visible(long, v)
        BY <3>1 DEF Visible, Summary
      <4> QED
        BY <4>1, <4>2 DEF SamePrefix
    <3>2. CASE ~(v = "metadata" /\ long.kind # "text")
      <4>1. Visible(short, v) = short /\ Visible(long, v) = long
        BY <2>1, <3>2 DEF Visible
      <4> QED
        BY <2>1, <4>1
    <3> QED
      BY <3>1, <3>2
  <2> HIDE DEF short, long
  <2>3. CASE v = "hidden"
    BY <2>3 DEF Listed, Detailed
  <2>4. CASE v # "hidden"
    BY <2>2, <2>4 DEF Listed, Detailed, Inspected, short, long
  <2> QED
    BY <2>3, <2>4
<1> QED
  BY PayloadInvariant, <1>1, PTL DEF PayloadInv

-----------------------------------------------------------------------------
(* What a request that nothing disturbs is answered *)

\* What the request knows of the one moment it has seen: each check it has left
\* behind is a conjunct of Allowed, and its outcome is the documented one.
Decided(m) ==
  /\ pc \in {"blip"} \cup Check \cup Access => m.place # NoWorkspace
  /\ pc \in Check \cup Access => ws = m.place
  /\ pc = "visibility" => Shown
  /\ pc \in {"agent", "grant"} /\ Shown =>
       request.access = "raw" /\ m.policy[m.place].visibility # "hidden"
  /\ pc = "grant" => m.agentAccess[m.place]
  /\ pc \in {"stat", "read"} => Allowed(m)
  /\ pc = "read" => BlobRef # NoRef /\ m.file[BlobRef] \in {"whole", "damaged"}
  /\ pc \in {"record", "answered"} /\ outcome # "store_unavailable" => outcome = Expected(m)

\* A thumbnail is never too large to be answered.
Undisturbed ==
  /\ IsFiniteSet(moments)
  /\ pc # "idle" => \A m \in moments : moments = {m} => Decided(m)
  /\ payload.thumb \in Ref => file[payload.thumb] # "large"

LEMMA UndisturbedInit == Init => Undisturbed
<1> SUFFICES ASSUME Init PROVE Undisturbed
  OBVIOUS
<1>1. payload.thumb \in Ref => file[payload.thumb] = "whole"
  BY DEF Init, StoredFiles
<1> QED
  BY <1>1, FS_EmptySet DEF Init, Undisturbed

LEMMA ServeDecided ==
  ASSUME PayloadInv, Undisturbed, Serve, NEW m \in moments, moments = {m}
  PROVE  Decided(m)'
<1>1. /\ UNCHANGED <<payload, place, agentAccess, policy, file, request, moments>>
      /\ pc # "idle" /\ m = Moment
  BY ServeKeeps DEF Serve, PayloadInv, Progress, GetPayload, GetBlip, CheckVisibility,
     CheckAgentAccess, CheckGrant, Stat, Read, Record, FailLookup, FailCheck, At, Lookup, Check,
     Access
<1>2. /\ m.place = place /\ m.agentAccess = agentAccess /\ m.policy = policy /\ m.file = file
  BY <1>1 DEF Moment
<1>3. Decided(m)
  BY <1>1 DEF Undisturbed
<1>4. /\ BlobRef' = BlobRef /\ Shown' = Shown /\ Exports' = Exports
      /\ Allowed(m)' = Allowed(m) /\ Expected(m)' = Expected(m)
  BY <1>1 DEF BlobRef, Shown, Exports, Allowed, Expected
<1>5. /\ request.access \in {"preview", "raw"} /\ place \in Workspace \cup {NoWorkspace}
      /\ BlobRef \in Ref \cup {NoRef} /\ \A r \in Ref : file[r] \in FileState
  BY StoredRow DEF PayloadInv, TypeOK, Request, Moment, Moments, BlobRef, PayloadRow
<1> USE <1>1, <1>2, <1>3, <1>4 DEF At, Goto, Answer, Conclude, Lookup, Check, Access
<1>6. CASE GetPayload
  BY <1>6 DEF GetPayload, Decided, Expected
<1>7. CASE GetBlip
  BY <1>7 DEF GetBlip, Decided, Expected, Shown
<1>8. CASE CheckVisibility
  BY <1>5, <1>8 DEF CheckVisibility, Decided, Expected, Allowed, Exports, Shown
<1>9. CASE CheckAgentAccess
  <2>1. /\ pc = "agent" /\ Exports /\ ws = m.place /\ m.place # NoWorkspace
        /\ Shown => request.access = "raw" /\ m.policy[m.place].visibility # "hidden"
    BY <1>9 DEF CheckAgentAccess, PayloadInv, Progress, Decided
  <2> QED
    BY <1>9, <2>1 DEF CheckAgentAccess, Decided, Expected, Allowed
<1>10. CASE CheckGrant
  <2>1. /\ pc = "grant" /\ Exports /\ ws = m.place /\ m.place # NoWorkspace
        /\ Shown => request.access = "raw" /\ m.policy[m.place].visibility # "hidden"
        /\ m.agentAccess[m.place]
    BY <1>10 DEF CheckGrant, PayloadInv, Progress, Decided
  <2> QED
    BY <1>10, <2>1 DEF CheckGrant, Decided, Expected, Allowed
<1>11. CASE Stat
  BY <1>5, <1>11 DEF Stat, Decided, Expected, FileState
<1>12. CASE Read
  BY <1>5, <1>12 DEF Read, Decided, Expected, FileState
<1>13. CASE Record
  BY <1>13 DEF Record, Decided
<1>14. CASE FailLookup
  BY <1>14 DEF FailLookup, Decided
<1>15. CASE FailCheck
  BY <1>15 DEF FailCheck, Decided
<1> QED
  BY <1>6, <1>7, <1>8, <1>9, <1>10, <1>11, <1>12, <1>13, <1>14, <1>15 DEF Serve

LEMMA UndisturbedStep == ASSUME PayloadInv, Undisturbed, [Next]_vars PROVE Undisturbed'
<1> DEFINE Small == payload.thumb \in Ref => file[payload.thumb] # "large"
<1>1. CASE UNCHANGED vars
  <2>1. UNCHANGED <<payload, file, pc, request, outcome, ws, moments>>
    BY <1>1 DEF vars, shared, history
  <2>2. /\ BlobRef' = BlobRef
        /\ \A m : Shown' = Shown /\ Allowed(m)' = Allowed(m) /\ Expected(m)' = Expected(m)
    BY <2>1 DEF BlobRef, Shown, Exports, Allowed, Expected
  <2>3. \A m : Decided(m)' = Decided(m)
    BY <2>1, <2>2 DEF Decided
  <2> QED
    BY <2>1, <2>3 DEF Undisturbed
<1>2. ASSUME NEW r \in Request, Ask(r) PROVE Undisturbed'
  <2>1. /\ pc' = "payload" /\ moments' = {Moment} /\ UNCHANGED <<payload, file>>
    BY <1>2 DEF Ask, Goto, shared
  <2>2. IsFiniteSet(moments')
    BY <2>1, FS_Singleton
  <2>3. \A m : Decided(m)'
    BY <2>1 DEF Decided, Check, Access
  <2> QED
    BY <2>1, <2>2, <2>3 DEF Undisturbed
<1>3. CASE Serve
  <2>1. UNCHANGED <<payload, file, moments>>
    BY <1>3, ServeKeeps
  <2> QED
    BY <1>3, <2>1, ServeDecided DEF Undisturbed
<1>4. CASE Finish \/ Crash
  <2>1. pc' = "idle" /\ moments' = {} /\ UNCHANGED <<payload, file>>
    BY <1>4 DEF Finish, Crash, shared
  <2> QED
    BY <2>1, FS_EmptySet DEF Undisturbed
<1>5. CASE Others
  <2>1. /\ UNCHANGED <<payload, pc, request, outcome, ws>>
        /\ moments' = IF pc = "idle" THEN moments ELSE moments \cup {Moment'}
    BY <1>5, OthersKeep
  <2>2. IsFiniteSet(moments')
    BY <2>1, FS_AddElement DEF Undisturbed
  <2>3. Small'
    <3>1. file' = file \/ \E r \in Ref, state \in {"absent", "damaged"} :
                            file' = [file EXCEPT ![r] = state]
      BY <1>5 DEF Others, MoveBlip, DeleteBlip, SetAgentAccess, SetWorkspacePolicy, SpoilFile
    <3>2. DOMAIN file = Ref
      BY DEF PayloadInv, TypeOK, Moment, Moments
    <3> QED
      BY <2>1, <3>1, <3>2 DEF Undisturbed
  <2>4. ASSUME pc' # "idle", NEW m \in moments', moments' = {m} PROVE Decided(m)'
    <3>1. m \in moments /\ moments = {m}
      BY <2>1, <2>4 DEF PayloadInv, Progress
    <3>2. Decided(m)
      BY <2>1, <2>4, <3>1 DEF Undisturbed
    <3> QED
      BY <2>1, <3>2 DEF Decided, Expected, Allowed, Shown, Exports, BlobRef
  <2> QED
    BY <2>2, <2>3, <2>4 DEF Undisturbed
<1> QED
  BY <1>1, <1>2, <1>3, <1>4, <1>5, Steps

LEMMA UndisturbedAlways == Spec => []Undisturbed
<1>1. PayloadInv /\ Undisturbed /\ [Next]_vars => Undisturbed'
  BY UndisturbedStep
<1> QED
  BY UndisturbedInit, <1>1, PayloadInvariant, PTL DEF Spec

\* An answer is the one the documented rules give whenever the database did not
\* change during the request: the order of the checks and the place they read
\* the workspace from make no difference.
THEOREM RulesDecide == Spec => []PolicyDecides
<1>1. Undisturbed => PolicyDecides
  BY DEF Undisturbed, PolicyDecides, Decided
<1> QED
  BY <1>1, UndisturbedAlways, PTL

\* An image whose preview the list calls available has a thumbnail, and its
\* workspace lets it be seen.
LEMMA AdvertisedImage ==
  ASSUME NEW p \in PayloadRow, p.kind = "image", NEW redacted, ~redacted, NEW present,
         NEW v \in Visibility, NEW i \in DOMAIN Listed(p, redacted, present, v),
         Listed(p, redacted, present, v)[i].state = "available"
  PROVE  v = "safe_preview" /\ p.thumb \in present
<1> DEFINE s == Summary(Projected(p), redacted, present)
<1>1. v # "hidden" /\ Visible(s, v).state = "available"
  <2>1. v # "hidden"
    BY DEF Listed
  <2>2. \A e : \A j \in DOMAIN <<e>> : <<e>>[j] = e
    OBVIOUS
  <2> QED
    BY <2>1, <2>2 DEF Listed
<1>2. s.kind = "image" /\ s.state = PreviewState(p, redacted, present)
  BY ProjectionKeeps DEF Summary, PreviewState
<1>3. v # "metadata" /\ s.state = "available"
  <2>1. CASE v = "metadata"
    <3>1. Visible(s, v) = [s EXCEPT !.state = "metadata_only", !.text = NoText, !.thumb = NoRef]
      BY <1>2, <2>1 DEF Visible
    <3>2. Visible(s, v).state = "metadata_only"
      BY <3>1 DEF Summary
    <3> QED
      BY <1>1, <3>2
  <2>2. CASE v # "metadata"
    BY <1>1, <2>2 DEF Visible
  <2> QED
    BY <2>1, <2>2
<1>4. p.thumb \in present
  BY <1>2, <1>3 DEF PreviewState, PayloadRow
<1> QED
  BY <1>1, <1>3, <1>4 DEF Visibility

\* Where the list says that a preview of an image is there, the request for it
\* finds it, unless something changed or the store cannot be used.
THEOREM PreviewsServed == Spec => []AdvertisedPreviewServed
<1>1. PayloadInv /\ Undisturbed => AdvertisedPreviewServed
  <2> SUFFICES ASSUME PayloadInv, Undisturbed, pc = "answered",
                      request = [requester |-> "desktop", access |-> "preview"],
                      Cardinality(moments) = 1, place # NoWorkspace, payload.kind = "image",
                      NEW i \in DOMAIN Listed(payload, FALSE, Present, policy[place].visibility),
                      Listed(payload, FALSE, Present, policy[place].visibility)[i].state
                        = "available",
                      outcome # "store_unavailable"
               PROVE  outcome = "bytes"
    BY DEF AdvertisedPreviewServed
  <2>1. Moment \in moments /\ moments = {Moment}
    <3>1. \E m : moments = {m}
      BY FS_Singleton DEF Undisturbed
    <3> QED
      BY <3>1 DEF PayloadInv, Progress
  <2>2. outcome = Expected(Moment)
    BY <2>1 DEF Undisturbed, Decided
  <2>3. payload \in PayloadRow /\ place \in Workspace /\ policy[place].visibility \in Visibility
    BY StoredRow DEF PayloadInv, TypeOK, Moment, Moments, Policy
  <2>4. policy[place].visibility = "safe_preview" /\ payload.thumb \in Present
    BY <2>3, AdvertisedImage
  <2>5. /\ BlobRef = payload.thumb /\ payload.thumb \in Ref /\ BlobRef # NoRef
        /\ file[BlobRef] \in {"whole", "damaged"}
    BY <2>4, NullAssumption DEF BlobRef, Present, PayloadInv, TypeOK, Moment, Moments, FileState,
       Undisturbed
  <2>6. Moment.place = place /\ Moment.file = file /\ Allowed(Moment)
    BY <2>4 DEF Moment, Allowed, Shown, Exports
  <2> QED
    BY <2>2, <2>5, <2>6 DEF Expected
<1> QED
  BY <1>1, UndisturbedAlways, PayloadInvariant, PTL
=============================================================================
