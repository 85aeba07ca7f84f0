------------------------------ MODULE HostedProofs ------------------------------
(***************************************************************************)
(* Proofs about hosting as a whole: it implements the service of            *)
(* CloudService, so that what is proved there holds here, and SystemInv is   *)
(* an invariant, whatever is lost, cut short, abandoned or dies.             *)
(***************************************************************************)
EXTENDS HostedProperties, CloudProofs

-----------------------------------------------------------------------------
(* Every step is one of the service's or does not touch it *)

LEMMA ServesIsNext ==
  ASSUME NEW c \in Call, Serves(c) PROVE Next
<1>1. ASSUME c.kind = "join", NEW m \in Member, JoinWorkspace(c.code, m) PROVE Next
  <2>1. c.code \in Code
    BY <1>1 DEF Call
  <2> QED
    BY <1>1, <2>1 DEF Next, Handle
<1>2. ASSUME c.kind = "publish", NEW b \in HostedBlip, NEW t \in Tags, PublishBlip(c.member, b, t)
      PROVE Next
  <2>1. c.member \in Member
    BY <1>2 DEF Call
  <2> QED
    BY <1>2, <2>1 DEF Next, Handle
<1> QED
  BY <1>1, <1>2 DEF Serves

LEMMA ServiceSteps ==
  ASSUME HostedTypeOK, CallsInv, SystemNext PROVE [Next]_vars
<1>1. CASE WebStep \/ WebJoin
  BY <1>1 DEF WebStep, WebJoin, ClickJoin, Joined, LoseJoin, Poll, SignOut, Reload, AnswerPoll, Deliver,
     LosePoll, Next, Proceed
<1>2. CASE ServiceStep
  BY <1>2 DEF ServiceStep, Next, Proceed
<1>3. ASSUME NEW d \in Daemon, DaemonStep(d) PROVE [Next]_vars
  <2>1. CASE TakeUp(d)
    <3>1. call[d] \in Call
      BY <2>1 DEF TakeUp, At, HostedTypeOK, CallsInv
    <3> QED
      BY <2>1, <3>1, ServesIsNext DEF TakeUp
  <2>2. CASE InsertEventFor(d) \/ CutShortFor(d)
    BY <2>2 DEF InsertEventFor, CutShortFor, Next, Proceed
  <2>3. CASE \/ StartDaemon(d) \/ Die(d) \/ \E k \in Code : AskJoin(d, k)
             \/ AskPublish(d) \/ \E on \in BOOLEAN : SetShare(d, on)
             \/ Refuse(d) \/ GiveUp(d) \/ Remember(d) \/ Truncate(d) \/ Write(d) \/ Record(d)
    BY <2>3 DEF StartDaemon, Die, AskJoin, AskPublish, SetShare, Refuse, GiveUp, Remember, Truncate,
         Write, Record, cloudVars
  <2> QED
    BY <1>3, <2>1, <2>2, <2>3 DEF DaemonStep
<1>4. ASSUME NEW c \in adrift, TakeUpLate(c) PROVE [Next]_vars
  <2>1. c \in Call
    BY DEF HostedTypeOK
  <2> QED
    BY <1>4, <2>1, ServesIsNext DEF TakeUpLate
<1> QED
  BY <1>1, <1>2, <1>3, <1>4 DEF SystemNext, HostedNext

-----------------------------------------------------------------------------
(* What the service has done stays done *)

Grown ==
  /\ RowsKept
  /\ credentials \subseteq credentials'
  /\ \A w \in Workspace :
       /\ \A i \in DOMAIN events[w] : i \in DOMAIN events'[w] /\ events'[w][i] = events[w][i]
       /\ \A i \in DOMAIN events'[w] \ DOMAIN events[w] : \A j \in DOMAIN events[w] : j < i

LEMMA ServiceGrows ==
  ASSUME CloudInv, [Next]_vars PROVE CloudInv' /\ Grown
<1>1. CASE Next
  <2>1. credentials \subseteq credentials'
    BY <1>1, Steps, AsideKeeps
    DEF CreateWorkspace, CreateJoinCode, JoinWorkspace, PublishBlip, UpdateBlipTags, RecordAccess,
        Begin, InsertMember, InsertSession, TakeNumber, InsertEvent, CutShort, Tick, vars
  <2> QED
    BY <1>1, <2>1, TypeStep, RowsStep, RowsInvStep, RequestInvStep, NumbersInvStep, FeedStep
    DEF CloudInv, Grown
<1>2. CASE UNCHANGED vars
  <2>1. CloudInv'
    BY <1>2 DEF CloudInv, TypeOK, RowsInv, RequestInv, NumbersInv, FeedStaysInWorkspace, Proper,
                BelongsTo, vars, tables
  <2>2. RowsKept
    BY <1>2 DEF CloudInv, TypeOK, RowsKept, vars, tables, Absent
  <2> QED
    BY <1>2, <2>1, <2>2 DEF Grown, vars, tables
<1> QED
  BY <1>1, <1>2

LEMMA WorksKept ==
  ASSUME Grown, NEW m \in Member, NEW w \in Workspace, Works(m, w) PROVE Works(m, w)'
  BY DEF Grown, RowsKept, Works

LEMMA AnnouncedKept ==
  ASSUME Grown, NEW b, NEW w \in Workspace, NEW n, Announced(b, w, n) PROVE Announced(b, w, n)'
  BY DEF Grown, RowsKept, Announced

\* The values that go around, taken apart.
LEMMA CallParts ==
  ASSUME NEW c \in Call
  PROVE  /\ c.kind \in {"join", "publish", "share"}
         /\ c.kind = "join" => c.code \in Code
         /\ c.kind = "publish" => c.member \in Member /\ c.ws \in Workspace
         /\ c.kind = "share" => c.on \in BOOLEAN
  BY DEF Call

LEMMA SessionParts ==
  ASSUME NEW s \in Sessions, s # NoSession
  PROVE  s \in Session /\ s.member \in Member /\ s.ws \in Workspace /\ s.share \in BOOLEAN
  BY DEF Sessions, Session

-----------------------------------------------------------------------------
(* The daemons: one lemma for each part of HostedInv *)

\* The steps of a daemon, and those that leave all daemons alone.
Quiet == UNCHANGED daemonVars
Moves(d) ==
  \/ StartDaemon(d) \/ Die(d) \/ (\E k \in Code : AskJoin(d, k)) \/ AskPublish(d)
  \/ (\E on \in BOOLEAN : SetShare(d, on)) \/ TakeUp(d) \/ Refuse(d) \/ InsertEventFor(d)
  \/ CutShortFor(d) \/ GiveUp(d) \/ Remember(d) \/ Truncate(d) \/ Write(d) \/ Record(d)

LEMMA SystemSteps ==
  ASSUME SystemNext
  PROVE  Quiet \/ (\E d \in Daemon : Moves(d)) \/ (\E c \in adrift : TakeUpLate(c))
  BY DEF SystemNext, HostedNext, ServiceStep, DaemonStep, Moves, Quiet

\* An answer to the request of a daemon.
LEMMA AnswerType ==
  ASSUME CloudInv, HostedInv, NEW d \in Daemon, sender = d, InsertEvent,
         call[d] \in Call, call[d].kind \in {"join", "publish"}
  PROVE  /\ Answer \in Reply
         /\ call[d].kind = "join" => Answer.item = request.change.actor /\ Answer.item \in Member
         /\ call[d].kind = "join" => memberOf[Answer.item] = Answer.ws
         /\ Answer.ws = request.ws
<1> DEFINE r == request
<1>1. sender # Other
  BY HostingAssumption
<1>2. /\ r \in [ws : Workspace, change : Change] /\ pc = "announce" /\ Proper(r.ws, r.change)
  BY DEF CloudInv, RequestInv, InsertEvent
<1>3. r.ws \in Workspace /\ r.change.actor \in Member
  BY <1>2 DEF Change
<1>4. CASE call[d].kind = "join"
  <2>1. r.change.type = "member_joined" /\ r.change.target = r.change.actor
    BY <1>1, <1>4 DEF HostedInv, SenderInv
  <2>2. Answer = [item |-> r.change.actor, ws |-> r.ws, number |-> 0]
    BY <2>1 DEF Answer
  <2> QED
    BY <1>2, <1>3, <1>4, <2>2 DEF Reply, Proper
<1>5. CASE call[d].kind = "publish"
  <2>1. /\ r.change.type = "blip_published" /\ r.change.target \in HostedBlip
        /\ blips[r.change.target] # NoBlip
    BY <1>1, <1>5 DEF HostedInv, SenderInv
  <2>2. blips[r.change.target].sequence \in Nat
    BY <2>1 DEF CloudInv, TypeOK, BlipRow
  <2>3. Answer = [item |-> r.change.target, ws |-> r.ws, number |-> blips[r.change.target].sequence]
    BY <2>1 DEF Answer
  <2> QED
    BY <1>3, <1>5, <2>1, <2>2, <2>3 DEF Reply
<1> QED
  BY <1>4, <1>5

LEMMA RowType ==
  ASSUME HostedInv, NEW d \in Daemon, Record(d), rows' # rows
  PROVE  RowOf(d) \in HostedRow
<1>1. /\ step[d] \in {"recording", "answered"} /\ call[d] # NoCall /\ call[d] \in Call
  BY DEF Record, At, HostedInv, CallsInv, HostedTypeOK
<1>2. CASE call[d].kind = "join"
  <2>1. reply[d] \in Reply /\ reply[d].item \in Member
    BY <1>1, <1>2 DEF HostedInv, AnswersInv
  <2>2. reply[d].ws \in Workspace /\ reply[d].number \in Int
    BY <2>1 DEF Reply
  <2> QED
    BY <1>2, <2>1, <2>2 DEF RowOf, HostedRow
<1>3. CASE call[d].kind = "publish"
  <2>1. reply[d] \in Reply /\ Announced(reply[d].item, call[d].ws, reply[d].number)
    BY <1>1, <1>3 DEF HostedInv, AnswersInv
  <2>2. reply[d].item \in HostedBlip /\ reply[d].number \in Int /\ call[d].ws \in Workspace
    BY <1>1, <1>3, <2>1, CallParts DEF Reply, Announced
  <2> QED
    BY <1>3, <2>2 DEF RowOf, HostedRow
<1>4. CASE call[d].kind = "share"
  <2>1. call[d].on \in BOOLEAN
    BY <1>1, <1>4, CallParts
  <2>2. Connected(d) => hosted[d].ws \in Workspace
    BY SessionParts DEF HostedInv, HostedTypeOK, Connected
  <2> QED
    BY <1>4, <2>1, <2>2 DEF RowOf, HostedRow
<1> QED
  BY <1>1, <1>2, <1>3, <1>4, CallParts

LEMMA HostedTypeStep == ASSUME CloudInv, HostedInv, SystemNext PROVE HostedTypeOK'
<1>0. HostedTypeOK
  BY DEF HostedInv
<1> USE DEF HostedTypeOK, device, thread, history
<1>1. CASE Quiet
  BY <1>0, <1>1 DEF Quiet, daemonVars
<1>2. ASSUME NEW d \in Daemon, Moves(d) PROVE HostedTypeOK'
  <2>1. CASE StartDaemon(d)
    BY <1>0, <2>1 DEF StartDaemon, Goto, Step
  <2>2. CASE Die(d)
    BY <1>0, <2>2 DEF Die, Abandoned, Goto, Step, Sessions, HostedInv, CallsInv, At
  <2>3. ASSUME NEW k \in Code, AskJoin(d, k) PROVE HostedTypeOK'
    <3>1. [kind |-> "join", code |-> k] \in Call
      BY DEF Call
    <3> QED
      BY <1>0, <2>3, <3>1 DEF AskJoin, Asked, Goto, Step
  <2>4. CASE AskPublish(d)
    <3>1. [kind |-> "publish", member |-> hosted[d].member, ws |-> hosted[d].ws] \in Call
      BY <1>0, <2>4, SessionParts DEF AskPublish, Connected, Call
    <3> QED
      BY <1>0, <2>4, <3>1 DEF AskPublish, Asked, Goto, Step
  <2>5. ASSUME NEW on \in BOOLEAN, SetShare(d, on) PROVE HostedTypeOK'
    <3>1. [kind |-> "share", on |-> on] \in Call
      BY DEF Call
    <3>2. Connected(d) => /\ [hosted[d] EXCEPT !.share = on] \in Session
                          /\ <<hosted[d].member, hosted[d].ws>> \in Member \X Workspace
      BY <1>0, SessionParts DEF Connected, Session
    <3>3. hosted' \in [Daemon -> Sessions] /\ consents' \subseteq Member \X Workspace
      BY <1>0, <2>5, <3>2 DEF SetShare, Sessions
    <3> QED
      BY <1>0, <2>5, <3>1, <3>3 DEF SetShare, Asked, Goto, Step
  <2>6. CASE TakeUp(d)
    BY <1>0, <2>6 DEF TakeUp, Goto, Step
  <2>7. CASE Refuse(d)
    BY <1>0, <2>7 DEF Refuse, Ended, Goto, Step
  <2>8. CASE InsertEventFor(d)
    <3>1. At(d, "served")
      BY <2>8, HostingAssumption DEF InsertEventFor, HostedInv, SenderInv
    <3>2. call[d] \in Call /\ call[d].kind \in {"join", "publish"}
      BY <1>0, <3>1 DEF At, HostedInv, CallsInv
    <3>3. Answer \in Reply
      BY <2>8, <3>2, AnswerType DEF InsertEventFor
    <3> QED
      BY <1>0, <2>8, <3>3 DEF InsertEventFor, Ended, Goto, Step
  <2>9. CASE CutShortFor(d)
    BY <1>0, <2>9 DEF CutShortFor, Ended, Goto, Step
  <2>10. CASE GiveUp(d)
    BY <1>0, <2>10 DEF GiveUp, Abandoned, Ended, Goto, Step, HostedInv, CallsInv, At
  <2>11. CASE Remember(d)
    <3>1. [member |-> reply[d].item, ws |-> reply[d].ws, share |-> FALSE] \in Session
      BY <2>11 DEF Remember, At, HostedInv, AnswersInv, Reply, Session
    <3> QED
      BY <1>0, <2>11, <3>1 DEF Remember, Goto, Step, Sessions
  <2>12. CASE Truncate(d)
    BY <1>0, <2>12 DEF Truncate, Ended, Goto, Step
  <2>13. CASE Write(d)
    BY <1>0, <2>13 DEF Write, Ended, Goto, Step
  <2>14. CASE Record(d)
    <3>1. rows' \subseteq HostedRow
      BY <1>0, <2>14, RowType DEF Record
    <3>2. confirmed' \in Sessions \cup {Nothing}
      BY <1>0, <2>14 DEF Record
    <3> QED
      BY <1>0, <2>14, <3>1, <3>2 DEF Record, Ended, Goto, Step
  <2> QED
    BY <1>2, <2>1, <2>2, <2>3, <2>4, <2>5, <2>6, <2>7, <2>8, <2>9, <2>10, <2>11, <2>12, <2>13,
       <2>14 DEF Moves
<1>3. ASSUME NEW c \in adrift, TakeUpLate(c) PROVE HostedTypeOK'
  BY <1>0, <1>3 DEF TakeUpLate
<1> QED
  BY <1>1, <1>2, <1>3, SystemSteps

\* What a session needs to be proper in the next state.
Lasting(x) ==
  x \in Session => /\ x.member \in credentials' /\ memberOf'[x.member] = x.ws
                   /\ x.share => <<x.member, x.ws>> \in consents'

LEMMA ProperLasts ==
  ASSUME Grown, consents \subseteq consents', NEW x, SessionProper(x) PROVE Lasting(x)
<1> SUFFICES ASSUME x \in Session PROVE Lasting(x)
  BY DEF Lasting
<1>1. x.member \in Member /\ x.ws \in Workspace
  BY DEF Session
<1> QED
  BY <1>1, WorksKept DEF SessionProper, Works, Lasting

LEMMA SessionsStep == ASSUME CloudInv, HostedInv, SystemNext PROVE SessionsProper'
<1>0. Grown /\ HostedTypeOK /\ SessionsProper
  BY ServiceSteps, ServiceGrows DEF HostedInv
<1>1. consents \subseteq consents' => Lasting(config) /\ \A d \in Daemon : Lasting(hosted[d])
  BY <1>0, ProperLasts DEF SessionsProper
<1>2. Lasting(NoSession) /\ Lasting(Torn)
  BY HostingAssumption DEF Lasting
<1>3. ASSUME Lasting(config'), \A e \in Daemon : Lasting(hosted'[e]) PROVE SessionsProper'
  BY <1>3 DEF SessionsProper, SessionProper, Works, Lasting
<1>4. CASE Quiet \/ \E c \in adrift : TakeUpLate(c)
  <2>1. config' = config /\ hosted' = hosted /\ consents' = consents
    BY <1>4 DEF Quiet, daemonVars, TakeUpLate, device, history
  <2> QED
    BY <1>1, <1>3, <2>1
<1>5. ASSUME NEW d \in Daemon, Moves(d) PROVE SessionsProper'
  <2>0. \A e \in Daemon : e # d => hosted'[e] = hosted[e]
    BY <1>0, <1>5 DEF HostedTypeOK, Moves, StartDaemon, Die, AskJoin, AskPublish, SetShare, TakeUp,
       Refuse, InsertEventFor, CutShortFor, GiveUp, Remember, Truncate, Write, Record, device
  <2>1. consents \subseteq consents'
    BY <1>5 DEF Moves, StartDaemon, Die, AskJoin, AskPublish, SetShare, TakeUp, Refuse,
       InsertEventFor, CutShortFor, GiveUp, Remember, Truncate, Write, Record, history
  <2>2. config' \in {config, hosted[d], Torn}
    BY <1>5 DEF Moves, StartDaemon, Die, AskJoin, AskPublish, SetShare, TakeUp, Refuse,
       InsertEventFor, CutShortFor, GiveUp, Remember, Truncate, Write, Record, device
  <2>3. Lasting(config')
    BY <1>1, <1>2, <2>1, <2>2
  <2>4. ASSUME Lasting(hosted'[d]) PROVE SessionsProper'
    BY <1>1, <1>3, <2>0, <2>1, <2>3, <2>4
  <2>5. CASE hosted'[d] \in {hosted[d], config, NoSession}
    BY <1>1, <1>2, <2>1, <2>4, <2>5
  <2>6. ASSUME NEW on \in BOOLEAN, SetShare(d, on), Connected(d) PROVE SessionsProper'
    <3> DEFINE x == hosted[d]
    <3>1. x \in Session
      BY <1>0, <2>6, SessionParts DEF HostedTypeOK, Connected
    <3>2. hosted'[d] = [x EXCEPT !.share = on]
      BY <1>0, <2>6 DEF SetShare, HostedTypeOK
    <3>3. hosted'[d].member = x.member /\ hosted'[d].ws = x.ws /\ hosted'[d].share = on
      BY <3>1, <3>2 DEF Session
    <3>4. on => <<x.member, x.ws>> \in consents'
      BY <2>6 DEF SetShare
    <3>5. x.member \in credentials' /\ memberOf'[x.member] = x.ws
      BY <1>1, <2>1, <3>1 DEF Lasting
    <3> QED
      BY <2>4, <3>3, <3>4, <3>5 DEF Lasting
  <2>7. CASE Remember(d)
    <3>1. /\ reply[d] \in Reply /\ reply[d].item \in Member /\ reply[d].ws \in Workspace
          /\ Works(reply[d].item, reply[d].ws)
      BY <2>7 DEF Remember, At, HostedInv, AnswersInv, Reply
    <3>2. /\ hosted'[d].member = reply[d].item /\ hosted'[d].ws = reply[d].ws
          /\ hosted'[d].share = FALSE
      BY <1>0, <2>7 DEF Remember, HostedTypeOK
    <3>3. reply[d].item \in credentials' /\ memberOf'[reply[d].item] = reply[d].ws
      BY <1>0, <3>1, WorksKept DEF Works
    <3> QED
      BY <2>4, <3>2, <3>3 DEF Lasting
  <2>8. hosted'[d] \in {hosted[d], config, NoSession} \/ Remember(d)
        \/ \E on \in BOOLEAN : SetShare(d, on) /\ Connected(d)
    BY <1>0, <1>5 DEF Moves, StartDaemon, Die, AskJoin, AskPublish, SetShare, TakeUp, Refuse,
       InsertEventFor, CutShortFor, GiveUp, Remember, Truncate, Write, Record, device, HostedTypeOK
  <2> QED
    BY <2>5, <2>6, <2>7, <2>8
<1> QED
  BY <1>4, <1>5, SystemSteps

\* Steps of one daemon leave the others where they are.
LEMMA OthersStay ==
  ASSUME HostedTypeOK, NEW d \in Daemon, Moves(d)
  PROVE  /\ \A e \in Daemon : e # d => /\ step'[e] = step[e] /\ call'[e] = call[e]
                                       /\ reply'[e] = reply[e] /\ hosted'[e] = hosted[e]
         /\ step' \in [Daemon -> Step \cup {step'[d]}]
  BY DEF HostedTypeOK, Moves, StartDaemon, Die, AskJoin, AskPublish, SetShare, Asked, TakeUp, Refuse,
     InsertEventFor, CutShortFor, GiveUp, Remember, Truncate, Write, Record, Ended, Goto, device,
     thread

LEMMA SavesStep == ASSUME CloudInv, HostedInv, SystemNext PROVE SavesInv' /\ SessionKept'
<1>0. HostedTypeOK /\ SavesInv /\ SessionKept
  BY DEF HostedInv
<1> USE DEF SavesInv, SessionKept, At
<1>1. CASE Quiet \/ \E c \in adrift : TakeUpLate(c)
  <2>1. /\ config' = config /\ hosted' = hosted /\ step' = step /\ alone' = alone
        /\ confirmed' = confirmed
    BY <1>1 DEF Quiet, daemonVars, TakeUpLate, device, thread, history
  <2> QED
    BY <1>0, <2>1
<1>2. ASSUME NEW d \in Daemon, Moves(d) PROVE SavesInv' /\ SessionKept'
  <2>0. \A e \in Daemon : e # d => step'[e] = step[e] /\ hosted'[e] = hosted[e]
    BY <1>0, <1>2, OthersStay
  <2>1. ASSUME config' = config, alone' = alone, confirmed' = confirmed,
               step'[d] \notin {"writing", "recording"}
        PROVE  SavesInv' /\ SessionKept'
    BY <1>0, <2>0, <2>1
  <2>2. CASE \/ StartDaemon(d) \/ Die(d) \/ \E k \in Code : AskJoin(d, k)
             \/ AskPublish(d) \/ \E on \in BOOLEAN : SetShare(d, on)
             \/ TakeUp(d) \/ Refuse(d) \/ InsertEventFor(d) \/ CutShortFor(d)
             \/ GiveUp(d) \/ Remember(d)
    <3>1. config' = config /\ alone' = alone /\ confirmed' = confirmed
      BY <2>2 DEF StartDaemon, Die, AskJoin, AskPublish, SetShare, TakeUp, Refuse, InsertEventFor,
         CutShortFor, GiveUp, Remember, device, history
    <3>2. step'[d] \notin {"writing", "recording"}
      BY <1>0, <2>2 DEF StartDaemon, Die, AskJoin, AskPublish, SetShare, Asked, TakeUp, Refuse,
         InsertEventFor, CutShortFor, GiveUp, Remember, Ended, Goto, HostedTypeOK
    <3> QED
      BY <2>1, <3>1, <3>2
  <2>3. CASE Truncate(d)
    <3>1. CASE step'[d] = "writing"
      <4>1. config' = Torn /\ confirmed' = Nothing
        BY <1>0, <2>3, <3>1 DEF Truncate, Ended, Goto, HostedTypeOK
      <4>2. alone' = IF \E e \in Daemon : At(e, "writing") THEN Other ELSE d
        BY <1>0, <2>3, <3>1 DEF Truncate, Ended, Goto, HostedTypeOK
      <4>3. Other \notin Daemon
        BY HostingAssumption
      <4> QED
        BY <2>0, <3>1, <4>1, <4>2, <4>3
    <3>2. CASE step'[d] # "writing"
      <4>1. /\ config' = config /\ alone' = alone /\ confirmed' = confirmed
            /\ step'[d] = "idle"
        BY <1>0, <2>3, <3>2 DEF Truncate, Ended, Goto, HostedTypeOK
      <4> QED
        BY <2>1, <4>1
    <3> QED
      BY <3>1, <3>2
  <2>4. CASE Write(d)
    <3>1. alone' = alone /\ confirmed' = confirmed /\ hosted' = hosted /\ step[d] = "writing"
      BY <2>4 DEF Write, history
    <3>2. confirmed = Nothing
      BY <1>0, <3>1
    <3>3. alone # d => alone \notin Daemon \/ step[alone] \notin {"writing", "recording"}
      BY <1>0, <3>1
    <3>4. alone = d => config = Torn /\ \A e \in Daemon \ {d} : step[e] # "writing"
      BY <1>0, <3>1
    <3>5. step'[d] \in {"recording", "idle"}
      BY <1>0, <2>4 DEF Write, Ended, Goto, HostedTypeOK
    <3>6. step'[d] = "recording" /\ config = Torn => config' = hosted[d]
      BY <1>0, <2>4 DEF Write, Ended, Goto, HostedTypeOK
    <3> QED
      BY <2>0, <3>1, <3>2, <3>3, <3>4, <3>5, <3>6
  <2>5. CASE Record(d)
    <3>1. config' = config /\ alone' = alone /\ hosted' = hosted /\ step'[d] = "idle"
      BY <1>0, <2>5 DEF Record, Ended, Goto, HostedTypeOK
    <3>2. CASE confirmed' = confirmed
      BY <2>1, <3>1, <3>2
    <3>3. CASE confirmed' # confirmed
      <4>1. step[d] = "recording" /\ alone = d /\ confirmed' = hosted[d]
        BY <2>5, <3>3 DEF Record
      <4>2. config = hosted[d] /\ \A e \in Daemon \ {d} : step[e] # "writing"
        BY <1>0, <4>1
      <4> QED
        BY <1>0, <2>0, <3>1, <4>1, <4>2
    <3> QED
      BY <3>2, <3>3
  <2> QED
    BY <1>2, <2>2, <2>3, <2>4, <2>5 DEF Moves
<1> QED
  BY <1>1, <1>2, SystemSteps

\* The members of calls that go around stay where they are.
LEMMA CallLasts ==
  ASSUME Grown, NEW c \in Call, c.kind = "publish" => memberOf[c.member] = c.ws
  PROVE  c.kind = "publish" => memberOf'[c.member] = c.ws
  BY CallParts DEF Grown, RowsKept

LEMMA CallsStep == ASSUME CloudInv, HostedInv, SystemNext PROVE CallsInv'
<1>0. Grown /\ HostedTypeOK /\ CallsInv /\ HostedTypeOK'
  BY ServiceSteps, ServiceGrows, HostedTypeStep DEF HostedInv
<1>1. /\ \A c \in adrift : c \in Call /\ (c.kind = "publish" => memberOf'[c.member] = c.ws)
      /\ \A d \in Daemon : call[d] # NoCall =>
           call[d] \in Call /\ (call[d].kind = "publish" => memberOf'[call[d].member] = call[d].ws)
  <2>1. \A c \in Call : (c.kind = "publish" => memberOf[c.member] = c.ws)
                        => (c.kind = "publish" => memberOf'[c.member] = c.ws)
    BY <1>0, CallLasts
  <2>2. \A d \in Daemon : call[d] # NoCall => call[d] \in Call
    BY <1>0 DEF HostedTypeOK
  <2>3. adrift \subseteq Call
    BY <1>0 DEF HostedTypeOK
  <2> QED
    BY <1>0, <2>1, <2>2, <2>3, HostingAssumption DEF CallsInv
<1>2. CASE Quiet \/ \E c \in adrift : TakeUpLate(c)
  <2>1. step' = step /\ call' = call /\ adrift' \subseteq adrift
    BY <1>2 DEF Quiet, daemonVars, TakeUpLate, thread
  <2> QED
    BY <1>0, <1>1, <2>1 DEF CallsInv
<1>3. ASSUME NEW d \in Daemon, Moves(d) PROVE CallsInv'
  <2>0. \A e \in Daemon : e # d => step'[e] = step[e] /\ call'[e] = call[e]
    BY <1>0, <1>3, OthersStay
  <2>1. ASSUME \/ step'[d] \in {"down", "idle"}
               \/ /\ call'[d] # NoCall
                  /\ step'[d] \in {"calling", "served", "answered"} =>
                       call'[d].kind \in {"join", "publish"}
                  /\ step'[d] \in {"saving", "writing", "recording"} =>
                       call'[d].kind \in {"join", "share"},
               call'[d] # NoCall /\ call'[d].kind = "publish" =>
                 memberOf'[call'[d].member] = call'[d].ws,
               \A c \in adrift' \ adrift : c = call[d] /\ step[d] = "calling"
        PROVE  CallsInv'
    <3>1. \A c \in adrift' : /\ c.kind \in {"join", "publish"}
                             /\ c.kind = "publish" => memberOf'[c.member] = c.ws
      BY <1>0, <1>1, <2>1 DEF CallsInv
    <3> QED
      BY <1>0, <1>1, <2>0, <2>1, <3>1 DEF CallsInv
  <2>2. CASE StartDaemon(d) \/ TakeUp(d) \/ Remember(d)
    BY <1>0, <1>1, <2>1, <2>2
    DEF StartDaemon, TakeUp, Remember, Goto, At, HostedTypeOK, CallsInv
  <2>3. CASE Die(d) \/ Refuse(d) \/ CutShortFor(d) \/ GiveUp(d) \/ Record(d)
    <3>1. call'[d] = NoCall /\ step'[d] \in {"down", "idle"}
      BY <1>0, <2>3 DEF Die, Refuse, CutShortFor, GiveUp, Record, Ended, Goto, HostedTypeOK
    <3>2. \A c \in adrift' \ adrift : c = call[d] /\ step[d] = "calling"
      BY <2>3 DEF Die, Refuse, CutShortFor, GiveUp, Record, Abandoned, At
    <3> QED
      BY <2>1, <3>1, <3>2
  <2>4. ASSUME NEW k \in Code, AskJoin(d, k) PROVE CallsInv'
    <3>1. call'[d] = [kind |-> "join", code |-> k] /\ step'[d] = "calling" /\ adrift' = adrift
      BY <1>0, <2>4 DEF AskJoin, Asked, Goto, HostedTypeOK
    <3>2. call'[d] \in Call /\ call'[d] # NoCall /\ call'[d].kind = "join"
      BY <3>1, HostingAssumption DEF Call
    <3> QED
      BY <2>1, <3>1, <3>2
  <2>5. CASE AskPublish(d)
    <3>1. /\ call'[d] = [kind |-> "publish", member |-> hosted[d].member, ws |-> hosted[d].ws]
          /\ step'[d] = "calling" /\ adrift' = adrift
      BY <1>0, <2>5 DEF AskPublish, Asked, Goto, HostedTypeOK
    <3>2. /\ hosted[d] \in Session /\ hosted[d].member \in Member /\ hosted[d].ws \in Workspace
      BY <1>0, <2>5, SessionParts DEF AskPublish, Connected, HostedTypeOK
    <3>3. memberOf'[hosted[d].member] = hosted[d].ws
      BY <1>0, <3>2, WorksKept DEF HostedInv, SessionsProper, SessionProper, Works
    <3>4. call'[d] \in Call /\ call'[d] # NoCall /\ call'[d].kind = "publish"
      BY <3>1, <3>2, HostingAssumption DEF Call
    <3>5. call'[d].member = hosted[d].member /\ call'[d].ws = hosted[d].ws
      BY <3>1
    <3> QED
      BY <2>1, <3>1, <3>3, <3>4, <3>5
  <2>6. ASSUME NEW on \in BOOLEAN, SetShare(d, on) PROVE CallsInv'
    <3>1. call'[d] = [kind |-> "share", on |-> on] /\ step'[d] = "saving" /\ adrift' = adrift
      BY <1>0, <2>6 DEF SetShare, Asked, Goto, HostedTypeOK
    <3>2. call'[d] \in Call /\ call'[d] # NoCall /\ call'[d].kind = "share"
      BY <3>1, HostingAssumption DEF Call
    <3> QED
      BY <2>1, <3>1, <3>2
  <2>7. CASE InsertEventFor(d)
    <3>1. step[d] = "served"
      BY <2>7, HostingAssumption DEF InsertEventFor, HostedInv, SenderInv, At
    <3>2. \/ step'[d] = "answered" /\ call'[d] = call[d]
          \/ step'[d] = "idle" /\ call'[d] = NoCall
      BY <1>0, <2>7 DEF InsertEventFor, Ended, Goto, HostedTypeOK
    <3>3. adrift' = adrift
      BY <2>7 DEF InsertEventFor
    <3> QED
      BY <1>0, <1>1, <2>1, <3>1, <3>2, <3>3 DEF CallsInv
  <2>8. CASE Truncate(d) \/ Write(d)
    <3>1. \/ step'[d] \in {"writing", "recording"} /\ call'[d] = call[d]
          \/ step'[d] = "idle" /\ call'[d] = NoCall
      BY <1>0, <2>8 DEF Truncate, Write, Ended, Goto, HostedTypeOK
    <3>2. step[d] \in {"saving", "writing"} /\ adrift' = adrift
      BY <2>8 DEF Truncate, Write, At
    <3> QED
      BY <1>0, <1>1, <2>1, <3>1, <3>2 DEF CallsInv
  <2> QED
    BY <1>3, <2>2, <2>3, <2>4, <2>5, <2>6, <2>7, <2>8 DEF Moves
<1> QED
  BY <1>2, <1>3, SystemSteps

\* A row that tells the truth goes on telling it.
LEMMA RowLasts ==
  ASSUME Grown, NEW r \in HostedRow, RowTruthful(r) PROVE RowTruthful(r)'
<1>1. CASE r.type = "hosted_blip_published"
  <2>1. r.ws \in Workspace
    BY <1>1 DEF HostedRow
  <2> QED
    BY <1>1, <2>1, AnnouncedKept DEF RowTruthful
<1>2. CASE r.type = "hosted_workspace_joined"
  <2>1. r.ws \in Workspace
    BY <1>2 DEF HostedRow
  <2> QED
    BY <1>2, <2>1 DEF RowTruthful, Grown, RowsKept
<1> QED
  BY <1>1, <1>2 DEF RowTruthful

LEMMA RowsTruthfulStep == ASSUME CloudInv, HostedInv, SystemNext PROVE RowsTruthful'
<1>0. Grown /\ HostedTypeOK /\ RowsTruthful
  BY ServiceSteps, ServiceGrows DEF HostedInv
<1>1. \A r \in rows : RowTruthful(r)'
  BY <1>0, RowLasts DEF RowsTruthful, HostedTypeOK
<1>2. CASE rows' = rows
  BY <1>1, <1>2 DEF RowsTruthful
<1>3. ASSUME NEW d \in Daemon, Record(d), rows' # rows PROVE RowsTruthful'
  <2>1. rows' = rows \cup {RowOf(d)} /\ UNCHANGED cloudVars
    BY <1>3 DEF Record
  <2>2. RowOf(d) \in HostedRow
    BY <1>3, RowType
  <2>3. /\ step[d] \in {"recording", "answered"} /\ call[d] # NoCall /\ call[d] \in Call
    BY <1>0, <1>3 DEF Record, At, HostedInv, CallsInv, HostedTypeOK
  <2>4. RowTruthful(RowOf(d))
    <3>1. CASE call[d].kind = "join"
      <4>1. reply[d].item \in Member /\ memberOf[reply[d].item] = reply[d].ws
        BY <2>3, <3>1 DEF HostedInv, AnswersInv, Works
      <4> QED
        BY <3>1, <4>1 DEF RowOf, RowTruthful
    <3>2. CASE call[d].kind = "publish"
      <4>1. Announced(reply[d].item, call[d].ws, reply[d].number)
        BY <2>3, <3>2 DEF HostedInv, AnswersInv
      <4> QED
        BY <3>2, <4>1 DEF RowOf, RowTruthful
    <3>3. CASE call[d].kind = "share"
      BY <3>3 DEF RowOf, RowTruthful
    <3> QED
      BY <2>3, <3>1, <3>2, <3>3, CallParts
  <2>5. ASSUME NEW r, r \in HostedRow, RowTruthful(r) PROVE RowTruthful(r)'
    BY <1>0, <2>5, RowLasts
  <2>6. \A r \in rows' : r \in HostedRow /\ RowTruthful(r)
    BY <1>0, <2>1, <2>2, <2>4 DEF RowsTruthful, HostedTypeOK
  <2> QED
    BY <2>5, <2>6 DEF RowsTruthful
<1>4. rows' = rows \/ \E d \in Daemon : Record(d) /\ rows' # rows
  BY SystemSteps
  DEF Quiet, daemonVars, TakeUpLate, Moves, StartDaemon, Die, AskJoin, AskPublish, SetShare, TakeUp,
      Refuse, InsertEventFor, CutShortFor, GiveUp, Remember, Truncate, Write, device
<1> QED
  BY <1>2, <1>3, <1>4

\* What can happen while the service works on the request of a daemon.
LEMMA WhileServed ==
  ASSUME HostedInv, CloudInv, SystemNext, sender # Other, sender' # Other
  PROVE  /\ sender' = sender /\ sender \in Daemon
         /\ step'[sender] = step[sender] /\ call'[sender] = call[sender]
         /\ InsertMember \/ InsertSession \/ TakeNumber \/ Tick \/ UNCHANGED vars
<1>0. /\ sender \in Daemon /\ pc # "idle" /\ step[sender] = "served" /\ HostedTypeOK
      /\ call[sender] \in Call
  BY DEF HostedInv, HostedTypeOK, SenderInv, CallsInv, At
<1>1. CASE Quiet
  <2>1. ~Handle /\ ~Query
    BY <1>0 DEF Handle, Query, ListWorkspaces, ReadAs, RefuseJoin, CreateWorkspace, CreateJoinCode, JoinWorkspace, PublishBlip,
       UpdateBlipTags, RecordAccess, Begin
  <2>2. sender' = sender /\ step' = step /\ call' = call
    BY <1>1 DEF Quiet, daemonVars
  <2>3. ServiceStep \/ WebStep \/ (\E d \in Daemon : Moves(d)) \/ \E c \in adrift : TakeUpLate(c)
    BY DEF SystemNext, HostedNext, DaemonStep, Moves
  <2>4. ASSUME NEW d \in Daemon, Moves(d) PROVE UNCHANGED vars
    <3>1. ~InsertEventFor(d) /\ ~CutShortFor(d) /\ ~TakeUp(d)
      BY <1>0, <1>1, HostingAssumption DEF Quiet, daemonVars, InsertEventFor, CutShortFor, TakeUp,
         Serves, JoinWorkspace, PublishBlip, Begin
    <3> QED
      BY <2>4, <3>1 DEF Moves, StartDaemon, Die, AskJoin, AskPublish, SetShare, Refuse, GiveUp,
         Remember, Truncate, Write, Record, cloudVars
  <2>5. ASSUME NEW c \in adrift, TakeUpLate(c) PROVE FALSE
    BY <1>0, <2>5 DEF TakeUpLate, Serves, JoinWorkspace, PublishBlip, Begin
  <2>6. CASE WebStep
    BY <1>0, <2>2, <2>6 DEF WebStep, ClickJoin, Joined, LoseJoin, Poll, SignOut, Reload, AnswerPoll,
       Deliver, LosePoll
  <2>7. CASE ServiceStep
    BY <1>0, <2>1, <2>2, <2>7 DEF ServiceStep
  <2> QED
    BY <1>0, <2>2, <2>3, <2>4, <2>5, <2>6, <2>7
<1>2. ASSUME NEW d \in Daemon, Moves(d)
      PROVE  /\ sender' = sender /\ UNCHANGED vars
             /\ step'[sender] = step[sender] /\ call'[sender] = call[sender]
  <2>1. ~InsertEventFor(d) /\ ~CutShortFor(d) /\ ~TakeUp(d)
    BY <1>0, HostingAssumption DEF InsertEventFor, CutShortFor, TakeUp,
       Serves, JoinWorkspace, PublishBlip, Begin
  <2>2. sender' = sender /\ UNCHANGED vars
    BY <1>2, <2>1 DEF Moves, StartDaemon, Die, AskJoin, AskPublish, SetShare, Refuse, GiveUp,
       Remember, Truncate, Write, Record, cloudVars, Abandoned
  <2>3. CASE d = sender
    BY <1>0, <1>2, <2>1, <2>3, HostingAssumption
    DEF Moves, StartDaemon, Die, AskJoin, AskPublish, SetShare, Asked, Refuse, GiveUp,
       Remember, Truncate, Write, Record, Abandoned, At
  <2>4. CASE d # sender
    BY <1>0, <1>2, <2>2, <2>4, OthersStay
  <2> QED
    BY <2>2, <2>3, <2>4
<1>3. ASSUME NEW c \in adrift, TakeUpLate(c) PROVE FALSE
  BY <1>0, <1>3 DEF TakeUpLate, Serves, JoinWorkspace, PublishBlip, Begin
<1> QED
  BY <1>0, <1>1, <1>2, <1>3, SystemSteps

LEMMA SenderStep == ASSUME CloudInv, HostedInv, SystemNext PROVE SenderInv'
<1>0. HostedTypeOK /\ SenderInv /\ CloudInv
  BY DEF HostedInv
<1>1. CASE sender' = Other
  BY <1>1 DEF SenderInv
<1>2. CASE sender # Other /\ sender' # Other
  <2> DEFINE c == call[sender]
             r == request
  <2>1. /\ sender' = sender /\ sender \in Daemon
        /\ step'[sender] = step[sender] /\ call'[sender] = call[sender]
        /\ InsertMember \/ InsertSession \/ TakeNumber \/ Tick \/ UNCHANGED vars
    BY <1>2, WhileServed
  <2>2. /\ pc # "idle" /\ step[sender] = "served"
        /\ c.kind = "join" => r.change.type = "member_joined" /\ r.change.target = r.change.actor
        /\ c.kind = "publish" =>
             /\ r.change.type = "blip_published" /\ r.ws = c.ws /\ r.change.target \in HostedBlip
             /\ pc \in {"number", "announce"} /\ blips[r.change.target] # NoBlip
             /\ blips[r.change.target].ws = r.ws
             /\ blips[r.change.target].sequence =
                  lastSequence[r.ws] + (IF pc = "number" THEN 1 ELSE 0)
    BY <1>2 DEF HostedInv, SenderInv, At
  <2>3. request' = request /\ blips' = blips
    BY <2>1 DEF InsertMember, InsertSession, TakeNumber, Tick, vars, tables
  <2>4. pc' # "idle"
    BY <2>1, <2>2 DEF InsertMember, InsertSession, TakeNumber, Tick, vars, tables
  <2>5. ASSUME c.kind = "publish"
        PROVE  /\ pc' \in {"number", "announce"}
               /\ blips[r.change.target].sequence =
                    lastSequence'[r.ws] + (IF pc' = "number" THEN 1 ELSE 0)
    <3>1. CASE TakeNumber
      <4>1. r.ws \in Workspace /\ lastSequence[r.ws] \in Nat
        BY <2>2 DEF CloudInv, TypeOK, RequestInv, Absent
      <4>2. pc = "number" /\ pc' = "announce" /\ lastSequence'[r.ws] = lastSequence[r.ws] + 1
        BY <3>1, <4>1 DEF TakeNumber, CloudInv, TypeOK
      <4> QED
        BY <2>2, <2>5, <4>1, <4>2
    <3>2. CASE Tick \/ UNCHANGED vars
      BY <2>2, <2>5, <3>2 DEF Tick, vars, tables
    <3> QED
      BY <2>1, <2>2, <2>5, <3>1, <3>2 DEF InsertMember, InsertSession
  <2> QED
    BY <2>1, <2>2, <2>3, <2>4, <2>5 DEF SenderInv, At
<1>3. CASE sender = Other /\ sender' # Other
  <2>1. PICK d \in Daemon : TakeUp(d)
    BY <1>3, SystemSteps
    DEF Quiet, daemonVars, TakeUpLate, Moves, StartDaemon, Die, AskJoin, AskPublish, SetShare,
        Refuse, InsertEventFor, CutShortFor, GiveUp, Remember, Truncate, Write, Record, Abandoned
  <2>2. sender' = d /\ step'[d] = "served" /\ call' = call /\ call[d] \in Call
    BY <1>0, <2>1 DEF TakeUp, Goto, At, HostedTypeOK, HostedInv, CallsInv
  <2>3. ASSUME call[d].kind = "join", NEW m \in Member, JoinWorkspace(call[d].code, m)
        PROVE  SenderInv'
    <3>1. pc' = "member" /\ request'.change.type = "member_joined"
          /\ request'.change.target = m /\ request'.change.actor = m
      BY <2>3 DEF JoinWorkspace, Begin
    <3> QED
      BY <2>2, <2>3, <3>1 DEF SenderInv, At
  <2>4. ASSUME call[d].kind = "publish", NEW b \in HostedBlip, NEW t \in Tags,
               PublishBlip(call[d].member, b, t)
        PROVE  SenderInv'
    <3> DEFINE w == memberOf[call[d].member]
    <3>1. w = call[d].ws /\ w \in Workspace /\ lastSequence[w] \in Nat
      BY <1>0, <2>2, <2>4, CallParts, MemberHasWorkspace, HostingAssumption
      DEF HostedInv, CallsInv, PublishBlip
    <3>2. /\ pc' = "number" /\ request'.ws = w /\ request'.change.type = "blip_published"
          /\ request'.change.target = b /\ lastSequence' = lastSequence
      BY <2>4 DEF PublishBlip, Begin
    <3>3. blips'[b] = [ws |-> w, publisher |-> call[d].member, tags |-> t,
                       sequence |-> lastSequence[w] + 1]
      BY <1>0, <2>4 DEF PublishBlip, CloudInv, TypeOK
    <3>4. blips'[b] # NoBlip
      BY <2>2, <2>4, <3>1, <3>3, CallParts, NullAssumption DEF BlipRow
    <3>5. blips'[b].ws = w /\ blips'[b].sequence = lastSequence[w] + 1
      BY <3>3
    <3> QED
      BY <2>2, <2>4, <3>1, <3>2, <3>4, <3>5 DEF SenderInv, At
  <2> QED
    BY <2>1, <2>3, <2>4 DEF TakeUp, Serves
<1> QED
  BY <1>1, <1>2, <1>3

\* What AnswersInv says of one daemon, of the next state.
Answered(c, r) ==
  /\ c.kind = "join" => /\ r \in Reply /\ r.item \in Member
                        /\ r.item \in credentials' /\ memberOf'[r.item] = r.ws
  /\ c.kind = "publish" => /\ r \in Reply /\ r.item \in HostedBlip
                           /\ blips'[r.item] # NoBlip /\ blips'[r.item].ws = c.ws
                           /\ r.number \in DOMAIN events'[c.ws]
                           /\ events'[c.ws][r.number].type = "blip_published"
                           /\ events'[c.ws][r.number].target = r.item

LEMMA AnswerLasts ==
  ASSUME Grown, NEW c \in Call, NEW r,
         c.kind = "join" => r \in Reply /\ r.item \in Member /\ Works(r.item, r.ws),
         c.kind = "publish" => r \in Reply /\ Announced(r.item, c.ws, r.number)
  PROVE  Answered(c, r)
<1>1. CASE c.kind = "join"
  <2>1. r.ws \in Workspace
    BY <1>1 DEF Reply
  <2> QED
    BY <1>1, <2>1, WorksKept DEF Answered, Works
<1>2. CASE c.kind = "publish"
  BY <1>2, CallParts, AnnouncedKept DEF Answered, Announced
<1> QED
  BY <1>1, <1>2 DEF Answered

LEMMA AnswersStep == ASSUME CloudInv, HostedInv, SystemNext PROVE AnswersInv'
<1>0. Grown /\ HostedTypeOK /\ CallsInv /\ HostedTypeOK'
  BY ServiceSteps, ServiceGrows, HostedTypeStep DEF HostedInv
<1> DEFINE Late == {"answered", "saving", "writing", "recording"}
<1>1. \A d \in Daemon : step[d] \in Late => Answered(call[d], reply[d])
  <2> SUFFICES ASSUME NEW d \in Daemon, step[d] \in Late PROVE Answered(call[d], reply[d])
    OBVIOUS
  <2>1. call[d] \in Call
    BY <1>0 DEF CallsInv, HostedTypeOK
  <2>2. /\ call[d].kind = "join" => /\ reply[d] \in Reply /\ reply[d].item \in Member
                                    /\ Works(reply[d].item, reply[d].ws)
        /\ call[d].kind = "publish" =>
             reply[d] \in Reply /\ Announced(reply[d].item, call[d].ws, reply[d].number)
    BY DEF HostedInv, AnswersInv
  <2> QED
    BY <1>0, <2>1, <2>2, AnswerLasts
<1>2. ASSUME \A d \in Daemon : step'[d] \in Late => Answered(call'[d], reply'[d])
      PROVE  AnswersInv'
  BY <1>2 DEF AnswersInv, Answered, Works, Announced
<1>3. CASE Quiet \/ \E c \in adrift : TakeUpLate(c)
  <2>1. step' = step /\ call' = call /\ reply' = reply
    BY <1>3 DEF Quiet, daemonVars, TakeUpLate, thread
  <2> QED
    BY <1>1, <1>2, <2>1
<1>4. ASSUME NEW d \in Daemon, Moves(d) PROVE AnswersInv'
  <2>0. \A e \in Daemon : e # d => /\ step'[e] = step[e] /\ call'[e] = call[e]
                                   /\ reply'[e] = reply[e]
    BY <1>0, <1>4, OthersStay
  <2>1. ASSUME step'[d] \in Late => Answered(call'[d], reply'[d]) PROVE AnswersInv'
    BY <1>1, <1>2, <2>0, <2>1
  <2>2. CASE StartDaemon(d) \/ Die(d) \/ (\E k \in Code : AskJoin(d, k)) \/ AskPublish(d)
             \/ TakeUp(d) \/ Refuse(d) \/ CutShortFor(d) \/ GiveUp(d) \/ Record(d)
    <3>1. step'[d] \in {"idle", "down", "calling", "served"}
      BY <1>0, <2>2 DEF StartDaemon, Die, AskJoin, AskPublish, Asked, TakeUp, Refuse, CutShortFor,
         GiveUp, Record, Ended, Goto, HostedTypeOK
    <3> QED
      BY <2>1, <3>1
  <2>3. ASSUME NEW on \in BOOLEAN, SetShare(d, on) PROVE AnswersInv'
    <3>1. call'[d].kind = "share"
      BY <1>0, <2>3 DEF SetShare, Asked, HostedTypeOK
    <3> QED
      BY <2>1, <3>1 DEF Answered
  <2>4. CASE Remember(d) \/ Truncate(d) \/ Write(d)
    <3>1. step[d] \in Late
      BY <2>4 DEF Remember, Truncate, Write, At
    <3>2. \/ call' = call /\ reply' = reply
          \/ step'[d] = "idle"
      BY <1>0, <2>4 DEF Remember, Truncate, Write, Ended, Goto, HostedTypeOK
    <3> QED
      BY <1>1, <2>1, <3>1, <3>2
  <2>5. CASE InsertEventFor(d)
    <3>1. sender = d /\ sender # Other /\ InsertEvent
      BY <2>5, HostingAssumption DEF InsertEventFor
    <3>2. call[d] \in Call /\ call[d].kind \in {"join", "publish"}
      BY <1>0, <3>1 DEF HostedInv, SenderInv, CallsInv, HostedTypeOK, At
    <3>3. /\ Answer \in Reply /\ Answer.ws = request.ws
          /\ call[d].kind = "join" => /\ Answer.item = request.change.actor /\ Answer.item \in Member
                                      /\ memberOf[Answer.item] = Answer.ws
      BY <3>1, <3>2, AnswerType
    <3>4. CASE step'[d] # "answered"
      <4>1. step'[d] = "idle"
        BY <1>0, <2>5, <3>4 DEF InsertEventFor, Ended, Goto, HostedTypeOK
      <4> QED
        BY <2>1, <4>1
    <3>5. CASE step'[d] = "answered"
      <4>1. /\ request.change.type = "member_joined" => request.change.actor \in credentials'
            /\ reply'[d] = Answer /\ call' = call
        BY <1>0, <2>5, <3>5 DEF InsertEventFor, Ended, Goto, HostedTypeOK
      <4>2. CASE call[d].kind = "join"
        <5>1. request.change.type = "member_joined"
          BY <3>1, <4>2 DEF HostedInv, SenderInv
        <5>2. memberOf' = memberOf
          BY <3>1 DEF InsertEvent
        <5> QED
          BY <2>1, <3>3, <4>1, <4>2, <5>1, <5>2 DEF Answered
      <4>3. CASE call[d].kind = "publish"
        <5> DEFINE b == request.change.target
                   w == request.ws
        <5>1. /\ request.change.type = "blip_published" /\ w = call[d].ws /\ b \in HostedBlip
              /\ blips[b] # NoBlip /\ blips[b].ws = w
              /\ blips[b].sequence = lastSequence[w] + (IF pc = "number" THEN 1 ELSE 0)
          BY <3>1, <4>3 DEF HostedInv, SenderInv
        <5>2. pc = "announce" /\ blips' = blips
          BY <3>1 DEF InsertEvent
        <5>3. lastSequence[w] \in Nat
          BY <3>1, EventAdded
        <5>4. blips[b].sequence = lastSequence[w]
          BY <5>1, <5>2, <5>3
        <5>5. lastSequence[w] \in DOMAIN events'[w] /\ events'[w][lastSequence[w]] = request.change
          BY <3>1, EventAdded
        <5>6. Answer.item = b /\ Answer.number = lastSequence[w]
          BY <5>1, <5>4 DEF Answer
        <5> QED
          BY <2>1, <3>3, <4>1, <4>3, <5>1, <5>2, <5>5, <5>6 DEF Answered
      <4> QED
        BY <3>2, <4>2, <4>3
    <3> QED
      BY <3>4, <3>5
  <2> QED
    BY <1>4, <2>2, <2>3, <2>4, <2>5 DEF Moves
<1> QED
  BY <1>3, <1>4, SystemSteps

-----------------------------------------------------------------------------
(* The web client *)

LEMMA FreshStep == ASSUME CloudInv, FreshInv, [Next]_vars PROVE FreshInv'
<1>1. ASSUME NEW k \in Code, NEW m \in Member, JoinWorkspace(k, m) PROVE FreshInv'
  <2>1. request'.change.actor = m /\ events' = events /\ memberOf[m] = NoWorkspace
    BY <1>1 DEF JoinWorkspace, Begin
  <2>2. \A w \in Workspace : \A i \in DOMAIN events[w] : events[w][i].actor # m
    BY <2>1, NullAssumption DEF CloudInv, FeedStaysInWorkspace, Proper
  <2> QED
    BY <2>1, <2>2 DEF FreshInv
<1>2. CASE InsertMember \/ InsertSession \/ TakeNumber \/ Tick \/ Aside \/ UNCHANGED vars
  <2>1. request' = request /\ events' = events /\ (pc' # "idle" => pc # "idle")
    BY <1>2, AsideKeeps DEF InsertMember, InsertSession, TakeNumber, Tick, vars, tables
  <2> QED
    BY <2>1 DEF FreshInv
<1>3. CASE InsertEvent \/ CutShort
  BY <1>3 DEF InsertEvent, CutShort, FreshInv
<1>4. CASE \/ \E w \in Workspace, m \in Member : CreateWorkspace(w, m)
           \/ \E m \in Member, k \in Code, r \in Role, uses \in 1..MaxUses :
                CreateJoinCode(m, k, r, uses)
           \/ \E m \in Member, b \in HostedBlip, t \in Tags : PublishBlip(m, b, t)
           \/ \E m \in Member, b \in HostedBlip, t \in Tags : UpdateBlipTags(m, b, t)
           \/ \E m \in Member, b \in HostedBlip : RecordAccess(m, b)
  BY <1>4 DEF CreateWorkspace, CreateJoinCode, PublishBlip, UpdateBlipTags, RecordAccess, Begin,
     FreshInv
<1> QED
  BY <1>1, <1>2, <1>3, <1>4, Steps

\* What a session needs to satisfy TabInv in the next state.
TabLasting(s) ==
  /\ s.cursor \in DOMAIN events'[s.ws]
  /\ \A j, i \in DOMAIN events'[s.ws] :
       /\ events'[s.ws][j].type = "member_joined" /\ events'[s.ws][j].actor = s.member
       /\ j < i /\ i <= s.cursor
       => <<s.member, i>> \in delivered'

LEMMA TabLasts ==
  ASSUME CloudInv, CloudInv', Grown, delivered \subseteq delivered', NEW s \in TabSession, TabInv(s)
  PROVE  TabLasting(s)
<1> DEFINE w == s.ws
<1>1. w \in Workspace /\ s.cursor \in DOMAIN events[w]
  BY DEF TabSession, TabInv
<1>2. \A i \in DOMAIN events[w] : i \in DOMAIN events'[w] /\ events'[w][i] = events[w][i]
  BY <1>1 DEF Grown
<1>3. \A i \in DOMAIN events'[w] : i \in Nat /\ (i \notin DOMAIN events[w] => s.cursor < i)
  BY <1>1 DEF Grown, CloudInv, NumbersInv
<1>4. s.cursor \in Nat
  BY DEF TabSession
<1>5. ASSUME NEW j \in DOMAIN events'[w], NEW i \in DOMAIN events'[w],
             events'[w][j].type = "member_joined", events'[w][j].actor = s.member,
             j < i, i <= s.cursor
      PROVE  <<s.member, i>> \in delivered'
  <2>1. i \in DOMAIN events[w] /\ j \in DOMAIN events[w]
    BY <1>3, <1>4, <1>5
  <2>2. JoinEvent(s, j)
    BY <1>2, <1>5, <2>1 DEF JoinEvent
  <2> QED
    BY <1>5, <2>1, <2>2 DEF TabInv, SeenUpTo
<1> QED
  BY <1>1, <1>2, <1>5 DEF TabLasting

\* An answer has all events up to its last, however the feed has grown since.
Whole(p) ==
  p.events # Unanswered =>
    /\ p.events \subseteq EventsAfter(p.session)
    /\ \A i \in EventsAfter(p.session) : \A j \in p.events : i <= j => i \in p.events
WholeLater(p) ==
  p.events # Unanswered =>
    /\ \A i \in p.events : i \in DOMAIN events'[p.session.ws] /\ i > p.session.cursor
    /\ \A i \in DOMAIN events'[p.session.ws] : i > p.session.cursor =>
         \A j \in p.events : i <= j => i \in p.events

LEMMA WholeLasts ==
  ASSUME CloudInv, CloudInv', Grown, NEW p, p.session \in TabSession, Whole(p)
  PROVE  WholeLater(p)
<1> SUFFICES ASSUME p.events # Unanswered PROVE WholeLater(p)
  BY DEF WholeLater
<1> DEFINE w == p.session.ws
<1>1. w \in Workspace
  BY DEF TabSession
<1>2. /\ \A i \in DOMAIN events[w] : i \in DOMAIN events'[w]
      /\ \A i \in DOMAIN events'[w] : i \in Nat /\ (i \notin DOMAIN events[w] =>
                                                      \A j \in DOMAIN events[w] : j < i)
      /\ \A i \in DOMAIN events[w] : i \in Nat
  BY <1>1 DEF Grown, CloudInv, NumbersInv
<1>3. \A i \in p.events : i \in DOMAIN events[w] /\ i > p.session.cursor
  BY DEF Whole, EventsAfter
<1>4. ASSUME NEW i \in DOMAIN events'[w], i > p.session.cursor, NEW j \in p.events, i <= j
      PROVE  i \in p.events
  <2>1. i \in DOMAIN events[w]
    BY <1>2, <1>3, <1>4
  <2> QED
    BY <1>4, <2>1 DEF Whole, EventsAfter
<1> QED
  BY <1>2, <1>3, <1>4 DEF WholeLater

LEMMA WebStepKeeps ==
  ASSUME CloudInv, HostedInv, FreshInv, WebInv, SystemNext PROVE WebInv'
<1>0. Grown /\ CloudInv'
  BY ServiceSteps, ServiceGrows DEF HostedInv
<1>1. ASSUME NEW s, s \in TabSession, TabInv(s), delivered \subseteq delivered' PROVE TabLasting(s)
  BY <1>0, <1>1, TabLasts
<1>2. ASSUME NEW p \in polls PROVE p.session \in TabSession /\ TabInv(p.session) /\ WholeLater(p)
  <2>1. p.session \in TabSession /\ TabInv(p.session) /\ Whole(p)
    BY DEF WebInv, Whole
  <2> QED
    BY <1>0, <2>1, WholeLasts
<1>3. ASSUME session' # NoTab => session' \in TabSession /\ TabLasting(session'),
             \A j \in joins' \ {Unanswered} : j \in TabSession /\ TabLasting(j),
             \A p \in polls' : p.session \in TabSession /\ TabLasting(p.session) /\ WholeLater(p)
      PROVE  WebInv'
  BY <1>3 DEF WebInv, TabInv, SeenUpTo, JoinEvent, EventsAfter, TabLasting, WholeLater
<1>4. delivered \subseteq delivered'
  BY DEF SystemNext, webVars, WebStep, WebJoin, ClickJoin, Joined, LoseJoin, Poll, SignOut, Reload,
     AnswerPoll, Deliver, LosePoll
<1>5. \A p \in polls : p.session \in TabSession /\ TabLasting(p.session) /\ WholeLater(p)
  BY <1>1, <1>2, <1>4
<1>6. /\ session # NoTab => session \in TabSession /\ TabLasting(session)
      /\ \A j \in joins \ {Unanswered} : j \in TabSession /\ TabLasting(j)
  BY <1>1, <1>4 DEF WebInv
<1>7. CASE UNCHANGED webVars
  BY <1>3, <1>5, <1>6, <1>7 DEF webVars
<1>8. CASE WebJoin
  <2> DEFINE w == request.ws
             m == request.change.actor
             n == lastSequence[w]
             new == [member |-> m, ws |-> w, cursor |-> n]
  <2>1. /\ session' = session /\ polls' = polls /\ joins' \subseteq joins \cup {new}
        /\ request.change.type = "member_joined" /\ pc = "announce" /\ InsertEvent
    BY <1>8 DEF WebJoin, InsertEvent
  <2>2. /\ w \in Workspace /\ n \in Nat /\ n \notin DOMAIN events[w]
        /\ DOMAIN events'[w] = DOMAIN events[w] \cup {n}
        /\ \A i \in DOMAIN events[w] : events'[w][i] = events[w][i]
    BY <2>1, EventAdded
  <2>3. m \in Member
    BY <2>1 DEF CloudInv, RequestInv, Change
  <2>4. new \in TabSession
    BY <2>1, <2>2, <2>3 DEF TabSession
  <2>5. \A i \in DOMAIN events[w] : events'[w][i].actor # m
    BY <2>1, <2>2 DEF FreshInv
  <2>6. \A i \in DOMAIN events[w] : i \in Nat /\ i < n
    BY <2>1, <2>2, EventAdded DEF CloudInv, NumbersInv
  <2>7. \A j, i \in DOMAIN events'[w] : events'[w][j].actor = m /\ j < i => n < i
    BY <2>2, <2>5, <2>6
  <2>8. new.member = m /\ new.ws = w /\ new.cursor = n
    OBVIOUS
  <2>9. \A i \in DOMAIN events'[w] : i \in Nat
    BY <2>2, <2>6
  <2>10. TabLasting(new)
    BY <2>2, <2>7, <2>8, <2>9 DEF TabLasting
  <2> QED
    BY <1>3, <1>5, <1>6, <2>1, <2>4, <2>10
<1>9. CASE Poll
  <2>1. /\ session' = session /\ session # NoTab /\ joins' = joins
        /\ polls' = polls \cup {[session |-> session, events |-> Unanswered]}
    BY <1>9 DEF Poll
  <2>2. WholeLater([session |-> session, events |-> Unanswered])
    BY DEF WholeLater
  <2> QED
    BY <1>3, <1>5, <1>6, <2>1, <2>2
<1>10. CASE \/ ClickJoin \/ SignOut \/ Reload \/ (\E j \in joins : Joined(j) \/ LoseJoin(j))
            \/ \E p \in polls : LosePoll(p)
  BY <1>3, <1>5, <1>6, <1>10 DEF ClickJoin, Joined, LoseJoin, SignOut, Reload, LosePoll
<1>11. ASSUME NEW p \in polls, AnswerPoll(p) PROVE WebInv'
  <2> DEFINE q == [p EXCEPT !.events = EventsAfter(p.session)]
  <2>1. polls' = (polls \ {p}) \cup {q} /\ session' = session /\ joins' = joins /\ events' = events
    BY <1>11 DEF AnswerPoll, vars, tables
  <2>2. WholeLater(q) /\ q.session = p.session
    <3>1. q.session = p.session
      OBVIOUS
    <3>2. q.events = EventsAfter(p.session) \/ q.events = p.events
      OBVIOUS
    <3>3. WholeLater(p)
      BY <1>5
    <3> QED
      BY <2>1, <3>1, <3>2, <3>3 DEF WholeLater, EventsAfter
  <2> QED
    BY <1>3, <1>5, <1>6, <2>1, <2>2
<1>12. ASSUME NEW p \in polls, Deliver(p) PROVE WebInv'
  <2> DEFINE s == p.session
             w == s.ws
  <2>1. /\ polls' \subseteq polls /\ joins' = joins /\ events' = events /\ p.events # Unanswered
        /\ delivered' = delivered \cup ({s.member} \X p.events)
        /\ \/ session' = session
           \/ \E n \in p.events : session' = [s EXCEPT !.cursor = n]
    BY <1>12 DEF Deliver, vars, tables
  <2>2. CASE session' = session
    BY <1>3, <1>5, <1>6, <2>1, <2>2
  <2>3. ASSUME NEW n \in p.events, session' = [s EXCEPT !.cursor = n] PROVE WebInv'
    <3>1. s \in TabSession /\ WholeLater(p) /\ TabLasting(s)
      BY <1>5
    <3>2. w \in Workspace /\ s.member \in Member /\ s.cursor \in Nat
      BY <3>1 DEF TabSession
    <3>3. n \in DOMAIN events'[w] /\ \A i \in DOMAIN events'[w] : i \in Nat
      BY <1>0, <2>1, <2>3, <3>1, <3>2 DEF WholeLater, CloudInv, NumbersInv
    <3>4. session' = [member |-> s.member, ws |-> w, cursor |-> n]
      BY <2>3, <3>1 DEF TabSession
    <3>5. session' \in TabSession
      BY <3>2, <3>3, <3>4 DEF TabSession
    <3>6. session'.member = s.member /\ session'.ws = w /\ session'.cursor = n
      BY <3>4
    <3>7. ASSUME NEW j \in DOMAIN events'[w], NEW i \in DOMAIN events'[w],
                 events'[w][j].type = "member_joined", events'[w][j].actor = s.member,
                 j < i, i <= n
          PROVE  <<s.member, i>> \in delivered'
      <4>1. CASE i <= s.cursor
        BY <3>1, <3>7, <4>1 DEF TabLasting
      <4>2. CASE i > s.cursor
        BY <2>1, <2>3, <3>1, <3>7, <4>2 DEF WholeLater
      <4> QED
        BY <3>2, <3>3, <4>1, <4>2
    <3>8. TabLasting(session')
      BY <3>3, <3>6, <3>7 DEF TabLasting
    <3> QED
      BY <1>3, <1>5, <1>6, <2>1, <3>5, <3>8
  <2> QED
    BY <2>1, <2>2, <2>3
<1> QED
  BY <1>7, <1>8, <1>9, <1>10, <1>11, <1>12 DEF SystemNext, WebStep

-----------------------------------------------------------------------------
(* The theorems *)

LEMMA SystemInitial == SystemInit => CloudInv /\ SystemInv
<1> SUFFICES ASSUME SystemInit PROVE CloudInv /\ SystemInv
  OBVIOUS
<1>1. CloudInv
  BY TypeInit DEF SystemInit, HostedInit
<1>2. HostedTypeOK
  BY DEF SystemInit, HostedInit, HostedTypeOK, Sessions, Step
<1>3. SessionsProper /\ SessionKept /\ RowsTruthful
  BY HostingAssumption
  DEF SystemInit, HostedInit, SessionsProper, SessionProper, SessionKept, RowsTruthful
<1>4. SavesInv /\ CallsInv /\ SenderInv /\ AnswersInv
  BY HostingAssumption DEF SystemInit, HostedInit, SavesInv, CallsInv, SenderInv, AnswersInv, At
<1>5. FreshInv /\ WebInv
  BY DEF SystemInit, HostedInit, Init, WebInit, FreshInv, WebInv
<1> QED
  BY <1>1, <1>2, <1>3, <1>4, <1>5 DEF SystemInv, HostedInv

LEMMA SystemStep ==
  ASSUME CloudInv, SystemInv, [SystemNext]_everything
  PROVE  CloudInv' /\ SystemInv' /\ [Next]_vars
<1>1. CASE SystemNext
  <2>1. [Next]_vars /\ CloudInv'
    BY <1>1, ServiceSteps, ServiceGrows DEF SystemInv, HostedInv
  <2>2. HostedInv'
    BY <1>1, HostedTypeStep, SessionsStep, SavesStep, CallsStep, RowsTruthfulStep, SenderStep,
       AnswersStep DEF SystemInv, HostedInv
  <2> QED
    BY <1>1, <2>1, <2>2, FreshStep, WebStepKeeps DEF SystemInv
<1>2. CASE UNCHANGED everything
  <2>1. UNCHANGED vars /\ UNCHANGED daemonVars /\ UNCHANGED webVars
    BY <1>2 DEF everything, allVars, cloudVars
  <2>2. CloudInv'
    BY <2>1, ServiceGrows
  <2>3. HostedTypeOK' /\ SessionsProper' /\ SessionKept' /\ SavesInv' /\ RowsTruthful'
    BY <2>1 DEF SystemInv, HostedInv, daemonVars, vars, tables, HostedTypeOK, SessionsProper,
       SessionProper, Works, SessionKept, SavesInv, At, RowsTruthful, RowTruthful, Announced
  <2>4. CallsInv' /\ SenderInv' /\ AnswersInv'
    BY <2>1 DEF SystemInv, HostedInv, daemonVars, vars, tables, CallsInv, SenderInv, AnswersInv,
       At, Works, Announced
  <2>5. FreshInv' /\ WebInv'
    BY <2>1 DEF SystemInv, FreshInv, WebInv, webVars, vars, tables, TabInv, SeenUpTo, JoinEvent,
       EventsAfter
  <2> QED
    BY <2>1, <2>2, <2>3, <2>4, <2>5 DEF SystemInv, HostedInv
<1> QED
  BY <1>1, <1>2

LEMMA SystemBoth == SystemSpec => [](CloudInv /\ SystemInv)
<1>1. CloudInv /\ SystemInv /\ [SystemNext]_everything => (CloudInv /\ SystemInv)'
  BY SystemStep
<1> QED
  BY <1>1, SystemInitial, PTL DEF SystemSpec

\* Daemons and a web client use the service as any client does: what was proved
\* of CloudService holds of the composition.
THEOREM ImplementsService == SystemSpec => Spec
<1>1. SystemInit => Init
  BY DEF SystemInit, HostedInit
<1>2. CloudInv /\ SystemInv /\ [SystemNext]_everything => [Next]_vars
  BY SystemStep
<1> QED
  BY <1>1, <1>2, SystemBoth, PTL DEF SystemSpec, Spec

\* Sessions work and are shared only where the user said so, a confirmed one is
\* in the file, and what the service works on is what the daemon waits for.
THEOREM SystemInvariant == SystemSpec => []SystemInv
  BY SystemBoth, PTL

\* The device's log never claims a publish or a join that did not happen.
THEOREM RowsCorrect == SystemSpec => []RowsTruthful
<1>1. SystemInv => RowsTruthful
  BY DEF SystemInv, HostedInv
<1> QED
  BY <1>1, SystemBoth, PTL

\* The web client hands every event since its join to the page before its cursor
\* passes it.
THEOREM NoEventSkipped == SystemSpec => []NothingSkipped
<1>1. SystemInv => NothingSkipped
  BY DEF SystemInv, WebInv, TabInv, NothingSkipped
<1> QED
  BY <1>1, SystemBoth, PTL
=============================================================================
