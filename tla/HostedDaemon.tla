----------------------------- MODULE HostedDaemon -----------------------------
(***************************************************************************)
(* The daemon's side of hosting (join_hosted_workspace, publish_hosted_blip *)
(* and set_hosted_sticky_share of blip-daemon) composed with the service.   *)
(*                                                                          *)
(* A daemon keeps its session in memory, loads it from config.toml when it  *)
(* starts and writes the whole file back after a change.  A join or publish *)
(* is one HTTP call to the service, which handles it statement by statement *)
(* (CloudService) while the daemon waits: the answer can be an error, it    *)
(* can be lost, and the daemon can give up or die first, in which case the  *)
(* service may still take up the request later.  After the answer the       *)
(* daemon changes its memory, rewrites the file, which truncates it first,  *)
(* and appends a row to the local audit log, and each of these can fail.    *)
(*                                                                          *)
(* Several daemons may run on one configuration (blipd --ipc-only beside a  *)
(* service, or the race of IpcSocket).  Everybody else who uses the service *)
(* is an action of CloudService.                                            *)
(***************************************************************************)
EXTENDS CloudService

CONSTANTS Daemon,
          NoSession,  \* no hosted section in memory or in the file
          Torn,       \* config.toml does not parse
          Nothing,    \* no operation has been reported as done
          NoCall, NoReply,
          Other,      \* the service works on a request of somebody else
          MaxAsked    \* bound on the operations daemons are asked for

Session == [member : Member, ws : Workspace, share : BOOLEAN]
Call == [kind : {"join"}, code : Code] \cup [kind : {"publish"}, member : Member, ws : Workspace]
        \cup [kind : {"share"}, on : BOOLEAN]
Reply == [item : Member \cup HostedBlip, ws : Workspace, number : Int]

ASSUME HostingAssumption ==
  /\ NoSession \notin Session /\ Torn \notin Session /\ Torn # NoSession
  /\ Nothing \notin Session \cup {NoSession}
  /\ NoCall \notin Call
  /\ NoReply \notin Reply
  /\ Other \notin Daemon
  /\ MaxAsked \in Nat

VARIABLES
  config,   \* the hosted section of config.toml
  hosted,   \* DaemonRuntime.hosted of each daemon
  step,     \* what the IPC thread of each daemon does next
  call,     \* the operation it is about
  reply,    \* what the service answered
  sender,   \* whose request the service works on
  adrift,   \* requests whose daemon gave up before the service took them up
  rows,     \* hosted rows of the local audit log
  asked,    \* history: the number of operations asked for
  consents, \* history: memberships the user enabled sharing for
  alone,    \* history: the daemon whose save nobody else's overlaps
  confirmed \* history: the session in the file when an operation was reported as
            \* done, until the next save begins

cloudVars == vars
daemonVars == <<config, hosted, step, call, reply, sender, adrift, rows,
                asked, consents, alone, confirmed>>
allVars == <<cloudVars, daemonVars>>

Step == {"down", "idle", "calling", "served", "answered", "saving", "writing", "recording"}

\* AuditEventType: hosted rows of the local log.
HostedRow ==
  [type : {"hosted_workspace_joined", "hosted_blip_published"},
   item : Member \cup HostedBlip, ws : Workspace, number : Int]
  \cup [type : {"hosted_sticky_share_changed"}, enabled : BOOLEAN,
        ws : Workspace \cup {NoWorkspace}]

HostedInit ==
  /\ Init
  /\ config = NoSession
  /\ hosted = [d \in Daemon |-> NoSession]
  /\ step = [d \in Daemon |-> "down"]
  /\ call = [d \in Daemon |-> NoCall]
  /\ reply = [d \in Daemon |-> NoReply]
  /\ sender = Other
  /\ adrift = {}
  /\ rows = {}
  /\ asked = 0
  /\ consents = {}
  /\ alone = Other
  /\ confirmed = Nothing

At(d, s) == step[d] = s
Goto(d, s) == step' = [step EXCEPT ![d] = s]

\* hosted_status_response: all parts of the session are there.
Connected(d) == hosted[d] # NoSession

\* The operation is over, well or not.
Ended(d) ==
  /\ Goto(d, "idle")
  /\ call' = [call EXCEPT ![d] = NoCall]
  /\ reply' = [reply EXCEPT ![d] = NoReply]

history == <<asked, consents, alone, confirmed>>
device == <<config, hosted, rows>>
thread == <<step, call, reply>>

-----------------------------------------------------------------------------
(* What a daemon is asked for *)

\* main: load_or_create fails on a file that does not parse.
StartDaemon(d) ==
  /\ At(d, "down")
  /\ config # Torn
  /\ hosted' = [hosted EXCEPT ![d] = config]
  /\ Goto(d, "idle")
  /\ UNCHANGED <<cloudVars, config, call, reply, sender, adrift, rows, history>>

Asked(d, c, next) ==
  /\ At(d, "idle")
  /\ asked < MaxAsked
  /\ asked' = asked + 1
  /\ call' = [call EXCEPT ![d] = c]
  /\ Goto(d, next)

\* join_hosted_workspace up to the call; nothing asks for a session before.
AskJoin(d, k) ==
  /\ Asked(d, [kind |-> "join", code |-> k], "calling")
  /\ UNCHANGED <<cloudVars, device, reply, sender, adrift, consents, alone, confirmed>>

\* publish_hosted_blip up to the call: connected, and the local blip is there.
AskPublish(d) ==
  /\ Connected(d)
  /\ Asked(d, [kind |-> "publish", member |-> hosted[d].member, ws |-> hosted[d].ws], "calling")
  /\ UNCHANGED <<cloudVars, device, reply, sender, adrift, consents, alone, confirmed>>

\* set_hosted_sticky_share up to the save
SetShare(d, on) ==
  /\ on => Connected(d)
  /\ Asked(d, [kind |-> "share", on |-> on], "saving")
  /\ hosted' = IF Connected(d) THEN [hosted EXCEPT ![d].share = on] ELSE hosted
  /\ consents' = IF on THEN consents \cup {<<hosted[d].member, hosted[d].ws>>} ELSE consents
  /\ UNCHANGED <<cloudVars, config, rows, reply, sender, adrift, alone, confirmed>>

-----------------------------------------------------------------------------
(* The call and its answer *)

\* The handler of POST /v1/join or /v1/workspaces/{id}/blips begins.
Serves(c) ==
  \/ c.kind = "join" /\ \E m \in Member : JoinWorkspace(c.code, m)
  \/ c.kind = "publish" /\ \E b \in HostedBlip, t \in Tags : PublishBlip(c.member, b, t)

TakeUp(d) ==
  /\ At(d, "calling")
  /\ Serves(call[d])
  /\ Goto(d, "served")
  /\ sender' = d
  /\ UNCHANGED <<device, call, reply, adrift, history>>

TakeUpLate(c) ==
  /\ c \in adrift
  /\ Serves(c)
  /\ adrift' = adrift \ {c}
  /\ UNCHANGED <<device, thread, sender, history>>

\* HostedClient: no connection, or the service refuses the request.
Refuse(d) ==
  /\ At(d, "calling")
  /\ Ended(d)
  /\ UNCHANGED <<cloudVars, device, sender, adrift, history>>

\* What join_workspace and publish_blip of the service return.
Answer ==
  [item |-> request.change.target, ws |-> request.ws,
   number |-> IF request.change.type = "blip_published"
              THEN blips[request.change.target].sequence ELSE 0]

\* The last statement of the daemon's request; its answer arrives or is lost.
InsertEventFor(d) ==
  /\ sender = d
  /\ InsertEvent
  /\ sender' = Other
  /\ \/ /\ request.change.type = "member_joined" => request.change.actor \in credentials'
        /\ Goto(d, "answered")
        /\ reply' = [reply EXCEPT ![d] = Answer]
        /\ UNCHANGED call
     \/ /\ credentials' = credentials
        /\ Ended(d)
  /\ UNCHANGED <<device, adrift, history>>

\* Mutant: the status of the answer is not looked at.
CutShortUnnoticed(d) ==
  /\ sender = d
  /\ CutShort
  /\ sender' = Other
  /\ Goto(d, "answered")
  /\ reply' = [reply EXCEPT ![d] = Answer]
  /\ UNCHANGED <<device, call, adrift, history>>

CutShortFor(d) ==
  /\ sender = d
  /\ CutShort
  /\ sender' = Other
  /\ Ended(d)
  /\ UNCHANGED <<device, adrift, history>>

\* The request of a daemon that no longer waits for it.
Abandoned(d) ==
  /\ sender' = IF sender = d THEN Other ELSE sender
  /\ adrift' \in {adrift} \cup (IF At(d, "calling") THEN {adrift \cup {call[d]}} ELSE {})

\* The HTTP client times out.
GiveUp(d) ==
  /\ step[d] \in {"calling", "served"}
  /\ Abandoned(d)
  /\ Ended(d)
  /\ UNCHANGED <<cloudVars, device, history>>

Die(d) ==
  /\ ~At(d, "down")
  /\ Abandoned(d)
  /\ Goto(d, "down")
  /\ hosted' = [hosted EXCEPT ![d] = NoSession]
  /\ call' = [call EXCEPT ![d] = NoCall]
  /\ reply' = [reply EXCEPT ![d] = NoReply]
  /\ UNCHANGED <<cloudVars, config, rows, history>>

-----------------------------------------------------------------------------
(* After the answer *)

\* join_hosted_workspace: the session in memory
Remember(d) ==
  /\ At(d, "answered") /\ call[d].kind = "join"
  /\ hosted' = [hosted EXCEPT ![d] =
                  [member |-> reply[d].item, ws |-> reply[d].ws, share |-> FALSE]]
  /\ Goto(d, "saving")
  /\ UNCHANGED <<cloudVars, config, rows, call, reply, sender, adrift, history>>

\* fs::write truncates the file first, unless it cannot open it.
Truncate(d) ==
  /\ At(d, "saving")
  /\ \/ /\ config' = Torn
        /\ Goto(d, "writing")
        /\ alone' = IF \E e \in Daemon : At(e, "writing") THEN Other ELSE d
        /\ confirmed' = Nothing
        /\ UNCHANGED <<call, reply>>
     \/ Ended(d) /\ UNCHANGED <<config, alone, confirmed>>
  /\ UNCHANGED <<cloudVars, hosted, sender, adrift, rows, asked, consents>>

\* Mutant: the result of persist is not looked at.
WriteUnchecked(d) ==
  /\ At(d, "writing")
  /\ config' \in {hosted[d], config}
  /\ Goto(d, "recording")
  /\ UNCHANGED <<cloudVars, hosted, sender, adrift, call, reply, rows, history>>

\* Then it writes.  What another daemon wrote since may stick out at the end.
Write(d) ==
  /\ At(d, "writing")
  /\ \/ /\ config' \in {hosted[d]} \cup (IF config = Torn THEN {} ELSE {Torn})
        /\ Goto(d, "recording")
        /\ UNCHANGED <<call, reply>>
     \/ Ended(d) /\ UNCHANGED config
  /\ UNCHANGED <<cloudVars, hosted, sender, adrift, rows, history>>

\* record_hosted_event of each operation
RowOf(d) ==
  CASE call[d].kind = "join" ->
         [type |-> "hosted_workspace_joined", item |-> reply[d].item, ws |-> reply[d].ws,
          number |-> reply[d].number]
    [] call[d].kind = "publish" ->
         [type |-> "hosted_blip_published", item |-> reply[d].item, ws |-> call[d].ws,
          number |-> reply[d].number]
    [] OTHER ->
         [type |-> "hosted_sticky_share_changed", enabled |-> call[d].on,
          ws |-> IF Connected(d) THEN hosted[d].ws ELSE NoWorkspace]

\* The store may refuse the row, as it does when the blip published is gone.
Record(d) ==
  /\ \/ At(d, "recording")
     \/ At(d, "answered") /\ call[d].kind = "publish"
  /\ \/ /\ rows' = rows \cup {RowOf(d)}
        /\ confirmed' = IF At(d, "recording") /\ alone = d THEN hosted[d] ELSE confirmed
     \/ UNCHANGED <<rows, confirmed>>
  /\ Ended(d)
  /\ UNCHANGED <<cloudVars, config, hosted, sender, adrift, asked, consents, alone>>

-----------------------------------------------------------------------------
\* Requests of others, and what goes on inside the service.  Heartbeats are left
\* out: nothing on this side depends on who is present.
ServiceStep ==
  /\ \/ Handle \/ Query \/ Tick
     \/ InsertMember \/ InsertSession \/ TakeNumber
     \/ sender = Other /\ (InsertEvent \/ CutShort)
  /\ UNCHANGED daemonVars

DaemonStep(d) ==
  \/ StartDaemon(d) \/ Die(d)
  \/ \E k \in Code : AskJoin(d, k)
  \/ AskPublish(d)
  \/ \E on \in BOOLEAN : SetShare(d, on)
  \/ TakeUp(d) \/ Refuse(d) \/ InsertEventFor(d) \/ CutShortFor(d) \/ GiveUp(d)
  \/ Remember(d) \/ Truncate(d) \/ Write(d) \/ Record(d)

HostedNext ==
  \/ ServiceStep
  \/ \E d \in Daemon : DaemonStep(d)
  \/ \E c \in adrift : TakeUpLate(c)

HostedSpec == HostedInit /\ [][HostedNext]_allVars
=============================================================================
