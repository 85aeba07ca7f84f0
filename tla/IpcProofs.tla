------------------------------- MODULE IpcProofs -------------------------------
(***************************************************************************)
(* What holds of the daemon's socket for every number of daemons, clients,  *)
(* attempts and deaths.                                                     *)
(***************************************************************************)
EXTENDS IpcProperties, SequenceTheorems, TLAPS


-----------------------------------------------------------------------------
(* Queues of connections *)

LEMMA AppendFacts ==
  ASSUME NEW S, NEW s \in Seq(S), NEW x \in S
  PROVE  /\ Append(s, x) \in Seq(S)
         /\ DOMAIN Append(s, x) = 1 .. (Len(s) + 1)
         /\ DOMAIN s = 1 .. Len(s)
         /\ Append(s, x)[Len(s) + 1] = x
         /\ \A i \in DOMAIN s : Append(s, x)[i] = s[i]
  OBVIOUS

LEMMA TailFacts ==
  ASSUME NEW S, NEW s \in Seq(S), s # << >>
  PROVE  /\ Tail(s) \in Seq(S)
         /\ 1 \in DOMAIN s
         /\ Head(s) = s[1]
         /\ \A i \in DOMAIN Tail(s) : i + 1 \in DOMAIN s /\ Tail(s)[i] = s[i + 1] /\ i \in Nat \ {0}
  OBVIOUS

-----------------------------------------------------------------------------
(* Types *)

LEMMA TypeInit == Init => TypeOK
  BY PathAssumption DEF Init, TypeOK, Over, Starting

LEMMA TypeStep == TypeOK /\ [Next]_vars => TypeOK'
<1> SUFFICES ASSUME TypeOK, [Next]_vars PROVE TypeOK'
  OBVIOUS
<1> USE DEF TypeOK, Starting, Over, daemonVars, clientVars
<1>1. ASSUME NEW d \in Daemon, Start(d) PROVE TypeOK'
  BY <1>1 DEF Start, Started, Goto
<1>2. ASSUME NEW d \in Daemon, Inspect(d) PROVE TypeOK'
  BY <1>2 DEF Inspect, Goto
<1>3. ASSUME NEW d \in Daemon, ConnectOrGiveUp(d) PROVE TypeOK'
  <2>1. ASSUME NEW e \in Daemon, Connects(e, Probe), Goto(d, "failed") PROVE TypeOK'
    <3>1. backlog' \in [Daemon -> Seq(Client \cup {Probe})]
      BY <2>1, AppendFacts DEF Connects
    <3> QED BY <1>3, <2>1, <3>1 DEF ConnectOrGiveUp, Goto
  <2>2. CASE UNCHANGED backlog
    BY <1>3, <2>2 DEF ConnectOrGiveUp, Goto
  <2> QED BY <1>3, <2>1, <2>2 DEF ConnectOrGiveUp
<1>4. ASSUME NEW d \in Daemon, Remove(d) PROVE TypeOK'
  BY <1>4 DEF Remove, Goto
<1>5. ASSUME NEW d \in Daemon, Bind(d) PROVE TypeOK'
  BY <1>5 DEF Bind, Goto
<1>6. ASSUME NEW d \in Daemon, Listen(d) PROVE TypeOK'
  BY <1>6 DEF Listen, Goto
<1>7. ASSUME NEW d \in Daemon, Die(d) PROVE TypeOK'
  <2>1. backlog' \in [Daemon -> Seq(Client \cup {Probe})]
    BY <1>7 DEF Die
  <2> QED BY <1>7, <2>1 DEF Die, Goto
<1>8. ASSUME NEW d \in Daemon, NEW c \in Client, Execute(d, c) PROVE TypeOK'
  BY <1>8 DEF Execute
<1>9. ASSUME NEW d \in Daemon, Close(d), backlog[d] # << >> PROVE backlog' \in [Daemon -> Seq(Client \cup {Probe})]
  BY <1>9, TailFacts DEF Close
<1>10. ASSUME NEW d \in Daemon, NEW c \in Client, Answer(d, c) PROVE TypeOK'
  BY <1>9, <1>10 DEF Answer, Serves
<1>11. ASSUME NEW d \in Daemon, TimeOut(d) PROVE TypeOK'
  BY <1>9, <1>11 DEF TimeOut, Serves
<1>12. ASSUME NEW c \in Client, Connect(c) PROVE TypeOK'
  <2>1. ASSUME NEW d \in Daemon, Connects(d, c), server' = [server EXCEPT ![c] = d], Advance(c, "connected") PROVE TypeOK'
    <3>1. backlog' \in [Daemon -> Seq(Client \cup {Probe})]
      BY <2>1, AppendFacts DEF Connects
    <3> QED BY <1>12, <2>1, <3>1 DEF Connect, Advance
  <2>2. CASE UNCHANGED <<backlog, server>> /\ Advance(c, IF step[c] = "ready" /\ c \in Desktop THEN "spawning" ELSE "failed")
    BY <1>12, <2>2 DEF Connect, Advance
  <2> QED BY <1>12, <2>1, <2>2 DEF Connect
<1>13. ASSUME NEW c \in Client, Lose(c) PROVE TypeOK'
  BY <1>13 DEF Lose, Advance
<1>14. ASSUME NEW c \in Client, Spawn(c) PROVE TypeOK'
  BY <1>14 DEF Spawn, Started, Goto, Advance
<1>15. ASSUME NEW c \in Client, Wait(c) PROVE TypeOK'
  <2>1. ASSUME NEW d \in Daemon, Connects(d, Probe), Advance(c, "again"), UNCHANGED attempts PROVE TypeOK'
    <3>1. backlog' \in [Daemon -> Seq(Client \cup {Probe})]
      BY <2>1, AppendFacts DEF Connects
    <3> QED BY <1>15, <2>1, <3>1 DEF Wait, Advance
  <2>2. CASE UNCHANGED backlog /\ attempts' = [attempts EXCEPT ![c] = @ + 1]
             /\ Advance(c, IF attempts[c] + 1 < Attempts THEN "waiting" ELSE "failed")
    BY <1>15, <2>2 DEF Wait, Advance
  <2> QED BY <1>15, <2>1, <2>2 DEF Wait
<1>16. ASSUME NEW c \in Client, Request(c) PROVE TypeOK'
  BY <1>16 DEF Request, Trickle, Pause, Send, Advance
<1>17. CASE UNCHANGED vars
  BY <1>17 DEF vars
<1> QED
  BY <1>1, <1>2, <1>3, <1>4, <1>5, <1>6, <1>7, <1>8, <1>10, <1>11, <1>12, <1>13, <1>14, <1>15, <1>16, <1>17,
     ClientAssumption
  DEF Next, Claim, Serve, Drain, Proceed, Rest

-----------------------------------------------------------------------------
(* Daemons and the path *)

\* What a step means to the daemons: one of them moves, or nothing does.
LEMMA DaemonSteps ==
  ASSUME [Next]_vars
  PROVE  \/ \E d \in Daemon : \/ Started(d) \/ Inspect(d) \/ ConnectOrGiveUp(d)
                              \/ Remove(d) \/ Bind(d) \/ Listen(d) \/ Die(d)
         \/ UNCHANGED daemonVars
<1>1. ASSUME NEW c \in Client, Proceed(c) PROVE (\E d \in Daemon : Started(d)) \/ UNCHANGED daemonVars
  BY <1>1 DEF Proceed, Connect, Lose, Spawn, Wait
<1>2. ASSUME NEW c \in Client, Request(c) PROVE UNCHANGED daemonVars
  BY <1>2 DEF Request, Trickle, Pause, Send
<1>3. ASSUME NEW d \in Daemon, Serve(d) \/ Drain(d) PROVE UNCHANGED daemonVars
  BY <1>3 DEF Serve, Drain, Execute, Answer, TimeOut
<1>4. CASE UNCHANGED vars \/ Rest
  BY <1>4 DEF vars, Rest
<1> QED
  BY <1>1, <1>2, <1>3, <1>4 DEF Next, Start, Claim

LEMMA GivesWayStep == TypeOK /\ GivesWay /\ [Next]_vars => GivesWay'
<1> SUFFICES ASSUME TypeOK, GivesWay, [Next]_vars PROVE GivesWay'
  OBVIOUS
<1> USE DEF GivesWay, Reachable, Listening, Starting, TypeOK, Goto
<1>1. ASSUME NEW d \in Daemon, Started(d) PROVE GivesWay'
  <2>1. CASE unrivalled' = {}
    BY <2>1
  <2>2. CASE unrivalled' = {d} /\ Reachable /\ \A e \in Daemon : pc[e] \notin Starting
    <3>1. PICK e \in Daemon : path = e /\ pc[e] = "serving"
      BY <2>2
    <3>2. e # d
      BY <1>1, <3>1 DEF Started
    <3> QED BY <1>1, <2>2, <3>1, <3>2 DEF Started
  <2> QED BY <1>1, <2>1, <2>2 DEF Started
<1>2. ASSUME NEW d \in Daemon, Inspect(d) PROVE GivesWay'
  <2> SUFFICES ASSUME NEW u \in unrivalled
               PROVE  /\ Reachable'
                      /\ pc'[u] \in {"inspecting", "connecting", "failed"}
                      /\ \A e \in Daemon : e # u => pc'[e] \notin Starting
    BY <1>2 DEF Inspect
  <2>1. PICK e \in Daemon : path = e /\ pc[e] = "serving"
    BY DEF GivesWay
  <2>2. u = d /\ e # d /\ u \in Daemon
    BY <1>2, <2>1 DEF Inspect
  <2>3. path # Absent /\ path # Placeholder
    BY <2>1, PathAssumption
  <2> QED BY <1>2, <2>1, <2>2, <2>3 DEF Inspect
<1>3. ASSUME NEW d \in Daemon, ConnectOrGiveUp(d) PROVE GivesWay'
  <2> SUFFICES ASSUME NEW u \in unrivalled
               PROVE  /\ Reachable'
                      /\ pc'[u] \in {"inspecting", "connecting", "failed"}
                      /\ \A e \in Daemon : e # u => pc'[e] \notin Starting
    BY <1>3 DEF ConnectOrGiveUp
  <2>1. PICK e \in Daemon : path = e /\ pc[e] = "serving"
    BY DEF GivesWay
  <2>2. u = d /\ e # d /\ u \in Daemon
    BY <1>3, <2>1 DEF ConnectOrGiveUp
  <2> QED BY <1>3, <2>1, <2>2 DEF ConnectOrGiveUp
<1>4. ASSUME NEW d \in Daemon, Remove(d) \/ Bind(d) \/ Listen(d) PROVE GivesWay'
  <2>1. unrivalled' = {}
    BY <1>4 DEF Remove, Bind, Listen
  <2> QED BY <2>1
<1>5. ASSUME NEW d \in Daemon, Die(d) PROVE GivesWay'
  BY <1>5 DEF Die
<1>6. CASE UNCHANGED daemonVars
  BY <1>6 DEF daemonVars
<1> QED BY <1>1, <1>2, <1>3, <1>4, <1>5, <1>6, DaemonSteps

LEMMA ClaimedStep == TypeOK /\ Claimed /\ [Next]_vars => Claimed'
<1> SUFFICES ASSUME TypeOK, Claimed, [Next]_vars, deaths' = 0 PROVE Claimed'
  BY DEF Claimed
<1>0. Absent # Placeholder /\ Absent \notin Daemon /\ Placeholder \notin Daemon
  BY PathAssumption
<1> USE DEF Claimed, Reachable, Listening, Starting, TypeOK, Goto
<1>1. ASSUME NEW d \in Daemon, Started(d) PROVE Claimed'
  BY <1>0, <1>1 DEF Started
<1>2. ASSUME NEW d \in Daemon, Inspect(d) PROVE Claimed'
  BY <1>0, <1>2 DEF Inspect
<1>3. ASSUME NEW d \in Daemon, ConnectOrGiveUp(d) PROVE Claimed'
  BY <1>0, <1>3 DEF ConnectOrGiveUp
<1>4. ASSUME NEW d \in Daemon, Remove(d) PROVE Claimed'
  BY <1>0, <1>4 DEF Remove
<1>5. ASSUME NEW d \in Daemon, Bind(d) PROVE Claimed'
  BY <1>0, <1>5 DEF Bind
<1>6. ASSUME NEW d \in Daemon, Listen(d) PROVE Claimed'
  BY <1>0, <1>6 DEF Listen
<1>7. ASSUME NEW d \in Daemon, Die(d) PROVE Claimed'
  <2>1. deaths' # 0
    BY <1>7 DEF Die
  <2> QED BY <2>1
<1>8. CASE UNCHANGED daemonVars
  BY <1>8 DEF daemonVars
<1> QED BY <1>1, <1>2, <1>3, <1>4, <1>5, <1>6, <1>7, <1>8, DaemonSteps

-----------------------------------------------------------------------------
(* Connections *)

\* A new connection is the last of its daemon; all others stay where they are.
LEMMA ConnectsFacts ==
  ASSUME TypeOK, NEW d \in Daemon, NEW who \in Client \cup {Probe}, Connects(d, who)
  PROVE  /\ \A e \in Daemon : \A i \in DOMAIN backlog'[e] :
              \/ i \in DOMAIN backlog[e] /\ backlog'[e][i] = backlog[e][i]
              \/ e = d /\ i \notin DOMAIN backlog[e] /\ i = Len(backlog[d]) + 1 /\ backlog'[e][i] = who
         /\ \A e \in Daemon : \A i \in DOMAIN backlog[e] :
              i \in DOMAIN backlog'[e] /\ backlog'[e][i] = backlog[e][i]
<1>1. backlog[d] \in Seq(Client \cup {Probe})
  BY DEF TypeOK
<1>2. \A e \in Daemon : backlog'[e] = IF e = d THEN Append(backlog[d], who) ELSE backlog[e]
  BY DEF Connects, TypeOK
<1>3. \A i \in DOMAIN Append(backlog[d], who) :
        \/ i \in DOMAIN backlog[d] /\ Append(backlog[d], who)[i] = backlog[d][i]
        \/ i \notin DOMAIN backlog[d] /\ i = Len(backlog[d]) + 1 /\ Append(backlog[d], who)[i] = who
  BY <1>1, AppendFacts
<1>4. \A i \in DOMAIN backlog[d] :
        i \in DOMAIN Append(backlog[d], who) /\ Append(backlog[d], who)[i] = backlog[d][i]
  BY <1>1, AppendFacts
<1> QED BY <1>2, <1>3, <1>4

\* The connection that is served is closed; those behind it move up.
LEMMA CloseFacts ==
  ASSUME TypeOK, NEW d \in Daemon, backlog[d] # << >>, Close(d)
  PROVE  /\ \A e \in Daemon : e # d => backlog'[e] = backlog[e]
         /\ \A i \in DOMAIN backlog'[d] :
              i \in Nat \ {0} /\ i + 1 \in DOMAIN backlog[d] /\ backlog'[d][i] = backlog[d][i + 1]
<1>1. backlog[d] \in Seq(Client \cup {Probe})
  BY DEF TypeOK
<1>2. \A e \in Daemon : backlog'[e] = IF e = d THEN Tail(backlog[d]) ELSE backlog[e]
  BY DEF Close, TypeOK
<1>3. \A i \in DOMAIN Tail(backlog[d]) :
        i \in Nat \ {0} /\ i + 1 \in DOMAIN backlog[d] /\ Tail(backlog[d])[i] = backlog[d][i + 1]
  BY <1>1, TailFacts
<1> QED BY <1>2, <1>3

LEMMA ServesFacts ==
  ASSUME TypeOK, NEW d \in Daemon, NEW who, Serves(d, who)
  PROVE  backlog[d] # << >> /\ 1 \in DOMAIN backlog[d] /\ backlog[d][1] = who
BY TailFacts DEF Serves, TypeOK

ConnectionInv == OneConnection /\ ExecutionInv

\* A probe is no client: its connection concerns neither part, whether a daemon
\* makes it or a client that waits.
LEMMA ProbeConnects ==
  ASSUME TypeOK, ConnectionInv, NEW d \in Daemon, Connects(d, Probe),
         \A b \in Client :
           \/ step'[b] = step[b]
           \/ /\ step'[b] = "again" /\ executed[b] = 0
              /\ \A e \in Daemon : \A i \in DOMAIN backlog[e] : backlog[e][i] # b,
         UNCHANGED <<server, handled, executed>>
  PROVE  ConnectionInv'
<1>1. Probe \notin Client
  BY ClientAssumption
<1>2. /\ \A e \in Daemon : \A i \in DOMAIN backlog'[e] :
           \/ i \in DOMAIN backlog[e] /\ backlog'[e][i] = backlog[e][i]
           \/ backlog'[e][i] = Probe
      /\ \A e \in Daemon : \A i \in DOMAIN backlog[e] :
           i \in DOMAIN backlog'[e] /\ backlog'[e][i] = backlog[e][i]
  BY ConnectsFacts
<1>3. OneConnection'
  <2> SUFFICES ASSUME NEW e \in Daemon, NEW i \in DOMAIN backlog'[e], backlog'[e][i] \in Client
               PROVE  /\ server'[backlog'[e][i]] = e
                      /\ step'[backlog'[e][i]] \in {"connected", "sending", "sent"}
                      /\ \A j \in DOMAIN backlog'[e] : backlog'[e][j] = backlog'[e][i] => i = j
    BY DEF OneConnection
  <2>1. i \in DOMAIN backlog[e] /\ backlog'[e][i] = backlog[e][i]
    BY <1>1, <1>2
  <2>2. \A j \in DOMAIN backlog'[e] : backlog'[e][j] = backlog'[e][i] =>
          j \in DOMAIN backlog[e] /\ backlog[e][j] = backlog[e][i]
    BY <1>1, <1>2, <2>1
  <2> QED BY <2>1, <2>2 DEF ConnectionInv, OneConnection
<1>4. ExecutionInv'
  <2>1. \A c1 \in Client :
        /\ executed'[c1] = 0 \/ (executed'[c1] = 1 /\ step'[c1] \in {"sent", "answered", "failed"})
        /\ step'[c1] = "answered" => executed'[c1] = 1
    BY <1>1 DEF ConnectionInv, ExecutionInv
  <2>2. \A e \in Daemon : \A i \in DOMAIN backlog'[e] :
        backlog'[e][i] \in Client /\ executed'[backlog'[e][i]] # 0 => i = 1 /\ e \in handled'
    BY <1>1, <1>2 DEF ConnectionInv, ExecutionInv
  <2>3. \A e \in handled' :
        1 \in DOMAIN backlog'[e] /\ backlog'[e][1] \in Client /\ executed'[backlog'[e][1]] = 1
    BY <1>2 DEF ConnectionInv, ExecutionInv, TypeOK
  <2> QED BY <2>1, <2>2, <2>3 DEF ExecutionInv
<1> QED BY <1>3, <1>4 DEF ConnectionInv

\* The connection served is closed after its request was executed, or before: the
\* client behind it is the next, and none is executed twice.
LEMMA CloseKeepsOne ==
  ASSUME TypeOK, OneConnection, NEW d \in Daemon, backlog[d] # << >>, Close(d), UNCHANGED server,
         \A b \in Client : step'[b] = step[b] \/ (1 \in DOMAIN backlog[d] /\ backlog[d][1] = b)
  PROVE  OneConnection'
<1>1. /\ \A e \in Daemon : e # d => backlog'[e] = backlog[e]
      /\ \A i \in DOMAIN backlog'[d] :
           i \in Nat \ {0} /\ i + 1 \in DOMAIN backlog[d] /\ backlog'[d][i] = backlog[d][i + 1]
  BY CloseFacts
<1>2. 1 \in DOMAIN backlog[d]
  BY TailFacts DEF TypeOK
<1> SUFFICES ASSUME NEW e \in Daemon, NEW i \in DOMAIN backlog'[e], backlog'[e][i] \in Client
             PROVE  /\ server'[backlog'[e][i]] = e
                    /\ step'[backlog'[e][i]] \in {"connected", "sending", "sent"}
                    /\ \A j \in DOMAIN backlog'[e] : backlog'[e][j] = backlog'[e][i] => i = j
  BY DEF OneConnection
<1>3. CASE e # d
  BY <1>1, <1>2, <1>3 DEF OneConnection
<1>4. CASE e = d
  <2>1. i + 1 \in DOMAIN backlog[d] /\ backlog'[d][i] = backlog[d][i + 1] /\ i \in Nat \ {0}
    BY <1>1, <1>4
  <2>2. backlog[d][1] # backlog[d][i + 1]
    BY <1>2, <1>4, <2>1 DEF OneConnection
  <2>3. \A j \in DOMAIN backlog'[d] : backlog'[d][j] = backlog'[d][i] => i + 1 = j + 1 /\ j \in Nat
    BY <1>1, <1>4, <2>1 DEF OneConnection
  <2> QED BY <1>4, <2>1, <2>2, <2>3 DEF OneConnection
<1> QED BY <1>3, <1>4

\* A client without a connection, whose request was not executed or who gives up,
\* may move to any place where it needs none.
LEMMA ClientMoves ==
  ASSUME TypeOK, ConnectionInv, NEW c \in Client, NEW next, Advance(c, next),
         \A d \in Daemon : \A i \in DOMAIN backlog[d] : backlog[d][i] # c,
         next = "failed" \/ (executed[c] = 0 /\ next # "answered"),
         UNCHANGED <<server, backlog, handled, executed>>
  PROVE  ConnectionInv'
BY DEF ConnectionInv, OneConnection, ExecutionInv, TypeOK, Advance

\* Before it connects, a client has no connection and its request is not executed.
LEMMA Unconnected ==
  ASSUME TypeOK, ConnectionInv, NEW c \in Client, step[c] \in {"ready", "again", "spawning", "waiting"}
  PROVE  executed[c] = 0 /\ \A d \in Daemon : \A i \in DOMAIN backlog[d] : backlog[d][i] # c
BY DEF ConnectionInv, OneConnection, ExecutionInv

LEMMA ConnectionStep == TypeOK /\ ConnectionInv /\ [Next]_vars => ConnectionInv'
<1> SUFFICES ASSUME TypeOK, ConnectionInv, [Next]_vars PROVE ConnectionInv'
  OBVIOUS
<1>1. ASSUME NEW d \in Daemon, Start(d) \/ Inspect(d) \/ Remove(d) \/ Bind(d) \/ Listen(d)
      PROVE  ConnectionInv'
  <2>1. UNCHANGED <<server, step, backlog, handled, executed>>
    BY <1>1 DEF Start, Started, Inspect, Remove, Bind, Listen, clientVars
  <2> QED BY <2>1 DEF ConnectionInv, OneConnection, ExecutionInv
<1>2. ASSUME NEW d \in Daemon, ConnectOrGiveUp(d) PROVE ConnectionInv'
  <2>1. UNCHANGED <<server, step, handled, executed>>
    BY <1>2 DEF ConnectOrGiveUp, clientVars
  <2>2. CASE UNCHANGED backlog
    BY <2>1, <2>2 DEF ConnectionInv, OneConnection, ExecutionInv
  <2>3. ASSUME NEW e \in Daemon, Connects(e, Probe) PROVE ConnectionInv'
    BY <2>1, <2>3, ProbeConnects
  <2> QED BY <1>2, <2>2, <2>3 DEF ConnectOrGiveUp
<1>3. ASSUME NEW d \in Daemon, Die(d) PROVE ConnectionInv'
  <2>1. \A e \in Daemon : backlog'[e] = IF e = d THEN << >> ELSE backlog[e]
    BY <1>3 DEF Die, TypeOK
  <2>2. DOMAIN (<< >>) = {}
    OBVIOUS
  <2> QED BY <1>3, <2>1, <2>2 DEF Die, clientVars, ConnectionInv, OneConnection, ExecutionInv, TypeOK
<1>4. ASSUME NEW d \in Daemon, NEW c \in Client, Execute(d, c) PROVE ConnectionInv'
  <2>1. 1 \in DOMAIN backlog[d] /\ backlog[d][1] = c
    BY <1>4, ServesFacts DEF Execute
  <2>2. executed[c] = 0
    BY <1>4, <2>1 DEF Execute, ConnectionInv, ExecutionInv, TypeOK
  <2>3. \A e \in Daemon : \A i \in DOMAIN backlog[e] : backlog[e][i] = c => e = d /\ i = 1
    BY <2>1 DEF ConnectionInv, OneConnection
  <2> QED BY <1>4, <2>1, <2>2, <2>3
          DEF Execute, clientVars, ConnectionInv, OneConnection, ExecutionInv, TypeOK
<1>5. ASSUME NEW d \in Daemon, NEW c \in Client, Answer(d, c) PROVE ConnectionInv'
  <2>1. backlog[d] # << >> /\ 1 \in DOMAIN backlog[d] /\ backlog[d][1] = c
    BY <1>5, ServesFacts DEF Answer
  <2>2. executed[c] = 1
    BY <1>5, <2>1 DEF Answer, ConnectionInv, ExecutionInv
  <2>3. \A e \in Daemon : \A i \in DOMAIN backlog[e] : backlog[e][i] = c => e = d /\ i = 1
    BY <2>1 DEF ConnectionInv, OneConnection
  <2>4. /\ \A e \in Daemon : e # d => backlog'[e] = backlog[e]
        /\ \A i \in DOMAIN backlog'[d] :
             i \in Nat \ {0} /\ i + 1 \in DOMAIN backlog[d] /\ backlog'[d][i] = backlog[d][i + 1]
    BY <1>5, <2>1, CloseFacts DEF Answer
  <2>5. OneConnection'
    BY <1>5, <2>1, CloseKeepsOne DEF Answer, ConnectionInv, TypeOK
  <2>6. ExecutionInv'
    BY <1>5, <2>2, <2>4 DEF Answer, ConnectionInv, ExecutionInv, TypeOK
  <2> QED BY <2>5, <2>6 DEF ConnectionInv
<1>6. ASSUME NEW d \in Daemon, TimeOut(d) PROVE ConnectionInv'
  <2>1. PICK who : Serves(d, who) /\ (who = Probe \/ (who \in Client /\ step[who] = "connected"))
    BY <1>6 DEF TimeOut
  <2>2. backlog[d] # << >> /\ 1 \in DOMAIN backlog[d] /\ backlog[d][1] = who
    BY <2>1, ServesFacts
  <2>3. d \notin handled
    BY <2>1, <2>2, ClientAssumption DEF ConnectionInv, ExecutionInv
  <2>4. /\ \A e \in Daemon : e # d => backlog'[e] = backlog[e]
        /\ \A i \in DOMAIN backlog'[d] :
             i \in Nat \ {0} /\ i + 1 \in DOMAIN backlog[d] /\ backlog'[d][i] = backlog[d][i + 1]
    BY <1>6, <2>2, CloseFacts DEF TimeOut
  <2>5. OneConnection'
    BY <1>6, <2>2, CloseKeepsOne DEF TimeOut, clientVars, ConnectionInv
  <2>6. ExecutionInv'
    <3>1. UNCHANGED <<step, executed, handled>>
      BY <1>6 DEF TimeOut, clientVars
    <3>2. \A i \in DOMAIN backlog'[d] : backlog'[d][i] \in Client => executed[backlog'[d][i]] = 0
      BY <2>3, <2>4 DEF ConnectionInv, ExecutionInv
    <3> QED BY <2>3, <2>4, <3>1, <3>2 DEF ConnectionInv, ExecutionInv, TypeOK
  <2> QED BY <2>5, <2>6 DEF ConnectionInv
<1>7. ASSUME NEW c \in Client, Connect(c) PROVE ConnectionInv'
  <2>1. executed[c] = 0 /\ \A d \in Daemon : \A i \in DOMAIN backlog[d] : backlog[d][i] # c
    BY <1>7, Unconnected DEF Connect
  <2>2. ASSUME NEW d \in Daemon, Connects(d, c), server' = [server EXCEPT ![c] = d],
               Advance(c, "connected")
        PROVE  ConnectionInv'
    <3>1. /\ \A e \in Daemon : \A i \in DOMAIN backlog'[e] :
               \/ i \in DOMAIN backlog[e] /\ backlog'[e][i] = backlog[e][i]
               \/ e = d /\ i \notin DOMAIN backlog[e] /\ i = Len(backlog[d]) + 1 /\ backlog'[e][i] = c
          /\ \A e \in Daemon : \A i \in DOMAIN backlog[e] :
               i \in DOMAIN backlog'[e] /\ backlog'[e][i] = backlog[e][i]
      BY <2>2, ConnectsFacts
    <3>2. OneConnection'
      BY <2>1, <2>2, <3>1 DEF Advance, ConnectionInv, OneConnection, TypeOK
    <3>3. ExecutionInv'
      <4>1. UNCHANGED <<executed, handled>> /\ executed[c] = 0
        BY <1>7, <2>1 DEF Connect
      <4>2. \A b \in Client : step'[b] = IF b = c THEN "connected" ELSE step[b]
        BY <2>2 DEF Advance, TypeOK
      <4>3. \A c1 \in Client :
            /\ executed'[c1] = 0 \/ (executed'[c1] = 1 /\ step'[c1] \in {"sent", "answered", "failed"})
            /\ step'[c1] = "answered" => executed'[c1] = 1
        BY <4>1, <4>2 DEF ConnectionInv, ExecutionInv
      <4>4. \A e \in Daemon : \A i \in DOMAIN backlog'[e] :
            backlog'[e][i] \in Client /\ executed'[backlog'[e][i]] # 0 => i = 1 /\ e \in handled'
        BY <3>1, <4>1 DEF ConnectionInv, ExecutionInv
      <4>5. \A e \in handled' :
            1 \in DOMAIN backlog'[e] /\ backlog'[e][1] \in Client /\ executed'[backlog'[e][1]] = 1
        BY <3>1, <4>1 DEF ConnectionInv, ExecutionInv, TypeOK
      <4> QED BY <4>3, <4>4, <4>5 DEF ExecutionInv
    <3> QED BY <3>2, <3>3 DEF ConnectionInv
  <2>3. CASE /\ UNCHANGED <<backlog, server>>
             /\ Advance(c, IF step[c] = "ready" /\ c \in Desktop THEN "spawning" ELSE "failed")
    BY <1>7, <2>1, <2>3, ClientMoves DEF Connect
  <2> QED BY <1>7, <2>2, <2>3 DEF Connect
<1>8. ASSUME NEW c \in Client, Lose(c) PROVE ConnectionInv'
  <2>1. \A d \in Daemon : \A i \in DOMAIN backlog[d] : backlog[d][i] # c
    BY <1>8, PathAssumption DEF Lose, Connected, ConnectionInv, OneConnection
  <2> QED BY <1>8, <2>1, ClientMoves DEF Lose
<1>9. ASSUME NEW c \in Client, Spawn(c) PROVE ConnectionInv'
  <2>1. UNCHANGED <<server, backlog, handled, executed>> /\ (Advance(c, "waiting") \/ Advance(c, "failed"))
    BY <1>9 DEF Spawn, Started
  <2> QED BY <1>9, <2>1, Unconnected, ClientMoves DEF Spawn
<1>10. ASSUME NEW c \in Client, Wait(c) PROVE ConnectionInv'
  <2>1. executed[c] = 0 /\ \A d \in Daemon : \A i \in DOMAIN backlog[d] : backlog[d][i] # c
    BY <1>10, Unconnected DEF Wait
  <2>2. ASSUME NEW d \in Daemon, Connects(d, Probe), Advance(c, "again") PROVE ConnectionInv'
    <3>1. UNCHANGED <<server, handled, executed>>
      BY <1>10 DEF Wait
    <3>2. \A b \in Client : step'[b] = IF b = c THEN "again" ELSE step[b]
      BY <2>2 DEF Advance, TypeOK
    <3> QED BY <2>1, <2>2, <3>1, <3>2, ProbeConnects
  <2>3. CASE UNCHANGED backlog /\ Advance(c, IF attempts[c] + 1 < Attempts THEN "waiting" ELSE "failed")
    BY <1>10, <2>1, <2>3, ClientMoves DEF Wait
  <2> QED BY <1>10, <2>2, <2>3 DEF Wait
<1>11. ASSUME NEW c \in Client, Request(c) PROVE ConnectionInv'
  <2>1. /\ step[c] \in {"connected", "sending"}
        /\ UNCHANGED <<server, backlog, handled, executed>>
        /\ \E next \in {"connected", "sending", "sent"} :
             \A b \in Client : step'[b] = IF b = c THEN next ELSE step[b]
    BY <1>11 DEF Request, Trickle, Pause, Send, Advance, TypeOK
  <2>2. executed[c] = 0
    BY <2>1 DEF ConnectionInv, ExecutionInv
  <2>3. OneConnection'
    BY <2>1 DEF ConnectionInv, OneConnection
  <2>4. ExecutionInv'
    BY <2>1, <2>2 DEF ConnectionInv, ExecutionInv
  <2> QED BY <2>3, <2>4 DEF ConnectionInv
<1>12. CASE UNCHANGED vars
  BY <1>12 DEF vars, clientVars, ConnectionInv, OneConnection, ExecutionInv
<1> QED
  BY <1>1, <1>2, <1>3, <1>4, <1>5, <1>6, <1>7, <1>8, <1>9, <1>10, <1>11, <1>12, ClientAssumption
  DEF Next, Claim, Serve, Drain, Proceed, Rest

-----------------------------------------------------------------------------
(* Theorems *)

LEMMA IpcInit == Init => IpcInv
<1> SUFFICES ASSUME Init PROVE IpcInv
  OBVIOUS
<1>1. TypeOK
  BY TypeInit
<1>2. GivesWay
  BY DEF Init, GivesWay
<1>3. Claimed
  BY PathAssumption DEF Init, Claimed
<1>4. \A d \in Daemon : DOMAIN backlog[d] = {}
  BY DEF Init
<1>5. OneConnection /\ ExecutionInv
  BY <1>4 DEF Init, OneConnection, ExecutionInv
<1> QED BY <1>1, <1>2, <1>3, <1>5 DEF IpcInv

\* The inductive invariant of the socket: who may hold the path, who gives way to
\* whom, and which connection a daemon is about to answer.
THEOREM IpcInvariant == Spec => []IpcInv
<1>1. IpcInv /\ [Next]_vars => IpcInv'
  BY TypeStep, GivesWayStep, ClaimedStep, ConnectionStep DEF IpcInv, ConnectionInv
<1> QED BY <1>1, IpcInit, PTL DEF Spec

\* A daemon that is started alone while another serves fails: it neither removes
\* the socket nor binds.
THEOREM SecondStartup == Spec => []SecondStartupFails
<1>1. IpcInv => SecondStartupFails
  BY DEF IpcInv, GivesWay, SecondStartupFails
<1> QED BY <1>1, IpcInvariant, PTL

\* Any number of startups that race leave a daemon that can be reached, if none dies.
THEOREM OneReachable == Spec => []StartupsLeaveOneReachable
<1>1. IpcInv => StartupsLeaveOneReachable
  <2> SUFFICES ASSUME IpcInv, deaths = 0, \A d \in Daemon : pc[d] \notin Starting,
                      \E d \in Daemon : pc[d] # "unstarted"
               PROVE  Reachable
    BY DEF StartupsLeaveOneReachable
  <2>1. path \in Daemon /\ pc[path] \in {"bound", "serving"}
    BY DEF IpcInv, Claimed
  <2> QED BY <2>1 DEF Starting, Reachable, Listening
<1> QED BY <1>1, IpcInvariant, PTL

\* No request is executed twice, with any number of daemons that start and die.
THEOREM AtMostOnce == Spec => []ExecutedAtMostOnce
<1>1. IpcInv => ExecutedAtMostOnce
  BY DEF IpcInv, TypeOK, ExecutionInv, ExecutedAtMostOnce
<1> QED BY <1>1, IpcInvariant, PTL
=============================================================================
