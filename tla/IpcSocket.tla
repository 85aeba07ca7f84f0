------------------------------- MODULE IpcSocket -------------------------------
(***************************************************************************)
(* The daemon's Unix socket: how daemons claim the path and serve requests  *)
(* (src/crates/blip-daemon/src/ipc.rs), and how the desktop and the CLI     *)
(* send them (send_daemon_request_impl of src/apps/desktop/src-tauri and    *)
(* daemon_client.rs of blip-cli).                                           *)
(*                                                                          *)
(* Every call to the file system or the socket is a step.  The file at the  *)
(* path belongs to the daemon that bound it; it refuses connections before  *)
(* the daemon listens and after it died.  A daemon serves one connection at *)
(* a time.  It gives up on a client from which nothing comes, but neither   *)
(* on one that goes on sending a request it does not finish nor on one that *)
(* does not read an answer too large for the buffers of the socket.  A      *)
(* request is what one client sends; what it does is in BlipStore.          *)
(***************************************************************************)
EXTENDS Naturals, Sequences, FiniteSets

CONSTANTS Daemon,      \* processes of blipd, each started at most once
          Client,      \* requests, each from a client of its own
          Desktop,     \* those of the desktop: it starts a daemon when needed
          Large,       \* those whose answer does not fit the socket's buffers
          Absent,      \* there is nothing at the path
          Placeholder, \* a file that is no socket
          Probe,       \* a connection that was closed without a request
          NoDaemon,
          Attempts,    \* DAEMON_STARTUP_ATTEMPTS
          MaxDeaths    \* bound on the daemons that die

ASSUME PathAssumption == {Absent, Placeholder, NoDaemon} \cap Daemon = {} /\ Absent # Placeholder
ASSUME ClientAssumption == Desktop \subseteq Client /\ Large \subseteq Client /\ Probe \notin Client
ASSUME BoundAssumption == Attempts \in Nat \ {0} /\ MaxDeaths \in Nat

VARIABLES
  path,      \* what is at the path of the socket
  pc,        \* where each daemon is
  backlog,   \* the connections to each daemon, the one it serves first
  handled,   \* daemons that have executed the request they serve
  step,      \* where each client is
  server,    \* the daemon it is connected to
  attempts,  \* how often it has waited for a daemon
  executed,  \* how often its request was executed
  deaths,
  unrivalled \* history: a startup that began while another daemon served at
             \* the path and has met no other startup and no death since

daemonVars == <<path, pc, deaths, unrivalled>>
clientVars == <<step, server, attempts>>
vars == <<daemonVars, clientVars, backlog, handled, executed>>

Starting == {"inspecting", "connecting", "removing", "binding", "bound"}
Over == {"answered", "failed"}

\* A connection to the path is accepted, and by whom.
Listening(d) == path = d /\ pc[d] = "serving"
Reachable == \E d \in Daemon : Listening(d)
Goto(d, next) == pc' = [pc EXCEPT ![d] = next]
Connects(d, who) == backlog' = [backlog EXCEPT ![d] = Append(@, who)]

Init ==
  /\ path \in {Absent, Placeholder}
  /\ pc = [d \in Daemon |-> "unstarted"]
  /\ backlog = [d \in Daemon |-> << >>]
  /\ handled = {}
  /\ step = [c \in Client |-> "ready"]
  /\ server = [c \in Client |-> NoDaemon]
  /\ attempts = [c \in Client |-> 0]
  /\ executed = [c \in Client |-> 0]
  /\ deaths = 0
  /\ unrivalled = {}

-----------------------------------------------------------------------------
(* Startup *)

Started(d) ==
  /\ pc[d] = "unstarted"
  /\ Goto(d, "inspecting")
  /\ unrivalled' = IF Reachable /\ \A e \in Daemon : pc[e] \notin Starting THEN {d} ELSE {}
  /\ UNCHANGED <<path, deaths, backlog, handled, executed>>

\* By the service manager or in a terminal.
Start(d) == Started(d) /\ UNCHANGED clientVars

\* symlink_metadata
Inspect(d) ==
  /\ pc[d] = "inspecting"
  /\ Goto(d, CASE path = Absent -> "binding"
               [] path = Placeholder -> "removing"
               [] OTHER -> "connecting")
  /\ UNCHANGED <<path, deaths, unrivalled, clientVars, backlog, handled, executed>>

\* Mutant: a socket that is there is taken to be stale.
ConnectNever(d) ==
  /\ pc[d] = "connecting"
  /\ Goto(d, "removing")
  /\ UNCHANGED <<path, deaths, unrivalled, clientVars, backlog, handled, executed>>

\* A daemon that answers is running already; the connection is dropped.
ConnectOrGiveUp(d) ==
  /\ pc[d] = "connecting"
  /\ \/ \E e \in Daemon : Listening(e) /\ Connects(e, Probe) /\ Goto(d, "failed")
     \/ ~Reachable /\ Goto(d, IF path = Absent THEN "binding" ELSE "removing") /\ UNCHANGED backlog
  /\ UNCHANGED <<path, deaths, unrivalled, clientVars, handled, executed>>

\* remove_socket_file: whatever is at the path by now.
Remove(d) ==
  /\ pc[d] = "removing"
  /\ path' = Absent
  /\ Goto(d, "binding")
  /\ UNCHANGED <<deaths, unrivalled, clientVars, backlog, handled, executed>>

\* Mutant: a startup that fails to bind cleans up the file at the path.
BindOrCleanUp(d) ==
  /\ pc[d] = "binding"
  /\ IF path = Absent THEN path' = d /\ Goto(d, "bound") ELSE path' = Absent /\ Goto(d, "failed")
  /\ UNCHANGED <<deaths, unrivalled, clientVars, backlog, handled, executed>>

\* UnixListener::bind fails when there is a file, and listens afterwards.
Bind(d) ==
  /\ pc[d] = "binding"
  /\ IF path = Absent THEN path' = d /\ Goto(d, "bound") ELSE Goto(d, "failed") /\ UNCHANGED path
  /\ UNCHANGED <<deaths, unrivalled, clientVars, backlog, handled, executed>>

Listen(d) ==
  /\ pc[d] = "bound"
  /\ Goto(d, "serving")
  /\ UNCHANGED <<path, deaths, unrivalled, clientVars, backlog, handled, executed>>

\* Nothing removes the socket of a daemon that dies; its connections are closed.
Die(d) ==
  /\ pc[d] \in Starting \cup {"serving"}
  /\ deaths < MaxDeaths
  /\ deaths' = deaths + 1
  /\ Goto(d, "dead")
  /\ backlog' = [backlog EXCEPT ![d] = << >>]
  /\ handled' = handled \ {d}
  /\ unrivalled' = {}
  /\ UNCHANGED <<path, clientVars, executed>>

-----------------------------------------------------------------------------
(* Serving *)

Serves(d, who) == pc[d] = "serving" /\ backlog[d] # << >> /\ Head(backlog[d]) = who
Close(d) == backlog' = [backlog EXCEPT ![d] = Tail(@)]

\* read_line and the handler.
Execute(d, c) ==
  /\ Serves(d, c) /\ d \notin handled
  /\ step[c] = "sent"
  /\ executed' = [executed EXCEPT ![c] = @ + 1]
  /\ handled' = handled \cup {d}
  /\ UNCHANGED <<daemonVars, clientVars, backlog>>

\* Mutant: the mark that the request was executed outlives the connection.
AnswerAndKeepMark(d, c) ==
  /\ Serves(d, c) /\ d \in handled
  /\ step' = [step EXCEPT ![c] = "answered"]
  /\ Close(d)
  /\ UNCHANGED <<daemonVars, server, attempts, handled, executed>>

\* The answer is written and the connection closed.  Writes have no time limit.
Answer(d, c) ==
  /\ Serves(d, c) /\ d \in handled
  /\ step' = [step EXCEPT ![c] = "answered"]
  /\ handled' = handled \ {d}
  /\ Close(d)
  /\ UNCHANGED <<daemonVars, server, attempts, executed>>

\* Mutant: reads have no timeout.
NoTimeOut(d) ==
  /\ Serves(d, Probe)
  /\ Close(d)
  /\ UNCHANGED <<daemonVars, clientVars, handled, executed>>

\* EmptyRequest, and RequestTimeout: CLIENT_READ_TIMEOUT is for each read, so
\* it takes a client that has fallen silent, whatever it sent before.
TimeOut(d) ==
  /\ Serves(d, Probe) \/ \E c \in Client : Serves(d, c) /\ step[c] = "connected"
  /\ Close(d)
  /\ UNCHANGED <<daemonVars, clientVars, handled, executed>>

-----------------------------------------------------------------------------
(* Clients *)

Advance(c, next) == step' = [step EXCEPT ![c] = next]

\* UnixStream::connect of send_once; only the desktop tries again, once.
Connect(c) ==
  /\ step[c] \in {"ready", "again"}
  /\ \/ \E d \in Daemon : /\ Listening(d)
                         /\ Connects(d, c)
                         /\ server' = [server EXCEPT ![c] = d]
                         /\ Advance(c, "connected")
     \/ /\ ~Reachable
        /\ Advance(c, IF step[c] = "ready" /\ c \in Desktop THEN "spawning" ELSE "failed")
        /\ UNCHANGED <<backlog, server>>
  /\ UNCHANGED <<daemonVars, attempts, handled, executed>>

\* The connection is open as long as the daemon has not closed it.
Connected(c) == server[c] # NoDaemon /\ \E i \in DOMAIN backlog[server[c]] : backlog[server[c]][i] = c

\* A part of the request, and then silence.
Trickle(c) ==
  /\ step[c] = "connected"
  /\ Connected(c)
  /\ Advance(c, "sending")
  /\ UNCHANGED <<daemonVars, server, attempts, backlog, handled, executed>>
Pause(c) ==
  /\ step[c] = "sending"
  /\ Advance(c, "connected")
  /\ UNCHANGED <<daemonVars, server, attempts, backlog, handled, executed>>

\* The last of the request.
Send(c) ==
  /\ step[c] \in {"connected", "sending"}
  /\ Connected(c)
  /\ Advance(c, "sent")
  /\ UNCHANGED <<daemonVars, server, attempts, backlog, handled, executed>>

\* Mutant: the desktop starts a daemon after any error.
LoseAndRetry(c) ==
  /\ step[c] \in {"connected", "sending", "sent"}
  /\ ~Connected(c)
  /\ Advance(c, IF c \in Desktop THEN "again" ELSE "failed")
  /\ UNCHANGED <<daemonVars, server, attempts, backlog, handled, executed>>

\* The daemon closed the connection without an answer: the write or the read
\* fails, with an error daemon_needs_start does not know.
Lose(c) ==
  /\ step[c] \in {"connected", "sending", "sent"}
  /\ ~Connected(c)
  /\ Advance(c, "failed")
  /\ UNCHANGED <<daemonVars, server, attempts, backlog, handled, executed>>

\* start_daemon_sidecar, which can fail.
Spawn(c) ==
  /\ step[c] = "spawning"
  /\ \/ \E d \in Daemon : Started(d) /\ Advance(c, "waiting")
     \/ Advance(c, "failed") /\ UNCHANGED <<daemonVars, backlog, handled, executed>>
  /\ UNCHANGED <<server, attempts>>

\* wait_for_daemon: the connection that succeeds is dropped.
Wait(c) ==
  /\ step[c] = "waiting"
  /\ \/ \E d \in Daemon : Listening(d) /\ Connects(d, Probe) /\ Advance(c, "again") /\ UNCHANGED attempts
     \/ /\ ~Reachable
        /\ attempts' = [attempts EXCEPT ![c] = @ + 1]
        /\ Advance(c, IF attempts[c] + 1 < Attempts THEN "waiting" ELSE "failed")
        /\ UNCHANGED backlog
  /\ UNCHANGED <<daemonVars, server, handled, executed>>

-----------------------------------------------------------------------------
Claim(d) == Inspect(d) \/ ConnectOrGiveUp(d) \/ Remove(d) \/ Bind(d) \/ Listen(d)
\* What the daemon does by itself.
Serve(d) ==
  \/ \E c \in Client : Execute(d, c)
  \/ \E c \in Client \ Large : Answer(d, c)
  \/ TimeOut(d)
\* A large answer is written as fast as its client reads it.
Drain(d) == \E c \in Large : Answer(d, c)
\* A client may be suspended between its connection and the end of its request,
\* and before it has read its answer.
Request(c) == Trickle(c) \/ Pause(c) \/ Send(c)
Proceed(c) == Connect(c) \/ Lose(c) \/ Spawn(c) \/ Wait(c)

\* Everything has ended or waits for ever.
Rest == (\A c \in Client : step[c] \in Over) /\ UNCHANGED vars

Next ==
  \/ \E d \in Daemon : Start(d) \/ Claim(d) \/ Serve(d) \/ Drain(d) \/ Die(d)
  \/ \E c \in Client : Proceed(c) \/ Request(c)
  \/ Rest

\* A daemon goes on with what does not wait for a client, and a client with its
\* calls; nothing makes it go on with a request or read an answer.
Fairness ==
  /\ \A d \in Daemon : WF_vars(Claim(d)) /\ WF_vars(Serve(d))
  /\ \A c \in Client : WF_vars(Proceed(c))
Spec == Init /\ [][Next]_vars /\ Fairness
=============================================================================
