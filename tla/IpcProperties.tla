----------------------------- MODULE IpcProperties -----------------------------
(***************************************************************************)
(* What the daemon's endpoint promises: the properties TLC checks in MCIpc. *)
(***************************************************************************)
EXTENDS IpcSocket

TypeOK ==
  /\ path \in Daemon \cup {Absent, Placeholder}
  /\ pc \in [Daemon -> Starting \cup {"unstarted", "serving", "failed", "dead"}]
  /\ backlog \in [Daemon -> Seq(Client \cup {Probe})]
  /\ handled \subseteq Daemon
  /\ step \in [Client -> Over \cup {"ready", "spawning", "waiting", "again", "connected", "sending", "sent"}]
  /\ server \in [Client -> Daemon \cup {NoDaemon}]
  /\ attempts \in [Client -> Nat]
  /\ executed \in [Client -> Nat]
  /\ deaths \in Nat
  /\ unrivalled \subseteq Daemon

\* A daemon that is started while another one serves at the path does not take
\* its place, if no other startup overlaps: it finds the socket answered and
\* fails ("a second daemon startup fails", docs/cli-operations.md).
SecondStartupFails ==
  \A d \in unrivalled : pc[d] \notin {"removing", "binding", "bound", "serving"}

\* However many startups race, each removing what it takes for a stale socket,
\* they do not all fail and the path does not stay empty: when all are over and
\* no daemon died, the daemon at the path serves.
StartupsLeaveOneReachable ==
  /\ deaths = 0
  /\ \A d \in Daemon : pc[d] \notin Starting
  /\ \E d \in Daemon : pc[d] # "unstarted"
  => Reachable

\* A request is executed once at most, although the desktop sends it again after
\* starting a daemon, and an answer means that it was executed.
ExecutedAtMostOnce ==
  \A c \in Client : executed[c] <= 1 /\ (step[c] = "answered" => executed[c] = 1)

\* The client a daemon waits for without a limit: its request keeps coming and
\* does not end, or it does not read an answer the socket cannot take.
Holds(c) ==
  \/ step[c] = "sending"
  \/ c \in Large /\ \E d \in Daemon : Serves(d, c) /\ d \in handled

\* Unless some client holds a daemon for ever, every client gets an answer or an
\* error in the end, whatever silent clients, dying daemons and stolen sockets are
\* in its way (the test idle_client_does_not_block_following_valid_request, for
\* any number of them).  The clients of the repository send in one go and read at
\* once; nothing in the daemon protects it from one that is stopped in between.
EveryRequestEnds ==
  (\A c \in Client : <>[]~Holds(c)) =>
    \A c \in Client : step[c] = "ready" ~> step[c] \in Over

\* "If blipd is already running at the configured socket, a second daemon startup
\* fails" (docs/cli-operations.md): no startup takes the path away from a daemon
\* that serves at it.
RunningDaemonKeepsPath == [][\A d \in Daemon : Listening(d) => path' = d]_vars

-----------------------------------------------------------------------------
(* The inductive invariant of IpcProofs *)

\* A startup without a rival is the only one, and the other daemon still serves.
GivesWay ==
  \A d \in unrivalled :
    /\ Reachable
    /\ pc[d] \in {"inspecting", "connecting", "failed"}
    /\ \A e \in Daemon : e # d => pc[e] \notin Starting

\* Without deaths, the path belongs to a daemon that serves or is about to, or
\* somebody is on the way to bind it; a file that is no socket stays only until
\* a startup goes past it.
Claimed ==
  deaths = 0 =>
    /\ \A d \in Daemon : pc[d] # "dead" /\ (path = d => pc[d] \in {"bound", "serving"})
    /\ path = Placeholder =>
         \A d \in Daemon : pc[d] \in {"unstarted", "inspecting", "removing"}
    /\ path \notin Daemon =>
         \/ \A d \in Daemon : pc[d] = "unstarted"
         \/ \E d \in Daemon : pc[d] \in Starting \ {"bound"}

\* A client has at most one connection, and none before it connects or after it
\* got its answer or its error.
OneConnection ==
  \A d \in Daemon : \A i \in DOMAIN backlog[d] : backlog[d][i] \in Client =>
    /\ server[backlog[d][i]] = d
    /\ step[backlog[d][i]] \in {"connected", "sending", "sent"}
    /\ \A j \in DOMAIN backlog[d] : backlog[d][j] = backlog[d][i] => i = j

\* What was executed was sent, and as long as its connection is open it is the
\* first of a daemon that is about to answer.
ExecutionInv ==
  /\ \A c \in Client :
       /\ executed[c] = 0 \/ (executed[c] = 1 /\ step[c] \in {"sent", "answered", "failed"})
       /\ step[c] = "answered" => executed[c] = 1
  /\ \A d \in Daemon : \A i \in DOMAIN backlog[d] :
       backlog[d][i] \in Client /\ executed[backlog[d][i]] # 0 => i = 1 /\ d \in handled
  /\ \A d \in handled :
       1 \in DOMAIN backlog[d] /\ backlog[d][1] \in Client /\ executed[backlog[d][1]] = 1

IpcInv == TypeOK /\ GivesWay /\ Claimed /\ OneConnection /\ ExecutionInv
=============================================================================
