--------------------------- MODULE HostedProperties ---------------------------
(***************************************************************************)
(* What hosting promises the user of a device: the properties TLC checks in *)
(* MCHosted and TLAPS proves in HostedProofs.                               *)
(***************************************************************************)
EXTENDS HostedSystem

Sessions == Session \cup {NoSession}

HostedTypeOK ==
  /\ config \in Sessions \cup {Torn}
  /\ hosted \in [Daemon -> Sessions]
  /\ step \in [Daemon -> Step]
  /\ call \in [Daemon -> Call \cup {NoCall}]
  /\ reply \in [Daemon -> Reply \cup {NoReply}]
  /\ sender \in Daemon \cup {Other}
  /\ adrift \subseteq Call
  /\ rows \subseteq HostedRow
  /\ asked \in Nat
  /\ consents \subseteq Member \X Workspace
  /\ alone \in Daemon \cup {Other}
  /\ confirmed \in Sessions \cup {Nothing}

\* A session in memory or in the file is one the service knows: its member
\* belongs to the workspace, and the token reached this device.  And nothing is
\* shared but where the user said so, joining another workspace, starting again
\* and overwriting each other's file included.
Works(m, w) == m \in credentials /\ memberOf[m] = w
SessionProper(s) ==
  s \in Session => /\ Works(s.member, s.ws)
                   /\ s.share => <<s.member, s.ws>> \in consents
SessionsProper == SessionProper(config) /\ \A d \in Daemon : SessionProper(hosted[d])

\* What a join or a change of sharing that was reported as done has saved stays
\* in the file until the next save begins, whoever dies: the daemon that is
\* started next has that session.
SessionKept == confirmed # Nothing => config = confirmed

\* What the log of the device claims did happen, although publishes and joins
\* are cut short, answers are lost and daemons die in between: a row about a
\* publish names a blip that the service has in that workspace, with the number
\* of the event that announces it, and a row about a join names a member.
Announced(b, w, n) ==
  /\ b \in HostedBlip /\ blips[b] # NoBlip /\ blips[b].ws = w
  /\ n \in DOMAIN events[w]
  /\ events[w][n].type = "blip_published" /\ events[w][n].target = b
RowTruthful(r) ==
  /\ r.type = "hosted_blip_published" => Announced(r.item, r.ws, r.number)
  /\ r.type = "hosted_workspace_joined" => r.item \in Member /\ memberOf[r.item] = r.ws
RowsTruthful == \A r \in rows : RowTruthful(r)

\* The web client skips no event of its workspace since it joined: what is not
\* above its cursor was handed to the page, although polls overlap, answers come
\* late or never, an older session comes back, and the feed has gaps where
\* requests were cut short.
JoinEvent(s, i) ==
  events[s.ws][i].type = "member_joined" /\ events[s.ws][i].actor = s.member
SeenUpTo(s) ==
  \A j, i \in DOMAIN events[s.ws] :
    JoinEvent(s, j) /\ j < i /\ i <= s.cursor => <<s.member, i>> \in delivered
NothingSkipped == session # NoTab => SeenUpTo(session)

-----------------------------------------------------------------------------
(* The inductive invariant *)

\* Saves: while nobody else's save overlaps, the file is what the daemon writes.
SavesInv ==
  /\ confirmed # Nothing => \A d \in Daemon : ~At(d, "writing")
  /\ \A d \in Daemon : alone = d =>
       /\ step[d] \in {"writing", "recording"} => \A e \in Daemon \ {d} : ~At(e, "writing")
       /\ At(d, "writing") => config = Torn
       /\ At(d, "recording") => config = hosted[d]

\* An operation calls, and then either saves or records what was published.
CallsInv ==
  /\ \A d \in Daemon :
       /\ step[d] \in {"calling", "served", "answered"} =>
            call[d] # NoCall /\ call[d].kind \in {"join", "publish"}
       /\ step[d] \in {"saving", "writing", "recording"} =>
            call[d] # NoCall /\ call[d].kind \in {"join", "share"}
  /\ \A c \in adrift : c.kind \in {"join", "publish"}
  /\ \A c \in adrift \cup {call[d] : d \in Daemon} :
       c # NoCall /\ c.kind = "publish" => memberOf[c.member] = c.ws

\* The service works on what the daemon asked for.
SenderInv ==
  sender # Other =>
    /\ pc # "idle" /\ At(sender, "served")
    /\ call[sender].kind = "join" =>
         request.change.type = "member_joined" /\ request.change.target = request.change.actor
    /\ call[sender].kind = "publish" =>
         /\ request.change.type = "blip_published"
         /\ request.ws = call[sender].ws
         /\ request.change.target \in HostedBlip
         /\ pc \in {"number", "announce"}
         /\ blips[request.change.target] # NoBlip
         /\ blips[request.change.target].ws = request.ws
         /\ blips[request.change.target].sequence =
              lastSequence[request.ws] + (IF pc = "number" THEN 1 ELSE 0)

\* What a daemon was answered is so.
AnswersInv ==
  \A d \in Daemon :
    step[d] \in {"answered", "saving", "writing", "recording"} =>
      /\ call[d].kind = "join" =>
           reply[d] \in Reply /\ reply[d].item \in Member /\ Works(reply[d].item, reply[d].ws)
      /\ call[d].kind = "publish" =>
           reply[d] \in Reply /\ Announced(reply[d].item, call[d].ws, reply[d].number)

HostedInv ==
  /\ HostedTypeOK /\ SessionsProper /\ SessionKept /\ RowsTruthful
  /\ SavesInv /\ CallsInv /\ SenderInv /\ AnswersInv

\* A member that is being let in has done nothing yet.
FreshInv ==
  pc # "idle" /\ request.change.type = "member_joined" =>
    \A w \in Workspace : \A i \in DOMAIN events[w] : events[w][i].actor # request.change.actor

\* Sessions of the web client, the current one, those of joins that were answered
\* and those that polls carry, end at an event; an answer has every event up to its last.
TabInv(s) == s.cursor \in DOMAIN events[s.ws] /\ SeenUpTo(s)
WebInv ==
  /\ session \in TabSession \cup {NoTab}
  /\ session # NoTab => TabInv(session)
  /\ \A j \in joins \ {Unanswered} : j \in TabSession /\ TabInv(j)
  /\ \A p \in polls :
       /\ p.session \in TabSession /\ TabInv(p.session)
       /\ p.events # Unanswered =>
            /\ p.events \subseteq EventsAfter(p.session)
            /\ \A i \in EventsAfter(p.session) : \A j \in p.events : i <= j => i \in p.events

SystemInv == HostedInv /\ FreshInv /\ WebInv
=============================================================================
