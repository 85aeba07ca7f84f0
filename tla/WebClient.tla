------------------------------- MODULE WebClient -------------------------------
(***************************************************************************)
(* The web client of a hosted workspace (apps/web/src/main.tsx): it joins    *)
(* with a code and then asks every two seconds for the events after the     *)
(* last number it has seen.  A tick does not wait for the one before, so     *)
(* several polls can be under way, each with the session as it was when it   *)
(* was sent; an answer makes that session, with a new cursor, the current    *)
(* one, whatever the current one has become.  So does the answer to a join.   *)
(* Session and cursor are kept in the browser's storage, in step with the    *)
(* page.                                                                    *)
(*                                                                          *)
(* What the page shows (blips, presence) and its requests to change tags and *)
(* to record accesses, which are requests like any other, are left out.      *)
(***************************************************************************)
EXTENDS CloudService

CONSTANTS NoTab,       \* nobody is signed in
          Unanswered,
          MaxPending   \* bound on the page's requests under way

VARIABLES
  session,   \* the signed-in session with its lastSequence
  joins,     \* requests to join under way: Unanswered, or the session of the answer
  polls,     \* requests for events under way, with their answers
  delivered  \* history: events handed to the page, by member and number

webVars == <<session, joins, polls, delivered>>
TabSession == [member : Member, ws : Workspace, cursor : Nat]

ASSUME WebAssumption == {NoTab, Unanswered} \cap TabSession = {} /\ MaxPending \in Nat

WebInit ==
  /\ session = NoTab
  /\ joins = {}
  /\ polls = {}
  /\ delivered = {}

Room == Cardinality(polls) + Cardinality(joins) < MaxPending

\* submit.  The button is disabled while its panel joins, but not in a panel that
\* is shown anew after a late poll had brought an old session back: more than one
\* join can be under way, those without an answer being one in the set.
ClickJoin ==
  /\ session = NoTab
  /\ Room
  /\ joins' = joins \cup {Unanswered}
  /\ UNCHANGED <<vars, session, polls, delivered>>

\* The service answers a join: the cursor starts at workspace.last_sequence, which
\* it reads after it has inserted the event of the join.
WebJoin ==
  /\ Unanswered \in joins
  /\ InsertEvent
  /\ request.change.type = "member_joined"
  /\ request.change.actor \in credentials'
  /\ \E others \in {joins, joins \ {Unanswered}} :
       joins' = others \cup {[member |-> request.change.actor, ws |-> request.ws,
                              cursor |-> lastSequence[request.ws]]}
  /\ UNCHANGED <<session, polls, delivered>>

\* onJoined: storeSession and setSession, whoever is signed in by then.
Joined(j) ==
  /\ j # Unanswered
  /\ session' = j
  /\ joins' = joins \ {j}
  /\ UNCHANGED <<vars, polls, delivered>>

\* The request or its answer is lost, or the service refuses it.
LoseJoin(j) ==
  /\ joins' = joins \ {j}
  /\ UNCHANGED <<vars, session, polls, delivered>>

\* tick: a request for the events after the cursor
Poll ==
  /\ session # NoTab
  /\ Room
  /\ polls' = polls \cup {[session |-> session, events |-> Unanswered]}
  /\ UNCHANGED <<vars, session, joins, delivered>>

\* list_events, which holds the mutex: the numbers larger than the cursor
EventsAfter(s) == {i \in DOMAIN events[s.ws] : i > s.cursor}
AnswerPoll(p) ==
  /\ pc = "idle"
  /\ p.events = Unanswered
  /\ Authorized(p.session.member, p.session.ws, Role)
  /\ polls' = (polls \ {p}) \cup {[p EXCEPT !.events = EventsAfter(p.session)]}
  /\ UNCHANGED <<vars, session, joins, delivered>>

\* Mutant: the cursor is set to what the workspace has reached by now.
DeliverAndJump(p) ==
  /\ p.events # Unanswered
  /\ polls' = polls \ {p}
  /\ delivered' = delivered \cup ({p.session.member} \X p.events)
  /\ session' = IF p.events = {} THEN session
                ELSE [p.session EXCEPT !.cursor = lastSequence[p.session.ws]]
  /\ UNCHANGED <<vars, joins>>

\* The answer arrives: setSession and storeSession, with Math.max over its
\* events and the cursor it was asked with.
Deliver(p) ==
  /\ p.events # Unanswered
  /\ polls' = polls \ {p}
  /\ delivered' = delivered \cup ({p.session.member} \X p.events)
  /\ \/ p.events = {} /\ session' = session
     \/ \E n \in p.events :
          /\ \A i \in p.events : i <= n
          /\ session' = [p.session EXCEPT !.cursor = n]
  /\ UNCHANGED <<vars, joins>>

\* The request or its answer is lost, or the service refuses it.
LosePoll(p) ==
  /\ polls' = polls \ {p}
  /\ UNCHANGED <<vars, session, joins, delivered>>

SignOut ==
  /\ session # NoTab
  /\ session' = NoTab
  /\ UNCHANGED <<vars, joins, polls, delivered>>

\* The page is loaded again, with the session in the browser's storage.
Reload ==
  /\ polls # {} \/ joins # {}
  /\ polls' = {}
  /\ joins' = {}
  /\ UNCHANGED <<vars, session, delivered>>

WebStep ==
  \/ ClickJoin \/ Poll \/ SignOut \/ Reload
  \/ \E j \in joins : Joined(j) \/ LoseJoin(j)
  \/ \E p \in polls : AnswerPoll(p) \/ Deliver(p) \/ LosePoll(p)
=============================================================================
