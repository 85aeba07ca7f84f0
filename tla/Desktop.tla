-------------------------------- MODULE Desktop --------------------------------
(***************************************************************************)
(* The desktop's workspace selection, blip list and detail panel (App of     *)
(* apps/desktop/src/main.tsx).  Every load is a request whose answer is      *)
(* computed by the daemon at one moment and arrives at a later one, in any   *)
(* order.  In between the user selects, filters and turns pages, a timer     *)
(* loads the list again when no load is under way, and the store changes.    *)
(*                                                                          *)
(* App counts requests and remembers the last number; here the last request  *)
(* is the one marked "last", and requests that agree in everything are one;  *)
(* a refresh and an action carry the number of the click that began them.    *)
(* Actions take as arguments the values their closures were made with.  Left *)
(* out: messages, the workspaces' settings, the audit and shortcut panels,   *)
(* and of the hosted panel all but the refresh its actions end with.         *)
(***************************************************************************)
EXTENDS DaemonRequests

CONSTANTS NoWorkspace, NoBlip,
          Pending,    \* no answer yet
          Filters,    \* the filters the user chooses from
          MaxEvents   \* bound on clicks and on requests that fail

Filter == [ws : Workspace \cup {All}, types : SUBSET Type, valid : BOOLEAN]
DefaultFilter == [ws |-> All, types |-> {}, valid |-> TRUE]

ASSUME DesktopAssumption ==
  /\ NoWorkspace \notin Workspace
  /\ NoBlip \notin Blip
  /\ {Pending, Failed} \cap (Blip \cup Workspace) = {}
  /\ \A names \in SUBSET Workspace : names \notin {Pending, Failed}
  /\ Pending # Failed
  /\ Filters \subseteq Filter
  /\ MaxEvents \in Nat

VARIABLES
  selected,   \* selectedWorkspace
  filter,     \* blipFiltersRef
  page,       \* blipPageRef
  list,       \* blipState
  picked,     \* selectedBlipId
  detail,     \* detailState
  inFlight,   \* blipRequestInFlightRef
  known,      \* the names in workspaceState, empty until it is "ready"
  sending,    \* sendState is "sending"
  lists, details, refreshes, actions,  \* requests under way
  events,     \* the number of clicks and of failures so far
  newest      \* history: the newest state of the store a list has shown

panels == <<selected, filter, page, list, picked, detail, inFlight, known, sending, newest>>
requests == <<lists, details, refreshes, actions>>
desktopVars == <<panels, requests, events>>
vars == <<storeVars, desktopVars>>

Idle == [status |-> "idle"]
Loading == [status |-> "loading"]
Error == [status |-> "error"]

\* hasLoadedWorkspacesRef
Loaded == known # {}

Refresh(background, click) ==
  [background |-> background, at |-> click, listed |-> Pending, current |-> Pending]

Init ==
  /\ StoreInit
  /\ selected = NoWorkspace
  /\ filter = DefaultFilter
  /\ page = 0
  /\ list = Idle
  /\ picked = NoBlip
  /\ detail = [status |-> "idle", blip |-> NoBlip]
  /\ inFlight = FALSE
  /\ known = {}
  /\ sending = FALSE
  /\ lists = {} /\ details = {} /\ actions = {}
  /\ refreshes = {Refresh(FALSE, 0)}
  /\ events = 0
  /\ newest = 0

-----------------------------------------------------------------------------
(* Loads *)

NotLast(rs) == {[r EXCEPT !.last = FALSE] : r \in rs}

\* loadBlips, with the list as its caller leaves it and the list requests that
\* are left: an invalid filter loads nothing.
LoadBlips(w, mode, p, previous, f, shown, left) ==
  IF f.valid
  THEN /\ lists' = NotLast(left) \cup
            {[ws |-> w, mode |-> mode, page |-> p, previous |-> previous, filter |-> f,
              last |-> TRUE, answer |-> Pending]}
       /\ inFlight' = TRUE
       /\ list' = IF mode = "plain" THEN Loading ELSE shown
  ELSE /\ lists' = left
       /\ list' = shown
       /\ UNCHANGED inFlight

\* loadDetail
LoadDetail(b, silent) ==
  /\ picked' = b
  /\ details' = NotLast(details) \cup {[blip |-> b, last |-> TRUE]}
  /\ detail' = IF silent THEN detail ELSE [status |-> "loading", blip |-> b]

\* detailRequestRef moves on without a request.
ClearDetail ==
  /\ picked' = NoBlip
  /\ details' = NotLast(details)
  /\ detail' = [status |-> "idle", blip |-> NoBlip]

detailPanel == <<picked, detail, details>>
others == <<storeVars, events>>

-----------------------------------------------------------------------------
(* Answers to list requests *)

\* setBlipState "ready", and the selection that follows it
Show(r) ==
  /\ page' = r.page
  /\ list' = [status |-> "ready", blips |-> r.answer.blips, page |-> r.page,
              total |-> r.answer.total, turning |-> FALSE, version |-> r.answer.version]
  /\ newest' = IF r.answer.version > newest THEN r.answer.version ELSE newest
  /\ lists' = lists \ {r}
  /\ inFlight' = FALSE
  /\ IF picked \in r.answer.blips THEN UNCHANGED detailPanel
     ELSE IF r.answer.blips = {} THEN ClearDetail
     ELSE \E b \in r.answer.first : LoadDetail(b, r.mode # "plain")

\* totalPages - 1
LastPage(total) == IF total = 0 THEN 0 ELSE (total - 1) \div PerPage

\* The page is gone: load the last one instead.
Clamp(r) ==
  /\ page' = LastPage(r.answer.total)
  /\ LoadBlips(r.ws, "pagination", page', r.page, r.filter, list, lists \ {r})
  /\ UNCHANGED <<detailPanel, newest>>

\* The answer is about the selected workspace and nothing was asked since.
Wanted(r) == r.ws = selected /\ r.last

\* Mutant: blipRequestRef is not looked at.
ListArrivesUnasked(r) ==
  /\ r.answer \notin {Pending, Failed}
  /\ r.ws = selected
  /\ IF r.page > LastPage(r.answer.total) THEN Clamp(r) ELSE Show(r)
  /\ UNCHANGED <<others, selected, filter, known, sending, refreshes, actions>>

ListArrives(r) ==
  /\ r.answer \notin {Pending, Failed}
  /\ Wanted(r)
  /\ IF r.page > LastPage(r.answer.total) THEN Clamp(r) ELSE Show(r)
  /\ UNCHANGED <<others, selected, filter, known, sending, refreshes, actions>>

\* then and catch do nothing; finally still ends the flight of the last one.
ListDropped(r) ==
  /\ r.answer # Pending
  /\ ~Wanted(r)
  /\ lists' = lists \ {r}
  /\ inFlight' = IF r.last THEN FALSE ELSE inFlight
  /\ UNCHANGED <<others, selected, filter, page, list, picked, detail, known, sending, newest,
                 details, refreshes, actions>>


\* catch: each mode of loading has its own way to say so.
ListFails(r) ==
  /\ r.answer = Failed
  /\ Wanted(r)
  /\ lists' = lists \ {r}
  /\ inFlight' = FALSE
  /\ page' = IF r.mode = "pagination" THEN r.previous ELSE page
  /\ list' = IF r.mode \in {"pagination", "preserve"} /\ list.status = "ready"
             THEN [list EXCEPT !.turning = FALSE]
             ELSE IF r.mode \in {"plain", "preserve"} THEN Error ELSE list
  /\ IF r.mode = "plain" THEN ClearDetail ELSE UNCHANGED detailPanel
  /\ UNCHANGED <<others, selected, filter, known, sending, newest, refreshes, actions>>

\* get_blip answers: only the last request counts.  What it says of a blip never
\* changes, so that it matters when it arrives and not when it was given.
DetailArrives(r) ==
  /\ details' = details \ {r}
  /\ \E answer \in GetBlip(r.blip) :
       detail' = IF ~r.last THEN detail
                 ELSE [status |-> IF answer = Failed THEN "error" ELSE "ready", blip |-> r.blip]
  /\ UNCHANGED <<others, selected, filter, page, list, picked, inFlight, known, sending, newest,
                 lists, refreshes, actions>>

-----------------------------------------------------------------------------
(* The timer and the answers to a refresh *)

\* scheduleRefresh: the timer of the selected workspace runs all the time.
AutoRefresh ==
  /\ selected # NoWorkspace
  /\ ~inFlight
  /\ LoadBlips(selected, "silent", page, page, filter, list, lists)
  /\ UNCHANGED <<others, selected, filter, page, known, sending, newest, detailPanel,
                 refreshes, actions>>

\* refresh: both answers are there.
RefreshArrives(r) ==
  /\ r.listed \notin {Pending, Failed} /\ r.current \notin {Pending, Failed}
  /\ refreshes' = refreshes \ {r}
  /\ known' = r.listed
  /\ selected' = IF selected \in r.listed THEN selected ELSE r.current
  /\ LoadBlips(selected', IF r.background THEN "silent" ELSE "plain", page, page, filter, list, lists)
  /\ UNCHANGED <<others, filter, page, sending, newest, detailPanel, actions>>

\* One of the two failed.  Before the first success this resets the panels.
RefreshFails(r) ==
  /\ Failed \in {r.listed, r.current}
  /\ refreshes' = refreshes \ {r}
  /\ IF Loaded THEN UNCHANGED <<list, picked, detail>>
     ELSE /\ list' = Idle
          /\ picked' = NoBlip
          /\ detail' = [status |-> "idle", blip |-> NoBlip]
  /\ UNCHANGED <<others, selected, filter, page, inFlight, known, sending, newest,
                 lists, details, actions>>

-----------------------------------------------------------------------------
(* What the user does *)

Click == events < MaxEvents /\ events' = events + 1

\* refresh: the button, which is disabled while it works, or the end of a hosted
\* join or change of sharing, which does not ask whether a refresh is under way.
ClickRefresh ==
  /\ Click
  /\ refreshes' = refreshes \cup {Refresh(Loaded, events')}
  /\ UNCHANGED <<storeVars, panels, lists, details, actions>>

\* selectWorkspace, from the sidebar or when a workspace was created
SelectWorkspace(w) ==
  /\ selected' = w
  /\ page' = 0
  /\ sending' = FALSE
  /\ ClearDetail
  /\ LoadBlips(w, "plain", 0, 0, filter, list, lists)
  /\ UNCHANGED <<filter, newest, refreshes>>

ClickWorkspace(w) ==
  /\ Click
  /\ w \in known
  /\ SelectWorkspace(w)
  /\ UNCHANGED <<storeVars, known, actions>>

\* onSelect of BlipList
ClickBlip(b) ==
  /\ Click
  /\ list.status = "ready" /\ b \in list.blips
  /\ LoadDetail(b, FALSE)
  /\ UNCHANGED <<storeVars, selected, filter, page, list, inFlight, known, sending,
                 newest, lists, refreshes, actions>>

\* selectBlipPage: the buttons are disabled while a page is turned.
ClickPage(p) ==
  /\ Click
  /\ selected # NoWorkspace
  /\ list.status = "ready" /\ list.blips # {} /\ ~list.turning
  /\ p \in 0..LastPage(list.total) \ {list.page}
  /\ page' = p
  /\ LoadBlips(selected, "pagination", p, list.page, filter, [list EXCEPT !.turning = TRUE], lists)
  /\ UNCHANGED <<storeVars, selected, filter, known, sending, newest, detailPanel,
                 refreshes, actions>>

\* updateBlipFilters
ClickFilter(f) ==
  /\ Click
  /\ selected # NoWorkspace
  /\ filter' = f
  /\ page' = 0
  /\ LoadBlips(selected, "preserve", 0, 0, f,
               IF f.valid /\ list.status = "ready" THEN [list EXCEPT !.turning = TRUE] ELSE list,
               lists)
  /\ UNCHANGED <<storeVars, selected, known, sending, newest, detailPanel, refreshes,
                 actions>>

\* sendLatestToSelectedWorkspace, submitWorkspaceCreate, copyText up to their request
Ask(kind, w, b) ==
  /\ Click
  /\ actions' = actions \cup
       {[kind |-> kind, ws |-> w, blip |-> b, at |-> events', answer |-> Pending]}
  /\ UNCHANGED <<storeVars, selected, filter, page, list, picked, detail, inFlight, known,
                 newest, lists, details, refreshes>>

ClickSend ==
  /\ selected \in known \ {Inbox} /\ ~sending
  /\ sending' = TRUE
  /\ Ask("send", selected, NoBlip)

ClickCreate(w) ==
  /\ \A a \in actions : a.kind # "create"
  /\ UNCHANGED sending
  /\ Ask("create", w, NoBlip)

\* An image can be copied again while a copy of it is under way, a text once
\* another blip was shown in between, and other blips at any time.
ClickCopy ==
  /\ selected # NoWorkspace /\ detail.status = "ready"
  /\ UNCHANGED sending
  /\ Ask("copy", selected, detail.blip)

-----------------------------------------------------------------------------
(* Answers to what the user did *)

CreateArrives(a) ==
  /\ a.kind = "create" /\ a.answer \notin {Pending, Failed}
  /\ actions' = actions \ {a}
  /\ known' = IF Loaded THEN known \cup {a.ws} ELSE known
  /\ SelectWorkspace(a.ws)
  /\ UNCHANGED others

\* These two load the list of the workspace that was selected at the click.
SendArrives(a) ==
  /\ a.kind = "send" /\ a.answer \notin {Pending, Failed}
  /\ actions' = actions \ {a}
  /\ sending' = FALSE
  /\ page' = 0
  /\ LoadBlips(a.ws, "plain", 0, 0, filter, list, lists)
  /\ UNCHANGED <<others, selected, filter, known, newest, detailPanel, refreshes>>

CopyArrives(a) ==
  /\ a.kind = "copy" /\ a.answer \notin {Pending, Failed}
  /\ actions' = actions \ {a}
  /\ page' = 0
  /\ LoadBlips(a.ws, "silent", 0, 0, filter, list, lists)
  /\ UNCHANGED <<others, selected, filter, known, sending, newest, detailPanel, refreshes>>

ActionFails(a) ==
  /\ a.answer = Failed
  /\ actions' = actions \ {a}
  /\ sending' = IF a.kind = "send" THEN FALSE ELSE sending
  /\ UNCHANGED <<others, selected, filter, page, list, picked, detail, inFlight, known, newest,
                 lists, details, refreshes>>

-----------------------------------------------------------------------------
(* The daemon *)

WithAnswer(rs, r, answer) == (rs \ {r}) \cup {[r EXCEPT !.answer = answer]}

TargetOf(r) == IF r.filter.ws = All THEN r.ws ELSE r.filter.ws

\* The request is executed, or fails (no daemon, a daemon that dies, a store error).
Outcome(answer) ==
  {<<answer, events>>} \cup
  (IF events < MaxEvents THEN {<<Failed, events + 1>>} ELSE {})

AnswerList(r) ==
  /\ r.answer = Pending
  /\ \E o \in Outcome(ListBlips(TargetOf(r), r.filter, r.page)) :
       /\ lists' = WithAnswer(lists, r, o[1])
       /\ events' = o[2]
  /\ UNCHANGED <<storeVars, panels, details, refreshes, actions>>

AnswerRefresh(r) ==
  /\ \/ /\ r.listed = Pending
        /\ \E o \in Outcome(ListWorkspaces) :
             /\ refreshes' = (refreshes \ {r}) \cup {[r EXCEPT !.listed = o[1]]}
             /\ events' = o[2]
     \/ /\ r.current = Pending
        /\ \E o \in Outcome(CurrentWorkspace) :
             /\ refreshes' = (refreshes \ {r}) \cup {[r EXCEPT !.current = o[1]]}
             /\ events' = o[2]
  /\ UNCHANGED <<storeVars, panels, lists, details, actions>>

Does(a) ==
  \/ a.kind = "send" /\ RouteLatestInboxBlip(a.ws)
  \/ a.kind = "create" /\ CreateWorkspace(a.ws)
  \/ a.kind = "copy" /\ RecopyBlip(a.blip)
AnswerAction(a) ==
  /\ a.answer = Pending
  /\ Does(a)
  /\ \E o \in Outcome(a.ws) :
       /\ actions' = WithAnswer(actions, a, o[1])
       /\ events' = o[2]
  /\ UNCHANGED <<panels, lists, details, refreshes>>

\* The store refuses or is busy: no such blip or workspace, one that exists, an
\* empty inbox.
RefuseAction(a) ==
  /\ a.answer = Pending
  /\ actions' = WithAnswer(actions, a, Failed)
  /\ UNCHANGED <<others, panels, lists, details, refreshes>>

-----------------------------------------------------------------------------
Answer ==
  \/ \E r \in lists : AnswerList(r)
  \/ \E r \in refreshes : AnswerRefresh(r)
  \/ \E a \in actions : AnswerAction(a) \/ RefuseAction(a)

Arrive ==
  \/ \E r \in lists : ListArrives(r) \/ ListDropped(r) \/ ListFails(r)
  \/ \E r \in details : DetailArrives(r)
  \/ \E r \in refreshes : RefreshArrives(r) \/ RefreshFails(r)
  \/ \E a \in actions : CreateArrives(a) \/ SendArrives(a) \/ CopyArrives(a) \/ ActionFails(a)

User ==
  \/ ClickRefresh \/ ClickSend \/ ClickCopy
  \/ \E w \in Workspace : ClickWorkspace(w) \/ ClickCreate(w)
  \/ \E b \in Blip : ClickBlip(b)
  \/ \E p \in 0..Cardinality(Blip) : ClickPage(p)
  \/ \E f \in Filters : ClickFilter(f)

Next ==
  \/ Answer \/ Arrive \/ AutoRefresh \/ User
  \/ Elsewhere /\ UNCHANGED desktopVars

\* The handlers of answers run, and the timer fires.  No request has a time limit,
\* neither here nor in the shell that passes it on nor in the daemon: whether it
\* is ever answered is left open.
Fairness == WF_vars(Arrive) /\ WF_vars(AutoRefresh)

Spec == Init /\ [][Next]_vars /\ Fairness
=============================================================================
