---------------------------- MODULE DaemonRequests ----------------------------
(***************************************************************************)
(* What a daemon answers to the requests of the desktop's list and detail    *)
(* panels, and how the blips it answers about change: through the desktop's  *)
(* own requests, and through captures, other clients and retention at any    *)
(* time.  A request is one transaction of the store; BlipStore has the       *)
(* audit rows, policies and limits that these operations also involve.       *)
(*                                                                          *)
(* Of a blip the list needs its place, its type and its rank: sort_at, or    *)
(* created_at until it is copied again, and then rowid, here one number.     *)
(* Dates of capture are left out: their bounds select blips as types do.     *)
(* Workspaces are never removed.                                             *)
(***************************************************************************)
EXTENDS Naturals, FiniteSets

CONSTANTS Workspace, Inbox, Blip, Type,
          TypeOf,      \* blip_type of classified_blips, for each blip
          All,         \* ALL_WORKSPACES_FILTER
          PerPage,     \* BLIPS_PER_PAGE
          Failed,      \* any answer that is not the expected one
          Start,       \* stores at the start: sortAt, workspaces and active
          MaxVersion   \* bound on the changes to the store

ASSUME RequestsAssumption ==
  /\ Inbox \in Workspace
  /\ All \notin Workspace
  /\ IsFiniteSet(Blip)
  /\ TypeOf \in [Blip -> Type]
  /\ PerPage \in Nat \ {0}
  /\ \A store \in Start :
       /\ store.sortAt \in [Blip -> 0..Cardinality(Blip)]
       /\ Inbox \in store.workspaces /\ store.workspaces \subseteq Workspace
       /\ store.active \in store.workspaces
  /\ MaxVersion \in Nat

VARIABLES
  sortAt,     \* the rank of each blip, 0 when it is not in the store
  place,      \* blips.workspace_name
  workspaces, \* names in table workspaces
  active,     \* app_state: active_workspace
  version     \* history: the number of changes so far

storeVars == <<sortAt, place, workspaces, active, version>>

\* What an earlier session of the desktop or another client has left.
StoreInit ==
  /\ place = [b \in Blip |-> Inbox]
  /\ \E store \in Start :
       /\ sortAt = store.sortAt
       /\ workspaces = store.workspaces
       /\ active = store.active
  /\ version = 0

Stored(b) == sortAt[b] # 0

\* Later than every rank so far.
Now == Cardinality(Blip) + version + 1

-----------------------------------------------------------------------------
(* Changes *)

Changed == version < MaxVersion /\ version' = version + 1

\* insert_blip: a new row sorts first.
Capture(b, w) ==
  /\ ~Stored(b) /\ w \in workspaces
  /\ sortAt' = [sortAt EXCEPT ![b] = Now]
  /\ place' = [place EXCEPT ![b] = w]
  /\ Changed
  /\ UNCHANGED <<workspaces, active>>

\* RouteBlip: move_blip keeps the rank.
RouteBlip(b, w) ==
  /\ Stored(b) /\ w \in workspaces
  /\ place' = [place EXCEPT ![b] = w]
  /\ Changed
  /\ UNCHANGED <<sortAt, workspaces, active>>

\* The blips of a set that are listed first: one, or none in the empty set.
First(blips) == {b \in blips : \A c \in blips : sortAt[c] <= sortAt[b]}

\* RouteLatestInboxBlip
RouteLatestInboxBlip(w) ==
  \E b \in First({c \in Blip : Stored(c) /\ place[c] = Inbox}) : RouteBlip(b, w)

\* RecopyBlip: sort_at becomes later than that of every other blip.
RecopyBlip(b) ==
  /\ Stored(b)
  /\ sortAt' = [sortAt EXCEPT ![b] = Now]
  /\ Changed
  /\ UNCHANGED <<place, workspaces, active>>

\* Retention
Remove(b) ==
  /\ Stored(b)
  /\ sortAt' = [sortAt EXCEPT ![b] = 0]
  /\ Changed
  /\ UNCHANGED <<place, workspaces, active>>

CreateWorkspace(w) ==
  /\ w \notin workspaces
  /\ workspaces' = workspaces \cup {w}
  /\ Changed
  /\ UNCHANGED <<sortAt, place, active>>

ActivateWorkspace(w) ==
  /\ w \in workspaces
  /\ active' = w
  /\ Changed
  /\ UNCHANGED <<sortAt, place, workspaces>>

\* What goes on without the desktop.
Elsewhere ==
  \/ \E b \in Blip, w \in Workspace : Capture(b, w) \/ RouteBlip(b, w)
  \/ \E b \in Blip : RecopyBlip(b) \/ Remove(b)
  \/ \E w \in Workspace : CreateWorkspace(w) \/ ActivateWorkspace(w)

-----------------------------------------------------------------------------
(* Answers *)

\* FILTERED_BLIPS_WHERE: no types select every type.
Matches(b, w, filter) ==
  /\ filter.ws = All \/ place[b] = w
  /\ filter.types = {} \/ TypeOf[b] \in filter.types
Matching(w, filter) == {b \in Blip : Stored(b) /\ Matches(b, w, filter)}

\* LIMIT and OFFSET: the blips with so many before them
Page(blips, page) ==
  {b \in blips : Cardinality({c \in blips : sortAt[c] > sortAt[b]}) \div PerPage = page}

\* ListBlips, with the count and the page of one read transaction
ListBlips(w, filter, page) ==
  LET matching == Matching(w, filter)
  IN  IF w \notin workspaces THEN Failed
      ELSE [blips |-> Page(matching, page), first |-> First(Page(matching, page)),
            total |-> Cardinality(matching), version |-> version]

\* GetBlip of a blip that some list showed: retention may have removed it by then.
GetBlip(b) == {b, Failed}
ListWorkspaces == workspaces
CurrentWorkspace == active
=============================================================================
