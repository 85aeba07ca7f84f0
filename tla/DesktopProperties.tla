-------------------------- MODULE DesktopProperties --------------------------
(***************************************************************************)
(* What the desktop's panels promise: the properties TLC checks in MCDesktop *)
(* and, but for the last, TLAPS proves in DesktopProofs.                     *)
(***************************************************************************)
EXTENDS Desktop

ListAnswer ==
  {a \in [blips : SUBSET Blip, first : SUBSET Blip, total : Nat, version : Nat] :
     a.first \subseteq a.blips}
Mode == {"plain", "silent", "pagination", "preserve"}
ListRequest ==
  [ws : Workspace, mode : Mode, page : Nat, previous : Nat, filter : {f \in Filter : f.valid},
   last : BOOLEAN, answer : ListAnswer \cup {Pending, Failed}]
DetailRequest == [blip : Blip, last : BOOLEAN]
RefreshRequest ==
  [background : BOOLEAN, at : Nat, listed : {Pending, Failed} \cup SUBSET Workspace,
   current : Workspace \cup {Pending, Failed}]
Action ==
  [kind : {"send", "create"}, ws : Workspace, blip : {NoBlip}, at : Nat,
   answer : Workspace \cup {Pending, Failed}]
  \cup
  [kind : {"copy"}, ws : Workspace, blip : Blip, at : Nat,
   answer : Workspace \cup {Pending, Failed}]
ReadyList ==
  [status : {"ready"}, blips : SUBSET Blip, page : Nat, total : Nat, turning : BOOLEAN,
   version : Nat]
Detail == [status : {"idle"}, blip : {NoBlip}] \cup
          [status : {"loading", "ready", "error"}, blip : Blip]

StoreTypeOK ==
  /\ sortAt \in [Blip -> Nat] /\ place \in [Blip -> Workspace]
  /\ workspaces \subseteq Workspace /\ active \in Workspace
  /\ version \in Nat
ListTypeOK ==
  /\ list \in {Idle, Loading, Error} \cup ReadyList
  /\ lists \subseteq ListRequest
  /\ inFlight \in BOOLEAN /\ newest \in Nat
DetailTypeOK ==
  picked \in Blip \cup {NoBlip} /\ detail \in Detail /\ details \subseteq DetailRequest
OtherTypeOK ==
  /\ selected \in Workspace \cup {NoWorkspace}
  /\ filter \in Filter /\ page \in Nat
  /\ known \subseteq Workspace /\ sending \in BOOLEAN
  /\ refreshes \subseteq RefreshRequest /\ actions \subseteq Action
  /\ events \in Nat
DesktopTypeOK == StoreTypeOK /\ ListTypeOK /\ DetailTypeOK /\ OtherTypeOK

\* The list never goes back: what is shown is the newest state of the store that
\* a list has ever shown, however many loads overlap and in whatever order they
\* are answered.  The request that counts was sent after that list was shown.
ListIsNewest ==
  /\ list.status = "ready" => list.version = newest
  /\ newest <= version
  /\ \A r \in lists : r.last /\ r.answer \notin {Pending, Failed} =>
       newest <= r.answer.version /\ r.answer.version <= version

\* The load under way is the last one that was asked for, or the timer would
\* wait for nothing for ever.
LastInFlight ==
  /\ inFlight => \E r \in lists : r.last
  /\ \A r, s \in lists : r.last /\ s.last => r = s

\* The detail panel is about the blip that is marked in the list, or will be: the
\* last request for details is for that blip and no other, however often lists that
\* come in the background mark another.
DetailFollows ==
  picked # NoBlip =>
    /\ \A r \in details : r.last => r.blip = picked
    /\ detail.blip = picked \/ \E r \in details : r.last
OneLastDetail == \A r, s \in details : r.last /\ s.last => r = s

\* The blip marked in a list that is shown is one of the list.
PickedIsListed ==
  list.status = "ready" /\ picked # NoBlip =>
    picked \in list.blips

DesktopInv ==
  DesktopTypeOK /\ ListIsNewest /\ LastInFlight /\ DetailFollows /\ OneLastDetail /\ PickedIsListed

UpToDate ==
  LET matching == Matching(IF filter.ws = All THEN selected ELSE filter.ws, filter)
  IN  /\ list.status = "ready"
      /\ list.blips = Page(matching, list.page)
      /\ list.total = Cardinality(matching)
\* The last load of the list has no answer.
Waiting == \E r \in lists : r.last /\ r.answer = Pending

=============================================================================
