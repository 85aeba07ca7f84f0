----------------------------- MODULE DesktopProofs -----------------------------
(***************************************************************************)
(* DesktopInv holds for every number of blips, workspaces, clicks, failures  *)
(* and changes to the store.  The panels fall into two parts that actions    *)
(* change as a whole: the list with its requests (ListInv) and the detail    *)
(* with its requests (DetailInv).  What LoadBlips, LoadDetail and            *)
(* ClearDetail do to them is proved once, and each action is made of these.  *)
(***************************************************************************)
EXTENDS DesktopProperties, FiniteSetTheorems, TLAPS

ListInv == ListTypeOK /\ ListIsNewest /\ LastInFlight
DetailInv == DetailTypeOK /\ DetailFollows /\ OneLastDetail
Parts == StoreTypeOK /\ ListInv /\ DetailInv /\ OtherTypeOK /\ PickedIsListed

LEMMA InParts == DesktopInv <=> Parts
BY DEF DesktopInv, DesktopTypeOK, Parts, ListInv, DetailInv

-----------------------------------------------------------------------------
(* The store *)

StoreStep == StoreTypeOK' /\ version <= version'

LEMMA RouteStep ==
  ASSUME StoreTypeOK, NEW b \in Blip, NEW w, RouteBlip(b, w)
  PROVE  StoreStep
BY DEF StoreStep, StoreTypeOK, RouteBlip, Changed

LEMMA RecopyStep ==
  ASSUME StoreTypeOK, NEW b \in Blip, RecopyBlip(b)
  PROVE  StoreStep
<1>1. Cardinality(Blip) \in Nat
  BY FS_CardinalityType, RequestsAssumption
<1> QED
  BY <1>1 DEF StoreStep, StoreTypeOK, RecopyBlip, Changed, Now

LEMMA CreateStep ==
  ASSUME StoreTypeOK, NEW w \in Workspace, CreateWorkspace(w)
  PROVE  StoreStep
BY DEF StoreStep, StoreTypeOK, CreateWorkspace, Changed

LEMMA ElsewhereStep ==
  ASSUME StoreTypeOK, Elsewhere
  PROVE  StoreStep
<1>1. Cardinality(Blip) \in Nat
  BY FS_CardinalityType, RequestsAssumption
<1>2. ASSUME NEW b \in Blip, NEW w \in Workspace, Capture(b, w)
      PROVE  StoreStep
  BY <1>1, <1>2 DEF StoreStep, StoreTypeOK, Capture, Changed, Now
<1>3. ASSUME NEW b \in Blip, Remove(b)
      PROVE  StoreStep
  BY <1>3 DEF StoreStep, StoreTypeOK, Remove, Changed
<1>4. ASSUME NEW w \in Workspace, ActivateWorkspace(w)
      PROVE  StoreStep
  BY <1>4 DEF StoreStep, StoreTypeOK, ActivateWorkspace, Changed
<1> QED
  BY <1>2, <1>3, <1>4, RouteStep, RecopyStep, CreateStep DEF Elsewhere

\* The page that ListBlips answers with, and its last page number.
LEMMA AnswerType ==
  ASSUME StoreTypeOK, NEW w, NEW f, NEW p
  PROVE  /\ ListBlips(w, f, p) \in ListAnswer \cup {Failed}
         /\ ListBlips(w, f, p) # Failed => ListBlips(w, f, p).version = version
<1>1. Matching(w, f) \subseteq Blip
  BY DEF Matching
<1>2. Cardinality(Matching(w, f)) \in Nat
  BY <1>1, FS_Subset, FS_CardinalityType, RequestsAssumption
<1>3. /\ Page(Matching(w, f), p) \subseteq Blip
      /\ First(Page(Matching(w, f), p)) \subseteq Page(Matching(w, f), p)
  BY <1>1 DEF Page, First
<1> QED
  BY <1>2, <1>3 DEF ListBlips, ListAnswer, StoreTypeOK

LEMMA LastPageType ==
  ASSUME NEW total \in Nat
  PROVE  LastPage(total) \in Nat
BY RequestsAssumption DEF LastPage

-----------------------------------------------------------------------------
(* The list and its requests *)

LEMMA NotLastType ==
  ASSUME NEW rs, rs \subseteq ListRequest
  PROVE  /\ NotLast(rs) \subseteq ListRequest
         /\ \A r \in NotLast(rs) : ~r.last
BY DEF NotLast, ListRequest

\* loadBlips leaves one request that counts, newer than all that was shown.
LEMMA LoadBlipsStep ==
  ASSUME NEW w \in Workspace, NEW mode \in Mode, NEW p \in Nat, NEW previous \in Nat,
         NEW f \in Filter, NEW shown \in {Idle, Loading, Error} \cup ReadyList,
         NEW left \in SUBSET lists,
         ListInv, UNCHANGED <<newest, version>>,
         shown.status = "ready" => shown.version = newest,
         f.valid \/ left = lists,
         LoadBlips(w, mode, p, previous, f, shown, left)
  PROVE  ListInv' /\ (list'.status = "ready" => list' = shown)
<1>1. ListTypeOK /\ ListIsNewest /\ LastInFlight /\ left \subseteq ListRequest
  BY DEF ListInv, ListTypeOK
<1>2. CASE f.valid
  <2> DEFINE new == [ws |-> w, mode |-> mode, page |-> p, previous |-> previous, filter |-> f,
                     last |-> TRUE, answer |-> Pending]
  <2>1. /\ lists' = NotLast(left) \cup {new} /\ inFlight' = TRUE
        /\ list' = IF mode = "plain" THEN Loading ELSE shown
    BY <1>2 DEF LoadBlips
  <2>2. new \in ListRequest
    BY <1>2 DEF ListRequest
  <2>3. lists' \subseteq ListRequest /\ \A r \in lists' : r.last => r = new
    BY <1>1, <2>1, <2>2, NotLastType
  <2>4. ListTypeOK'
    BY <1>1, <2>1, <2>3 DEF ListTypeOK
  <2>5. ListIsNewest'
    BY <1>1, <2>1, <2>3 DEF ListIsNewest, Loading
  <2>6. LastInFlight'
    <3>1. new \in lists' /\ new.last
      BY <2>1
    <3> QED
      BY <2>3, <3>1 DEF LastInFlight
  <2> QED
    BY <2>1, <2>4, <2>5, <2>6 DEF ListInv, Loading
<1>3. CASE ~f.valid
  <2>1. UNCHANGED <<lists, inFlight>> /\ list' = shown
    BY <1>3 DEF LoadBlips
  <2> QED
    BY <1>1, <2>1 DEF ListInv, ListTypeOK, ListIsNewest, LastInFlight
<1> QED
  BY <1>2, <1>3

\* Nothing happens to the list but that the store may move on.
LEMMA KeepList ==
  ASSUME StoreTypeOK, StoreStep, ListInv, UNCHANGED <<list, lists, inFlight, newest>>
  PROVE  ListInv'
<1>1. \A r \in lists : r.answer \notin {Pending, Failed} => r.answer.version \in Nat
  BY DEF ListInv, ListTypeOK, ListRequest, ListAnswer
<1> QED
  BY <1>1 DEF StoreStep, StoreTypeOK, ListInv, ListTypeOK, ListIsNewest, LastInFlight

-----------------------------------------------------------------------------
(* The detail panel and its requests *)

LEMMA LoadDetailStep ==
  ASSUME DetailInv, NEW b \in Blip, NEW silent \in BOOLEAN, LoadDetail(b, silent)
  PROVE  DetailInv' /\ picked' = b
<1>1. /\ DetailTypeOK /\ picked' = b
      /\ details' = NotLast(details) \cup {[blip |-> b, last |-> TRUE]}
      /\ detail' = IF silent THEN detail ELSE [status |-> "loading", blip |-> b]
  BY DEF DetailInv, LoadDetail
<1> DEFINE new == [blip |-> b, last |-> TRUE]
<1>2. NotLast(details) \subseteq DetailRequest /\ \A r \in NotLast(details) : ~r.last
  BY <1>1 DEF DetailTypeOK, DetailRequest, NotLast
<1>3. details' \subseteq DetailRequest /\ new \in details'
  <2>1. new \in DetailRequest
    BY DEF DetailRequest
  <2> QED
    BY <1>1, <1>2, <2>1
<1>4. new.last /\ new.blip = b /\ \A r \in details' : r.last => r = new
  BY <1>1, <1>2
<1>5. DetailTypeOK'
  BY <1>1, <1>3 DEF DetailTypeOK, Detail
<1> HIDE DEF new
<1>6. OneLastDetail' /\ DetailFollows'
  BY <1>1, <1>3, <1>4 DEF OneLastDetail, DetailFollows
<1> QED
  BY <1>1, <1>5, <1>6 DEF DetailInv

LEMMA ClearDetailStep ==
  ASSUME DetailInv, ClearDetail
  PROVE  DetailInv' /\ picked' = NoBlip
<1>1. /\ DetailTypeOK /\ picked' = NoBlip /\ details' = NotLast(details)
      /\ detail' = [status |-> "idle", blip |-> NoBlip]
  BY DEF DetailInv, ClearDetail
<1>2. details' \subseteq DetailRequest /\ \A r \in details' : ~r.last
  BY <1>1 DEF DetailTypeOK, DetailRequest, NotLast
<1> QED
  BY <1>1, <1>2 DEF DetailInv, DetailTypeOK, Detail, OneLastDetail, DetailFollows

LEMMA KeepDetail ==
  ASSUME DetailInv, UNCHANGED detailPanel
  PROVE  DetailInv' /\ UNCHANGED picked
BY DEF DetailInv, DetailTypeOK, OneLastDetail, DetailFollows, detailPanel

-----------------------------------------------------------------------------
(* Answers to list requests *)

LEMMA KeepStore ==
  ASSUME StoreTypeOK, UNCHANGED storeVars
  PROVE  StoreStep /\ UNCHANGED version
BY DEF StoreTypeOK, StoreStep, storeVars

LEMMA ListRequestType ==
  ASSUME Parts, NEW r \in lists
  PROVE  /\ r \in ListRequest
         /\ r.ws \in Workspace /\ r.mode \in Mode /\ r.page \in Nat /\ r.previous \in Nat
         /\ r.filter \in Filter /\ r.filter.valid
         /\ r.answer \notin {Pending, Failed} =>
              /\ r.answer.blips \subseteq Blip /\ r.answer.first \subseteq r.answer.blips
              /\ r.answer.total \in Nat /\ r.answer.version \in Nat
BY DEF Parts, ListInv, ListTypeOK, ListRequest, ListAnswer

\* A request that has ended: its record is gone, and no other one counted.
LEMMA EndLast ==
  ASSUME Parts, NEW r \in lists, r.last, lists' = lists \ {r}
  PROVE  lists' \subseteq ListRequest /\ \A s \in lists' : ~s.last
BY DEF Parts, ListInv, ListTypeOK, LastInFlight

LEMMA ShowStep ==
  ASSUME Parts, NEW r \in lists, r.answer \notin {Pending, Failed}, r.last, Show(r),
         UNCHANGED <<storeVars, selected, filter, known, sending, refreshes, actions, events>>
  PROVE  Parts'
<1>1. StoreStep /\ version' = version
  BY KeepStore DEF Parts, storeVars
<1>2. /\ page' = r.page
      /\ list' = [status |-> "ready", blips |-> r.answer.blips, page |-> r.page,
                  total |-> r.answer.total, turning |-> FALSE, version |-> r.answer.version]
      /\ newest' = IF r.answer.version > newest THEN r.answer.version ELSE newest
      /\ lists' = lists \ {r} /\ inFlight' = FALSE
  BY DEF Show
<1>3. ListInv'
  <2>1. lists' \subseteq ListRequest /\ \A s \in lists' : ~s.last
    BY <1>2, EndLast
  <2>2. newest \in Nat /\ newest <= r.answer.version /\ r.answer.version <= version
    BY DEF Parts, ListInv, ListTypeOK, ListIsNewest
  <2>3. list' \in ReadyList
    BY <1>2, ListRequestType DEF ReadyList
  <2>4. newest' = r.answer.version /\ newest' \in Nat
    BY <1>2, <2>2, ListRequestType
  <2>5. ListTypeOK' /\ LastInFlight'
    BY <1>2, <2>1, <2>3, <2>4 DEF ListTypeOK, LastInFlight
  <2>6. ListIsNewest'
    BY <1>1, <1>2, <2>1, <2>2, <2>4 DEF ListIsNewest
  <2> QED
    BY <2>5, <2>6 DEF ListInv
<1>4. DetailInv' /\ (picked' = NoBlip \/ picked' \in r.answer.blips)
  <2>1. CASE picked \in r.answer.blips
    <3>1. UNCHANGED detailPanel
      BY <2>1 DEF Show
    <3> QED
      BY <2>1, <3>1, KeepDetail DEF Parts
  <2>2. CASE picked \notin r.answer.blips /\ r.answer.blips = {}
    <3>1. ClearDetail
      BY <2>2 DEF Show
    <3> QED
      BY <3>1, ClearDetailStep DEF Parts
  <2>3. CASE picked \notin r.answer.blips /\ r.answer.blips # {}
    <3>1. PICK b \in r.answer.first : LoadDetail(b, r.mode # "plain")
      BY <2>3 DEF Show
    <3>2. b \in Blip /\ b \in r.answer.blips
      BY ListRequestType
    <3> QED
      BY <3>1, <3>2, LoadDetailStep DEF Parts
  <2> QED
    BY <2>1, <2>2, <2>3
<1>5. OtherTypeOK'
  BY <1>2, ListRequestType DEF Parts, OtherTypeOK
<1>6. PickedIsListed'
  BY <1>2, <1>4 DEF PickedIsListed
<1> QED
  BY <1>1, <1>3, <1>4, <1>5, <1>6 DEF Parts, StoreStep

LEMMA ClampStep ==
  ASSUME Parts, NEW r \in lists, r.answer \notin {Pending, Failed}, Clamp(r),
         UNCHANGED <<storeVars, selected, filter, known, sending, refreshes, actions, events>>
  PROVE  Parts'
<1>1. StoreStep /\ version' = version
  BY KeepStore DEF Parts, storeVars
<1>2. page' \in Nat /\ UNCHANGED <<detailPanel, newest>>
  BY ListRequestType, LastPageType DEF Clamp
<1>3. list \in {Idle, Loading, Error} \cup ReadyList
      /\ (list.status = "ready" => list.version = newest)
  BY DEF Parts, ListInv, ListTypeOK, ListIsNewest
<1>4. LoadBlips(r.ws, "pagination", page', r.page, r.filter, list, lists \ {r})
  BY DEF Clamp
<1>5. ListInv' /\ (list'.status = "ready" => list' = list)
  <2>1. "pagination" \in Mode /\ lists \ {r} \in SUBSET lists
    BY DEF Mode
  <2> QED
    BY <1>1, <1>2, <1>3, <1>4, <2>1, ListRequestType, LoadBlipsStep DEF Parts
<1>6. DetailInv' /\ picked' = picked
  BY <1>2, KeepDetail DEF Parts
<1>7. OtherTypeOK'
  BY <1>2 DEF Parts, OtherTypeOK
<1>8. PickedIsListed'
  BY <1>5, <1>6 DEF Parts, PickedIsListed
<1> QED
  BY <1>1, <1>5, <1>6, <1>7, <1>8 DEF Parts, StoreStep

LEMMA ListArrivesStep ==
  ASSUME Parts, NEW r \in lists, ListArrives(r)
  PROVE  Parts'
<1>1. /\ r.answer \notin {Pending, Failed} /\ r.last
      /\ UNCHANGED <<storeVars, selected, filter, known, sending, refreshes, actions, events>>
      /\ Clamp(r) \/ Show(r)
  BY DEF ListArrives, Wanted, others
<1> QED
  BY <1>1, ClampStep, ShowStep

\* Only the list and its requests change, and the list shown is what it was.
LEMMA OnlyList ==
  ASSUME Parts, ListInv', list'.status = "ready" => list.status = "ready" /\ list'.blips = list.blips,
         UNCHANGED <<storeVars, detailPanel>>, OtherTypeOK'
  PROVE  Parts'
<1>1. StoreStep
  BY KeepStore DEF Parts
<1>2. DetailInv' /\ picked' = picked
  BY KeepDetail DEF Parts
<1>3. PickedIsListed'
  BY <1>2 DEF Parts, PickedIsListed
<1> QED
  BY <1>1, <1>2, <1>3 DEF Parts, StoreStep

LEMMA ListDroppedStep ==
  ASSUME Parts, NEW r \in lists, ListDropped(r)
  PROVE  Parts'
<1>1. /\ lists' = lists \ {r} /\ inFlight' = IF r.last THEN FALSE ELSE inFlight
      /\ UNCHANGED <<storeVars, selected, filter, page, list, picked, detail, known, sending,
                     newest, details, refreshes, actions, events>>
  BY DEF ListDropped, others
<1>2. ListInv'
  <2>1. version' = version
    BY <1>1 DEF storeVars
  <2>2. ListTypeOK /\ ListIsNewest /\ LastInFlight
    BY DEF Parts, ListInv
  <2>3. ListTypeOK' /\ ListIsNewest'
    BY <1>1, <2>1, <2>2 DEF ListTypeOK, ListIsNewest
  <2>4. LastInFlight'
    BY <1>1, <2>2 DEF LastInFlight
  <2> QED
    BY <2>3, <2>4 DEF ListInv
<1>3. OtherTypeOK'
  BY <1>1 DEF Parts, OtherTypeOK
<1> QED
  BY <1>1, <1>2, <1>3, OnlyList DEF detailPanel

LEMMA ListFailsStep ==
  ASSUME Parts, NEW r \in lists, ListFails(r)
  PROVE  Parts'
<1>1. /\ r.last /\ lists' = lists \ {r} /\ inFlight' = FALSE
      /\ UNCHANGED <<storeVars, selected, filter, known, sending, newest, refreshes, actions, events>>
  BY DEF ListFails, Wanted, others
<1>2. page' = (IF r.mode = "pagination" THEN r.previous ELSE page)
  BY DEF ListFails
<1>3. list' = IF r.mode \in {"pagination", "preserve"} /\ list.status = "ready"
              THEN [list EXCEPT !.turning = FALSE]
              ELSE IF r.mode \in {"plain", "preserve"} THEN Error ELSE list
  BY DEF ListFails
<1>4. list' = Error \/ /\ list' \in {Idle, Loading, Error} \cup ReadyList
                       /\ list'.status = "ready" => /\ list.status = "ready"
                                                    /\ list'.blips = list.blips
                                                    /\ list'.version = list.version
  <2>1. list \in {Idle, Loading, Error} \cup ReadyList
    BY DEF Parts, ListInv, ListTypeOK
  <2>2. CASE r.mode \in {"pagination", "preserve"} /\ list.status = "ready"
    <3>1. list \in ReadyList
      BY <2>1, <2>2 DEF Idle, Loading, Error
    <3> QED
      BY <1>3, <2>2, <3>1 DEF ReadyList
  <2>3. CASE ~(r.mode \in {"pagination", "preserve"} /\ list.status = "ready")
    BY <1>3, <2>1, <2>3
  <2> QED
    BY <2>2, <2>3
<1>5. list' \in {Idle, Loading, Error} \cup ReadyList
      /\ (list'.status = "ready" => /\ list.status = "ready" /\ list'.blips = list.blips
                                    /\ list'.version = list.version)
  BY <1>4 DEF Error
<1>6. ListInv'
  <2>1. version' = version
    BY <1>1 DEF storeVars
  <2>2. lists' \subseteq ListRequest /\ \A s \in lists' : ~s.last
    BY <1>1, EndLast
  <2>3. ListTypeOK' /\ LastInFlight'
    BY <1>1, <1>5, <2>2 DEF Parts, ListInv, ListTypeOK, LastInFlight
  <2>4. ListIsNewest'
    BY <1>1, <1>5, <2>1, <2>2 DEF Parts, ListInv, ListIsNewest
  <2> QED
    BY <2>3, <2>4 DEF ListInv
<1>7. OtherTypeOK'
  BY <1>1, <1>2, ListRequestType DEF Parts, OtherTypeOK
<1>8. CASE r.mode = "plain"
  <2>1. ClearDetail
    BY <1>8 DEF ListFails
  <2>2. DetailInv' /\ picked' = NoBlip
    BY <2>1, ClearDetailStep DEF Parts
  <2>3. StoreStep
    BY <1>1, KeepStore DEF Parts
  <2> QED
    BY <1>6, <1>7, <2>2, <2>3 DEF Parts, StoreStep, PickedIsListed
<1>9. CASE r.mode # "plain"
  <2>1. UNCHANGED detailPanel
    BY <1>9 DEF ListFails
  <2> QED
    BY <1>1, <1>5, <1>6, <1>7, <2>1, OnlyList
<1> QED
  BY <1>8, <1>9

-----------------------------------------------------------------------------
(* Details, the timer and refreshes *)

\* Neither the list nor what it is about changes.
LEMMA OnlyDetail ==
  ASSUME Parts, UNCHANGED <<storeVars, list, lists, inFlight, newest>>, DetailInv', OtherTypeOK',
         picked' = picked \/ picked' = NoBlip \/ (list.status = "ready" => picked' \in list.blips)
  PROVE  Parts'
<1>1. StoreStep
  BY KeepStore DEF Parts
<1>2. ListInv'
  BY <1>1, KeepList DEF Parts
<1>3. PickedIsListed'
  BY DEF Parts, PickedIsListed
<1> QED
  BY <1>1, <1>2, <1>3 DEF Parts, StoreStep

LEMMA DetailArrivesStep ==
  ASSUME Parts, NEW r \in details, DetailArrives(r)
  PROVE  Parts'
<1>1. /\ details' = details \ {r}
      /\ UNCHANGED <<storeVars, selected, filter, page, list, picked, inFlight, known, sending,
                     newest, lists, refreshes, actions, events>>
  BY DEF DetailArrives, others
<1>2. \/ ~r.last /\ detail' = detail
      \/ r.last /\ \E st \in {"ready", "error"} : detail' = [status |-> st, blip |-> r.blip]
  BY DEF DetailArrives
<1>3. r \in DetailRequest /\ r.blip \in Blip
  BY DEF Parts, DetailInv, DetailTypeOK, DetailRequest
<1>4. DetailTypeOK'
  BY <1>1, <1>2, <1>3 DEF Parts, DetailInv, DetailTypeOK, Detail
<1>5. OneLastDetail'
  BY <1>1 DEF Parts, DetailInv, OneLastDetail
<1>6. DetailFollows'
  BY <1>1, <1>2 DEF Parts, DetailInv, OneLastDetail, DetailFollows
<1>7. OtherTypeOK'
  BY <1>1 DEF Parts, OtherTypeOK
<1> QED
  BY <1>1, <1>4, <1>5, <1>6, <1>7, OnlyDetail DEF DetailInv

\* The list is loaded with nothing else changed than what is selected and so on.
LEMMA OnlyLoad ==
  ASSUME Parts, NEW w \in Workspace, NEW mode \in Mode, NEW p \in Nat, NEW previous \in Nat,
         NEW f \in Filter, NEW shown \in {Idle, Loading, Error} \cup ReadyList,
         shown.status = "ready" => /\ list.status = "ready" /\ shown.blips = list.blips
                                   /\ shown.version = list.version,
         LoadBlips(w, mode, p, previous, f, shown, lists),
         UNCHANGED <<storeVars, newest, detailPanel>>, OtherTypeOK'
  PROVE  Parts'
<1>1. version' = version
  BY DEF storeVars
<1>2. shown.status = "ready" => shown.version = newest
  BY DEF Parts, ListInv, ListIsNewest
<1>3. ListInv' /\ (list'.status = "ready" => list' = shown)
  BY <1>1, <1>2, LoadBlipsStep DEF Parts
<1> QED
  BY <1>3, OnlyList

LEMMA ListType ==
  ASSUME Parts
  PROVE  list \in {Idle, Loading, Error} \cup ReadyList
BY DEF Parts, ListInv, ListTypeOK

LEMMA Modes == /\ "plain" \in Mode /\ "silent" \in Mode
               /\ "pagination" \in Mode /\ "preserve" \in Mode
BY DEF Mode

LEMMA AutoRefreshStep ==
  ASSUME Parts, AutoRefresh
  PROVE  Parts'
<1>1. /\ selected \in Workspace
      /\ LoadBlips(selected, "silent", page, page, filter, list, lists)
      /\ UNCHANGED <<storeVars, newest, detailPanel>>
      /\ UNCHANGED <<selected, filter, page, known, sending, refreshes, actions, events>>
  BY DEF AutoRefresh, others, Parts, OtherTypeOK
<1>2. OtherTypeOK' /\ page \in Nat /\ filter \in Filter
  BY <1>1 DEF Parts, OtherTypeOK
<1> QED
  BY <1>1, <1>2, ListType, Modes, OnlyLoad

LEMMA RefreshArrivesStep ==
  ASSUME Parts, NEW r \in refreshes, RefreshArrives(r)
  PROVE  Parts'
<1>1. r \in RefreshRequest /\ r.listed \subseteq Workspace /\ r.current \in Workspace
  BY DEF RefreshArrives, Parts, OtherTypeOK, RefreshRequest
<1>2. /\ refreshes' = refreshes \ {r} /\ known' = r.listed
      /\ selected' = IF selected \in r.listed THEN selected ELSE r.current
      /\ UNCHANGED <<storeVars, newest, detailPanel>>
      /\ UNCHANGED <<filter, page, sending, actions, events>>
  BY DEF RefreshArrives, others
<1>3. LoadBlips(selected', IF r.background THEN "silent" ELSE "plain", page, page, filter, list, lists)
  BY DEF RefreshArrives
<1>4. selected' \in Workspace
  BY <1>1, <1>2
<1>5. OtherTypeOK' /\ page \in Nat /\ filter \in Filter
  BY <1>1, <1>2, <1>4 DEF Parts, OtherTypeOK
<1>6. (IF r.background THEN "silent" ELSE "plain") \in Mode
  BY Modes
<1> QED
  BY <1>2, <1>3, <1>4, <1>5, <1>6, ListType, OnlyLoad

LEMMA RefreshFailsStep ==
  ASSUME Parts, NEW r \in refreshes, RefreshFails(r)
  PROVE  Parts'
<1>1. /\ refreshes' = refreshes \ {r}
      /\ UNCHANGED <<storeVars, selected, filter, page, inFlight, known, sending, newest, lists,
                     details, actions, events>>
      /\ \/ UNCHANGED <<list, picked, detail>>
         \/ /\ list' = Idle /\ picked' = NoBlip
            /\ detail' = [status |-> "idle", blip |-> NoBlip]
  BY DEF RefreshFails, others
<1>2. OtherTypeOK'
  BY <1>1 DEF Parts, OtherTypeOK
<1>3. StoreStep /\ version' = version
  BY <1>1, KeepStore DEF Parts
<1>4. ListInv'
  BY <1>1, <1>3 DEF Parts, ListInv, ListTypeOK, ListIsNewest, LastInFlight, Idle
<1>5. DetailInv'
  BY <1>1 DEF Parts, DetailInv, DetailTypeOK, Detail, DetailFollows, OneLastDetail
<1>6. PickedIsListed'
  BY <1>1 DEF Parts, PickedIsListed, Idle
<1> QED
  BY <1>2, <1>3, <1>4, <1>5, <1>6 DEF Parts, StoreStep

-----------------------------------------------------------------------------
(* What the user does *)

LEMMA SelectStep ==
  ASSUME Parts, NEW w \in Workspace, SelectWorkspace(w), UNCHANGED storeVars,
         known' \subseteq Workspace, actions' \subseteq Action, events' \in Nat
  PROVE  Parts'
<1>1. /\ selected' = w /\ page' = 0 /\ sending' = FALSE
      /\ ClearDetail
      /\ LoadBlips(w, "plain", 0, 0, filter, list, lists)
      /\ UNCHANGED <<filter, newest, refreshes>>
  BY DEF SelectWorkspace
<1>2. StoreStep /\ version' = version
  BY KeepStore DEF Parts, storeVars
<1>3. filter \in Filter /\ OtherTypeOK'
  BY <1>1 DEF Parts, OtherTypeOK
<1>4. DetailInv' /\ picked' = NoBlip
  BY <1>1, ClearDetailStep DEF Parts
<1>5. list.status = "ready" => list.version = newest
  BY DEF Parts, ListInv, ListIsNewest
<1>6. ListInv'
  BY <1>1, <1>2, <1>3, <1>5, ListType, Modes, LoadBlipsStep DEF Parts
<1> QED
  BY <1>2, <1>3, <1>4, <1>6 DEF Parts, StoreStep, PickedIsListed

\* A click that sends a request and changes no panel but "sending".
LEMMA QuietStep ==
  ASSUME Parts, OtherTypeOK',
         UNCHANGED <<storeVars, list, picked, detail, inFlight, newest, lists, details>>
  PROVE  Parts'
BY KeepDetail, OnlyDetail DEF Parts, detailPanel

LEMMA EventsType ==
  ASSUME Parts, Click
  PROVE  events' \in Nat
BY DEF Click, Parts, OtherTypeOK

LEMMA ClickRefreshStep ==
  ASSUME Parts, ClickRefresh
  PROVE  Parts'
<1>1. /\ refreshes' = refreshes \cup {Refresh(Loaded, events')}
      /\ UNCHANGED <<storeVars, panels, lists, details, actions>>
      /\ events' \in Nat
  BY EventsType DEF ClickRefresh, Parts
<1>2. Refresh(Loaded, events') \in RefreshRequest
  BY <1>1 DEF Refresh, Loaded, RefreshRequest
<1>3. OtherTypeOK'
  BY <1>1, <1>2 DEF Parts, OtherTypeOK, panels
<1> QED
  BY <1>1, <1>3, QuietStep DEF panels

LEMMA ClickWorkspaceStep ==
  ASSUME Parts, NEW w \in Workspace, ClickWorkspace(w)
  PROVE  Parts'
BY EventsType, SelectStep DEF ClickWorkspace, Parts, OtherTypeOK

LEMMA ClickBlipStep ==
  ASSUME Parts, NEW b \in Blip, ClickBlip(b)
  PROVE  Parts'
<1>1. /\ b \in list.blips /\ LoadDetail(b, FALSE)
      /\ UNCHANGED <<storeVars, selected, filter, page, list, inFlight, known, sending, newest,
                     lists, refreshes, actions>>
  BY DEF ClickBlip
<1>2. DetailInv' /\ picked' = b
  BY <1>1, LoadDetailStep DEF Parts
<1>3. OtherTypeOK'
  BY <1>1, EventsType DEF ClickBlip, Parts, OtherTypeOK
<1> QED
  BY <1>1, <1>2, <1>3, OnlyDetail

\* A ready list stays one with another mark for its page.
LEMMA TurningType ==
  ASSUME Parts, list.status = "ready", NEW t \in BOOLEAN
  PROVE  /\ [list EXCEPT !.turning = t] \in {Idle, Loading, Error} \cup ReadyList
         /\ [list EXCEPT !.turning = t].blips = list.blips
         /\ [list EXCEPT !.turning = t].version = list.version
         /\ list.page \in Nat /\ list.total \in Nat
<1>1. list \in ReadyList
  BY ListType DEF Idle, Loading, Error
<1> QED
  BY <1>1 DEF ReadyList

LEMMA ClickPageStep ==
  ASSUME Parts, NEW p \in Nat, ClickPage(p)
  PROVE  Parts'
<1> DEFINE shown == [list EXCEPT !.turning = TRUE]
<1>1. /\ list.status = "ready" /\ page' = p
      /\ LoadBlips(selected, "pagination", p, list.page, filter, shown, lists)
      /\ UNCHANGED <<storeVars, selected, filter, known, sending, newest, detailPanel, refreshes,
                     actions>>
  BY DEF ClickPage
<1>2. OtherTypeOK' /\ filter \in Filter
  BY <1>1, EventsType DEF ClickPage, Parts, OtherTypeOK
<1>3. /\ shown \in {Idle, Loading, Error} \cup ReadyList
      /\ shown.blips = list.blips /\ shown.version = list.version /\ list.page \in Nat
  BY <1>1, TurningType
<1>4. selected \in Workspace
  BY DEF ClickPage, Parts, OtherTypeOK
<1> HIDE DEF shown
<1> QED
  BY <1>1, <1>2, <1>3, <1>4, Modes, OnlyLoad

LEMMA ClickFilterStep ==
  ASSUME Parts, NEW f \in Filters, ClickFilter(f)
  PROVE  Parts'
<1> DEFINE shown == IF f.valid /\ list.status = "ready" THEN [list EXCEPT !.turning = TRUE] ELSE list
<1>1. /\ filter' = f /\ page' = 0
      /\ LoadBlips(selected, "preserve", 0, 0, f, shown, lists)
      /\ UNCHANGED <<storeVars, selected, known, sending, newest, detailPanel, refreshes, actions>>
  BY DEF ClickFilter
<1>2. f \in Filter /\ selected \in Workspace
  BY DesktopAssumption DEF ClickFilter, Parts, OtherTypeOK
<1>3. OtherTypeOK'
  BY <1>1, <1>2, EventsType DEF ClickFilter, Parts, OtherTypeOK
<1>4. /\ shown \in {Idle, Loading, Error} \cup ReadyList
      /\ shown.status = "ready" => /\ list.status = "ready" /\ shown.blips = list.blips
                                   /\ shown.version = list.version
  <2>1. CASE f.valid /\ list.status = "ready"
    <3>1. shown = [list EXCEPT !.turning = TRUE]
      BY <2>1
    <3> QED
      BY <2>1, <3>1, TurningType
  <2>2. CASE ~(f.valid /\ list.status = "ready")
    <3>1. shown = list
      BY <2>2
    <3> QED
      BY <3>1, ListType
  <2> QED
    BY <2>1, <2>2
<1> HIDE DEF shown
<1> QED
  BY <1>1, <1>2, <1>3, <1>4, Modes, OnlyLoad

LEMMA AskStep ==
  ASSUME Parts, NEW kind, NEW w, NEW b, Ask(kind, w, b), sending' \in BOOLEAN,
         \A n \in Nat :
           [kind |-> kind, ws |-> w, blip |-> b, at |-> n, answer |-> Pending] \in Action
  PROVE  Parts'
<1>1. /\ actions' = actions \cup
           {[kind |-> kind, ws |-> w, blip |-> b, at |-> events', answer |-> Pending]}
      /\ events' \in Nat
      /\ UNCHANGED <<storeVars, selected, filter, page, list, picked, detail, inFlight, known,
                     newest, lists, details, refreshes>>
  BY EventsType DEF Ask, Parts
<1>2. OtherTypeOK'
  BY <1>1 DEF Parts, OtherTypeOK
<1> QED
  BY <1>1, <1>2, QuietStep

LEMMA ClickSendStep ==
  ASSUME Parts, ClickSend
  PROVE  Parts'
<1>1. Ask("send", selected, NoBlip) /\ sending' = TRUE /\ selected \in Workspace
  BY DEF ClickSend, Parts, OtherTypeOK
<1>2. \A n \in Nat : [kind |-> "send", ws |-> selected, blip |-> NoBlip, at |-> n,
                     answer |-> Pending] \in Action
  BY <1>1 DEF Action
<1> QED
  BY <1>1, <1>2, AskStep

LEMMA ClickCreateStep ==
  ASSUME Parts, NEW w \in Workspace, ClickCreate(w)
  PROVE  Parts'
<1>1. Ask("create", w, NoBlip) /\ sending' \in BOOLEAN
  BY DEF ClickCreate, Parts, OtherTypeOK
<1>2. \A n \in Nat : [kind |-> "create", ws |-> w, blip |-> NoBlip, at |-> n,
                     answer |-> Pending] \in Action
  BY DEF Action
<1> QED
  BY <1>1, <1>2, AskStep

LEMMA ClickCopyStep ==
  ASSUME Parts, ClickCopy
  PROVE  Parts'
<1>1. Ask("copy", selected, detail.blip) /\ sending' \in BOOLEAN
  BY DEF ClickCopy, Parts, OtherTypeOK
<1>2. selected \in Workspace /\ detail.blip \in Blip
  BY DEF ClickCopy, Parts, OtherTypeOK, DetailInv, DetailTypeOK, Detail
<1>3. \A n \in Nat : [kind |-> "copy", ws |-> selected, blip |-> detail.blip, at |-> n,
                     answer |-> Pending] \in Action
  BY <1>2 DEF Action
<1> QED
  BY <1>1, <1>3, AskStep

LEMMA ActionType ==
  ASSUME Parts, NEW a \in actions
  PROVE  a \in Action /\ a.ws \in Workspace /\ (a.kind = "copy" => a.blip \in Blip)
BY DEF Parts, OtherTypeOK, Action

LEMMA CreateArrivesStep ==
  ASSUME Parts, NEW a \in actions, CreateArrives(a)
  PROVE  Parts'
<1>1. /\ actions' = actions \ {a} /\ SelectWorkspace(a.ws)
      /\ known' = (IF Loaded THEN known \cup {a.ws} ELSE known)
      /\ UNCHANGED <<storeVars, events>>
  BY DEF CreateArrives, others
<1>2. known' \subseteq Workspace /\ actions' \subseteq Action /\ events' \in Nat
  BY <1>1, ActionType DEF Parts, OtherTypeOK
<1> QED
  BY <1>1, <1>2, ActionType, SelectStep

LEMMA SendArrivesStep ==
  ASSUME Parts, NEW a \in actions, SendArrives(a)
  PROVE  Parts'
<1>1. /\ actions' = actions \ {a} /\ sending' = FALSE /\ page' = 0
      /\ LoadBlips(a.ws, "plain", 0, 0, filter, list, lists)
      /\ UNCHANGED <<storeVars, newest, detailPanel>>
      /\ UNCHANGED <<selected, filter, known, refreshes, events>>
  BY DEF SendArrives, others
<1>2. OtherTypeOK' /\ filter \in Filter
  BY <1>1 DEF Parts, OtherTypeOK
<1> QED
  BY <1>1, <1>2, ActionType, ListType, Modes, OnlyLoad

LEMMA CopyArrivesStep ==
  ASSUME Parts, NEW a \in actions, CopyArrives(a)
  PROVE  Parts'
<1>1. /\ actions' = actions \ {a} /\ page' = 0
      /\ LoadBlips(a.ws, "silent", 0, 0, filter, list, lists)
      /\ UNCHANGED <<storeVars, newest, detailPanel>>
      /\ UNCHANGED <<selected, filter, known, sending, refreshes, events>>
  BY DEF CopyArrives, others
<1>2. OtherTypeOK' /\ filter \in Filter
  BY <1>1 DEF Parts, OtherTypeOK
<1> QED
  BY <1>1, <1>2, ActionType, ListType, Modes, OnlyLoad

LEMMA ActionFailsStep ==
  ASSUME Parts, NEW a \in actions, ActionFails(a)
  PROVE  Parts'
<1>1. /\ actions' = actions \ {a} /\ sending' \in BOOLEAN
      /\ UNCHANGED <<storeVars, selected, filter, page, list, picked, detail, inFlight, known,
                     newest, lists, details, refreshes, events>>
  BY DEF ActionFails, others, Parts, OtherTypeOK
<1>2. OtherTypeOK'
  BY <1>1 DEF Parts, OtherTypeOK
<1> QED
  BY <1>1, <1>2, QuietStep

-----------------------------------------------------------------------------
(* The daemon's answers *)

LEMMA OutcomeType ==
  ASSUME Parts, NEW answer, NEW o \in Outcome(answer)
  PROVE  o[1] \in {answer, Failed} /\ o[2] \in Nat
BY DEF Parts, OtherTypeOK, Outcome

LEMMA AnswerListStep ==
  ASSUME Parts, NEW r \in lists, AnswerList(r)
  PROVE  Parts'
<1> DEFINE answer == ListBlips(TargetOf(r), r.filter, r.page)
<1>1. /\ r.answer = Pending
      /\ UNCHANGED <<storeVars, panels, details, refreshes, actions>>
      /\ \E o \in Outcome(answer) : lists' = WithAnswer(lists, r, o[1]) /\ events' = o[2]
  BY DEF AnswerList
<1> HIDE DEF answer
<1>2. PICK o \in Outcome(answer) : lists' = WithAnswer(lists, r, o[1]) /\ events' = o[2]
  BY <1>1
<1>3. o[1] \in {answer, Failed} /\ o[2] \in Nat
  BY OutcomeType
<1>4. /\ o[1] \in ListAnswer \cup {Failed}
      /\ o[1] # Failed => o[1].version = version
  BY <1>3, AnswerType DEF answer, Parts
<1> DEFINE new == [r EXCEPT !.answer = o[1]]
<1>5. lists' = (lists \ {r}) \cup {new}
  BY <1>2 DEF WithAnswer
<1>6. r \in ListRequest /\ lists \subseteq ListRequest
  BY DEF Parts, ListInv, ListTypeOK
<1>7. new \in ListRequest /\ new.answer = o[1] /\ new.last = r.last
  BY <1>4, <1>6 DEF ListRequest
<1> HIDE DEF new
<1>8. StoreStep /\ version' = version /\ version \in Nat
  BY <1>1, KeepStore DEF Parts, StoreTypeOK
<1>9. ListInv'
  <2>1. UNCHANGED <<list, inFlight, newest>>
    BY <1>1 DEF panels
  <2>2. ListTypeOK'
    BY <1>5, <1>6, <1>7, <2>1 DEF Parts, ListInv, ListTypeOK
  <2>3. LastInFlight'
    BY <1>5, <1>7, <2>1 DEF Parts, ListInv, LastInFlight
  <2>4. newest <= version
    BY DEF Parts, ListInv, ListIsNewest
  <2>5. new.answer \notin {Pending, Failed} => newest <= new.answer.version
                                               /\ new.answer.version <= version
    BY <1>4, <1>7, <1>8, <2>4
  <2>6. ListIsNewest'
    BY <1>5, <1>8, <2>1, <2>5 DEF Parts, ListInv, ListIsNewest
  <2> QED
    BY <2>2, <2>3, <2>6 DEF ListInv
<1>10. OtherTypeOK'
  BY <1>1, <1>2, <1>3 DEF panels, Parts, OtherTypeOK
<1>11. DetailInv' /\ picked' = picked
  <2>1. UNCHANGED detailPanel
    BY <1>1 DEF panels, detailPanel
  <2> QED
    BY <2>1, KeepDetail DEF Parts
<1>12. PickedIsListed'
  BY <1>1, <1>11 DEF panels, Parts, PickedIsListed
<1> QED
  BY <1>8, <1>9, <1>10, <1>11, <1>12 DEF Parts, StoreStep

LEMMA AnswerRefreshStep ==
  ASSUME Parts, NEW r \in refreshes, AnswerRefresh(r)
  PROVE  Parts'
<1>1. UNCHANGED <<storeVars, panels, lists, details, actions>>
  BY DEF AnswerRefresh
<1>2. r \in RefreshRequest
  BY DEF Parts, OtherTypeOK
<1>3. refreshes' \subseteq RefreshRequest /\ events' \in Nat
  <2>1. CASE \E o \in Outcome(ListWorkspaces) :
               /\ refreshes' = (refreshes \ {r}) \cup {[r EXCEPT !.listed = o[1]]}
               /\ events' = o[2]
    <3>1. PICK o \in Outcome(ListWorkspaces) :
                 /\ refreshes' = (refreshes \ {r}) \cup {[r EXCEPT !.listed = o[1]]}
                 /\ events' = o[2]
      BY <2>1
    <3>2. o[1] \in {workspaces, Failed} /\ o[2] \in Nat
      BY OutcomeType DEF ListWorkspaces
    <3>3. [r EXCEPT !.listed = o[1]] \in RefreshRequest
      BY <1>2, <3>2 DEF RefreshRequest, Parts, StoreTypeOK
    <3> QED
      BY <3>1, <3>2, <3>3 DEF Parts, OtherTypeOK
  <2>2. CASE \E o \in Outcome(CurrentWorkspace) :
               /\ refreshes' = (refreshes \ {r}) \cup {[r EXCEPT !.current = o[1]]}
               /\ events' = o[2]
    <3>1. PICK o \in Outcome(CurrentWorkspace) :
                 /\ refreshes' = (refreshes \ {r}) \cup {[r EXCEPT !.current = o[1]]}
                 /\ events' = o[2]
      BY <2>2
    <3>2. o[1] \in {active, Failed} /\ o[2] \in Nat
      BY OutcomeType DEF CurrentWorkspace
    <3>3. [r EXCEPT !.current = o[1]] \in RefreshRequest
      BY <1>2, <3>2 DEF RefreshRequest, Parts, StoreTypeOK
    <3> QED
      BY <3>1, <3>2, <3>3 DEF Parts, OtherTypeOK
  <2> QED
    BY <2>1, <2>2 DEF AnswerRefresh
<1>4. OtherTypeOK'
  BY <1>1, <1>3 DEF panels, Parts, OtherTypeOK
<1> QED
  BY <1>1, <1>4, QuietStep DEF panels

\* Nothing changes in the panels, but the store may have moved on.
LEMMA OnlyStore ==
  ASSUME Parts, StoreStep, OtherTypeOK',
         UNCHANGED <<list, lists, inFlight, newest, picked, detail, details>>
  PROVE  Parts'
<1>1. ListInv'
  BY KeepList DEF Parts
<1>2. DetailInv' /\ picked' = picked
  BY KeepDetail DEF Parts, detailPanel
<1>3. PickedIsListed'
  BY DEF Parts, PickedIsListed
<1> QED
  BY <1>1, <1>2, <1>3 DEF Parts, StoreStep

LEMMA AnsweredAction ==
  ASSUME Parts, NEW a \in actions, NEW answer \in Workspace \cup {Failed}
  PROVE  WithAnswer(actions, a, answer) \subseteq Action
<1>1. [a EXCEPT !.answer = answer] \in Action
  BY ActionType DEF Action
<1> QED
  BY <1>1 DEF WithAnswer, Parts, OtherTypeOK

LEMMA AnswerActionStep ==
  ASSUME Parts, NEW a \in actions, AnswerAction(a)
  PROVE  Parts'
<1>1. Does(a) /\ UNCHANGED <<panels, lists, details, refreshes>>
  BY DEF AnswerAction
<1>2. PICK o \in Outcome(a.ws) : actions' = WithAnswer(actions, a, o[1]) /\ events' = o[2]
  BY DEF AnswerAction
<1>3. actions' \subseteq Action /\ events' \in Nat
  BY <1>2, OutcomeType, ActionType, AnsweredAction
<1>4. StoreStep
  <2>1. ASSUME RouteLatestInboxBlip(a.ws)
        PROVE  StoreStep
    <3>1. PICK b \in Blip : RouteBlip(b, a.ws)
      BY <2>1 DEF RouteLatestInboxBlip, First
    <3> QED
      BY <3>1, RouteStep DEF Parts
  <2>2. ASSUME CreateWorkspace(a.ws)
        PROVE  StoreStep
    BY <2>2, ActionType, CreateStep DEF Parts
  <2>3. ASSUME a.blip \in Blip, RecopyBlip(a.blip)
        PROVE  StoreStep
    BY <2>3, RecopyStep DEF Parts
  <2>4. a.kind = "copy" /\ RecopyBlip(a.blip) => a.blip \in Blip
    BY ActionType
  <2> QED
    BY <1>1, <2>1, <2>2, <2>3, <2>4 DEF Does
<1>5. OtherTypeOK'
  BY <1>1, <1>3 DEF panels, Parts, OtherTypeOK
<1> QED
  BY <1>1, <1>4, <1>5, OnlyStore DEF panels

LEMMA RefuseActionStep ==
  ASSUME Parts, NEW a \in actions, RefuseAction(a)
  PROVE  Parts'
<1>1. /\ actions' = WithAnswer(actions, a, Failed)
      /\ UNCHANGED <<storeVars, events, panels, lists, details, refreshes>>
  BY DEF RefuseAction, others
<1>2. actions' \subseteq Action
  BY <1>1, AnsweredAction
<1>3. OtherTypeOK'
  BY <1>1, <1>2 DEF panels, Parts, OtherTypeOK
<1> QED
  BY <1>1, <1>3, QuietStep DEF panels

-----------------------------------------------------------------------------
LEMMA InitStep ==
  ASSUME Init
  PROVE  Parts
<1>1. StoreTypeOK
  <2>1. PICK store \in Start : /\ sortAt = store.sortAt /\ workspaces = store.workspaces
                               /\ active = store.active
    BY DEF Init, StoreInit
  <2>2. /\ sortAt \in [Blip -> 0..Cardinality(Blip)]
        /\ workspaces \subseteq Workspace /\ active \in workspaces
    BY <2>1, RequestsAssumption
  <2>3. 0..Cardinality(Blip) \subseteq Nat
    BY FS_CardinalityType, RequestsAssumption
  <2> QED
    BY <2>2, <2>3, RequestsAssumption DEF Init, StoreInit, StoreTypeOK
<1>2. ListInv
  <2>1. /\ list = Idle /\ lists = {} /\ inFlight = FALSE
        /\ newest = 0 /\ version = 0
    BY DEF Init, StoreInit
  <2>2. ListTypeOK
    BY <2>1 DEF ListTypeOK
  <2>3. list.status # "ready"
    BY <2>1 DEF Idle
  <2>4. ListIsNewest
    BY <2>1, <2>3 DEF ListIsNewest
  <2>5. LastInFlight
    BY <2>1 DEF LastInFlight
  <2> QED
    BY <2>2, <2>4, <2>5 DEF ListInv
<1>3. DetailInv
  BY DEF Init, DetailInv, DetailTypeOK, Detail, DetailFollows, OneLastDetail
<1>4. OtherTypeOK
  <2>1. Refresh(FALSE, 0) \in RefreshRequest
    BY DEF Refresh, RefreshRequest
  <2>2. DefaultFilter \in Filter
    BY DEF DefaultFilter, Filter
  <2> QED
    BY <2>1, <2>2 DEF Init, OtherTypeOK
<1>5. PickedIsListed
  BY DEF Init, PickedIsListed
<1> QED
  BY <1>1, <1>2, <1>3, <1>4, <1>5 DEF Parts

LEMMA NextStep ==
  ASSUME Parts, [Next]_vars
  PROVE  Parts'
<1>1. CASE Answer
  BY <1>1, AnswerListStep, AnswerRefreshStep, AnswerActionStep, RefuseActionStep DEF Answer
<1>2. CASE Arrive
  BY <1>2, ListArrivesStep, ListDroppedStep, ListFailsStep, DetailArrivesStep, RefreshArrivesStep,
     RefreshFailsStep, CreateArrivesStep, SendArrivesStep, CopyArrivesStep, ActionFailsStep
     DEF Arrive
<1>3. CASE AutoRefresh
  BY <1>3, AutoRefreshStep
<1>4. CASE User
  <2>1. \A p \in 0..Cardinality(Blip) : p \in Nat
    OBVIOUS
  <2> QED
    BY <1>4, <2>1, ClickRefreshStep, ClickSendStep, ClickCopyStep, ClickWorkspaceStep,
       ClickCreateStep, ClickBlipStep, ClickPageStep, ClickFilterStep DEF User
<1>5. CASE Elsewhere /\ UNCHANGED desktopVars
  <2>1. StoreStep
    BY <1>5, ElsewhereStep DEF Parts
  <2>2. OtherTypeOK'
    BY <1>5 DEF desktopVars, panels, requests, Parts, OtherTypeOK
  <2> QED
    BY <1>5, <2>1, <2>2, OnlyStore DEF desktopVars, panels, requests
<1>6. CASE UNCHANGED vars
  <2>1. OtherTypeOK'
    BY <1>6 DEF vars, desktopVars, panels, requests, Parts, OtherTypeOK
  <2> QED
    BY <1>6, <2>1, QuietStep DEF vars, desktopVars, panels, requests
<1> QED
  BY <1>1, <1>2, <1>3, <1>4, <1>5, <1>6 DEF Next

\* Whatever order requests, answers, clicks and changes of the store come in, the
\* list never goes back, the load under way is the last one, the detail panel
\* follows the mark and the mark is in the list (main.tsx, loadBlips and loadDetail).
THEOREM PanelsConsistent == Spec => []DesktopInv
<1>1. Init => DesktopInv
  BY InitStep, InParts
<1>2. DesktopInv /\ [Next]_vars => DesktopInv'
  <2>1. ASSUME DesktopInv, [Next]_vars
        PROVE  Parts'
    BY <2>1, NextStep, InParts
  <2>2. Parts' => DesktopInv'
    BY DEF DesktopInv, DesktopTypeOK, Parts, ListInv, DetailInv
  <2> QED
    BY <2>1, <2>2
<1> QED
  BY <1>1, <1>2, PTL DEF Spec
=============================================================================
