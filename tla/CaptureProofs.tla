------------------------------ MODULE CaptureProofs ------------------------------
(***************************************************************************)
(* Proofs about capturing, for every clipboard content, workspace, window   *)
(* and number of copies, restarts and changes of settings.                  *)
(***************************************************************************)
EXTENDS CaptureProperties, TLAPS

\* What the watcher reads of an offer is a content of the form it read.
LEMMA ReadType == ASSUME NEW o \in Offer PROVE Read(o) \in Content \cup {Nothing}
<1> DEFINE available == DOMAIN o \cap Enabled
<1>1. ASSUME NEW f \in available PROVE o[f] \in Content
  BY <1>1, OfferAssumption DEF ContentOf, Content
<1> HIDE DEF available
<1>2. Read(o) = (IF "file_list" \in available THEN o["file_list"]
                ELSE IF "html" \in available THEN o["html"]
                ELSE IF "text" \in available THEN o["text"]
                ELSE IF "image" \in available THEN o["image"]
                ELSE Nothing)
  BY DEF Read, available
<1> QED
  BY <1>1, <1>2

\* What can happen, action by action.
LEMMA Steps ==
  ASSUME Next
  PROVE  \/ \E c \in Content \cup {Nothing} : Copy(c)
         \/ \E w \in Workspace : SetStickyCapture(w)
         \/ \E w \in Workspace, p \in Policy : SetWorkspacePolicy(w, p)
         \/ \E i \in DOMAIN blips : PrepareRecopy(i)
         \/ \E c \in recopying : WriteRecopied(c)
         \/ Poll \/ Idle \/ Consume \/ Compare \/ Route \/ Decide \/ Insert
         \/ StartedAgain \/ Tick
  BY ReadType DEF Next, User, Loop, Restart, ReaderFails

\* An empty record of the clipboard, as at the start and between observations.
LEMMA UnseenType == Unseen \in Clipboard
  BY DEF Unseen, Clipboard

-----------------------------------------------------------------------------
(* Types *)

LEMMA InitInv == Init => CaptureInv
<1> SUFFICES ASSUME Init PROVE CaptureInv
  OBVIOUS
<1>1. TypeOK
  <2>1. policy \in [Workspace -> Policy]
    BY DEF Init, Policy
  <2>2. blips \in Seq(CapturedBlip)
    BY DEF Init
  <2>3. clipboard \in Clipboard /\ seen \in Clipboard /\ clipboard.content = Nothing
    BY UnseenType DEF Init, Unseen
  <2>4. calm \in BOOLEAN /\ lastIngested \in [text : Text, at : Nat] \cup {NoText}
    BY DEF Init
  <2> QED
    BY <2>1, <2>2, <2>3, <2>4, WorkspaceAssumption DEF Init, TypeOK, Step
<1>2. OnceInv /\ DuplicateInv
  BY DEF Init, OnceInv, DuplicateInv, ThisRun, LastText, CapturedOncePerRun, NoRapidDuplicates
<1>3. SettingsInv /\ RecopyInv
  BY DEF Init, SettingsInv, CapturedAsSet, RecopyInv
<1> QED
  BY <1>1, <1>2, <1>3 DEF CaptureInv

LEMMA TypeStep == ASSUME TypeOK, Next PROVE TypeOK'
<1> USE DEF TypeOK, Step
<1>1. ASSUME NEW c \in Content \cup {Nothing}, Copy(c) PROVE TypeOK'
  <2>1. clipboard' \in Clipboard
    BY <1>1 DEF Copy, Clipboard
  <2> QED
    BY <1>1, <2>1 DEF Copy, observation
<1>2. ASSUME NEW w \in Workspace, SetStickyCapture(w) PROVE TypeOK'
  BY <1>2 DEF SetStickyCapture, observation
<1>3. ASSUME NEW w \in Workspace, NEW p \in Policy, SetWorkspacePolicy(w, p) PROVE TypeOK'
  BY <1>3 DEF SetWorkspacePolicy, observation
<1>4. ASSUME NEW i \in DOMAIN blips, PrepareRecopy(i) PROVE TypeOK'
  <2>1. blips[i].content \in Text \cup Image
    BY <1>4 DEF PrepareRecopy, Recopiable
  <2>2. slot' \in Slot
    BY <1>4, <2>1, WindowAssumption DEF PrepareRecopy, Slot
  <2> QED
    BY <1>4, <2>1, <2>2 DEF PrepareRecopy, Undisturbed, observation
<1>5. ASSUME NEW c \in recopying, WriteRecopied(c) PROVE TypeOK'
  <2>3. [content |-> c, copy |-> clipboard.copy + 1, recopied |-> TRUE] \in Clipboard
    BY <1>5 DEF Clipboard, Content
  <2>1. clipboard' \in Clipboard
    BY <1>5, <2>3 DEF WriteRecopied
  <2>2. recopying' \subseteq recopying
    BY <1>5 DEF WriteRecopied
  <2> QED
    BY <1>5, <2>1, <2>2 DEF WriteRecopied, observation
<1>6. ASSUME Poll PROVE TypeOK'
  BY <1>6 DEF Poll, Content, Clipboard
<1>7. ASSUME Idle PROVE TypeOK'
  BY <1>7 DEF Idle, vars, observation
<1>8. ASSUME Consume PROVE TypeOK'
  BY <1>8, UnseenType, WorkspaceAssumption DEF Consume, Goto, Done
<1>9. ASSUME Compare PROVE TypeOK'
  BY <1>9, UnseenType, WorkspaceAssumption DEF Compare, Goto, Done
<1>10. ASSUME Route PROVE TypeOK'
  BY <1>10 DEF Route, Goto
<1>11. ASSUME Decide PROVE TypeOK'
  BY <1>11, UnseenType, WorkspaceAssumption DEF Decide, Goto, Done
<1>12. ASSUME Insert PROVE TypeOK'
  <2>1. [content |-> seen.content, copy |-> seen.copy, recopied |-> seen.recopied, ws |-> dest,
         at |-> seenAt, run |-> restarts] \in CapturedBlip
    BY <1>12 DEF Insert, Captured, CapturedBlip, Clipboard
  <2>2. blips' \in Seq(CapturedBlip)
    BY <1>12, <2>1 DEF Insert, Captured
  <2>3. lastIngested' \in [text : Text, at : Nat] \cup {NoText}
    BY <1>12 DEF Insert, Captured
  <2> QED
    BY <1>12, <2>2, <2>3, UnseenType, WorkspaceAssumption DEF Insert, Captured, Done
<1>13. ASSUME StartedAgain PROVE TypeOK'
  <2>1. lastIngested' \in [text : Text, at : Nat] \cup {NoText}
    BY <1>13 DEF StartedAgain
  <2>2. calm' \in BOOLEAN
    BY <1>13 DEF StartedAgain
  <2>3. lastPayload' \in Content \cup {Nothing}
    BY <1>13 DEF StartedAgain
  <2> QED
    BY <1>13, <2>1, <2>2, <2>3, UnseenType, WorkspaceAssumption DEF StartedAgain, Done
<1>14. ASSUME Tick PROVE TypeOK'
  BY <1>14 DEF Tick, observation
<1> HIDE DEF TypeOK, Step
<1> QED
  BY <1>1, <1>2, <1>3, <1>4, <1>5, <1>6, <1>7, <1>8, <1>9, <1>10, <1>11, <1>12, <1>13, <1>14,
     Steps

-----------------------------------------------------------------------------
(* What groups of actions have in common *)

\* Actions that neither touch the clipboard nor the observation in progress.
LEMMA Aside ==
  ASSUME \/ \E w \in Workspace : SetStickyCapture(w)
         \/ \E w \in Workspace, p \in Policy : SetWorkspacePolicy(w, p)
         \/ \E i \in DOMAIN blips : PrepareRecopy(i)
         \/ Idle \/ Tick
  PROVE  UNCHANGED <<clipboard, lastPayload, lastIngested, pc, seen, seenAt, dest, blips, restarts>>
  BY DEF SetStickyCapture, SetWorkspacePolicy, PrepareRecopy, Idle, Tick, vars, observation

\* A write to the clipboard gives it the next number, and leaves the loop alone.
LEMMA Written ==
  ASSUME \/ \E c \in Content \cup {Nothing} : Copy(c)
         \/ \E c \in recopying : WriteRecopied(c)
  PROVE  /\ UNCHANGED <<lastPayload, lastIngested, slot, sticky, policy, pc, seen, seenAt, dest,
                        blips, now, restarts, offered, permitted>>
         /\ clipboard'.copy = clipboard.copy + 1 \/ clipboard' = clipboard
  BY DEF Copy, WriteRecopied, observation

\* The middle of an observation: it goes on with what was seen, or ends.
LEMMA Proceeding ==
  ASSUME Consume \/ Compare \/ Route \/ Decide
  PROVE  /\ UNCHANGED <<clipboard, lastPayload, lastIngested, blips, restarts>>
         /\ pc # "idle"
         /\ pc' = "idle" \/ seen' = seen
  BY DEF Consume, Compare, Route, Decide, Goto, Done

LEMMA BlipType ==
  ASSUME TypeOK, NEW i \in DOMAIN blips
  PROVE  i \in 1..Len(blips) /\ blips[i] \in CapturedBlip
  BY DEF TypeOK

\* A new blip is the last one; the others stay as they are.
LEMMA Inserted ==
  ASSUME TypeOK, Insert
  PROVE  /\ DOMAIN blips' = 1..Len(blips) + 1
         /\ \A i \in 1..Len(blips) : blips'[i] = blips[i]
         /\ blips'[Len(blips) + 1] =
              [content |-> seen.content, copy |-> seen.copy, recopied |-> seen.recopied,
               ws |-> dest, at |-> seenAt, run |-> restarts]
         /\ DOMAIN blips = 1..Len(blips)
         /\ Len(blips) \in Nat
         /\ pc = "insert" /\ pc' = "idle"
         /\ UNCHANGED <<clipboard, lastPayload, restarts>>
  BY DEF TypeOK, Insert, Captured, Done

-----------------------------------------------------------------------------
(* One blip for a write *)

LEMMA OnceStep == ASSUME TypeOK, OnceInv, Next PROVE OnceInv'
<1> USE DEF OnceInv, ThisRun, CapturedOncePerRun
<1>1. CASE \/ \E w \in Workspace : SetStickyCapture(w)
           \/ \E w \in Workspace, p \in Policy : SetWorkspacePolicy(w, p)
           \/ \E i \in DOMAIN blips : PrepareRecopy(i)
           \/ Idle \/ Tick
  BY <1>1, Aside
<1>2. CASE \/ \E c \in Content \cup {Nothing} : Copy(c)
           \/ \E c \in recopying : WriteRecopied(c)
  <2>1. clipboard.copy \in Nat /\ seen.copy \in Nat
    BY DEF TypeOK, Clipboard
  <2>2. \A i \in DOMAIN blips : blips[i].copy \in Nat
    BY BlipType DEF CapturedBlip
  <2> QED
    BY <1>2, <2>1, <2>2, Written
<1>3. CASE Poll
  <2>1. UNCHANGED <<clipboard, blips, restarts>> /\ lastPayload' = clipboard.content
    BY <1>3 DEF Poll
  <2>2. \A i \in ThisRun : blips[i].copy # clipboard.copy
    BY <1>3 DEF Poll
  <2>3. pc' # "idle" => seen' = clipboard
    BY <1>3 DEF Poll
  <2>4. clipboard.copy \in Nat
    BY DEF TypeOK, Clipboard
  <2> QED
    BY <2>1, <2>2, <2>3, <2>4
<1>4. CASE Consume \/ Compare \/ Route \/ Decide
  BY <1>4, Proceeding
<1>5. CASE Insert
  <2>1. \A i \in ThisRun : blips[i].copy # seen.copy
    BY <1>5, Inserted
  <2>2. restarts \in Nat
    BY DEF TypeOK
  <2> QED
    BY <1>5, <2>1, <2>2, Inserted
<1>6. CASE StartedAgain
  <2>1. /\ UNCHANGED <<clipboard, blips>>
        /\ restarts' = restarts + 1 /\ restarts \in Nat /\ pc' = "idle"
    BY <1>6 DEF StartedAgain, Done, TypeOK
  <2>2. \A i \in DOMAIN blips : blips[i].run \in Nat
    BY BlipType DEF CapturedBlip
  <2> QED
    BY <2>1, <2>2
<1> HIDE DEF OnceInv, ThisRun, CapturedOncePerRun
<1> QED
  BY <1>1, <1>2, <1>3, <1>4, <1>5, <1>6, Steps

-----------------------------------------------------------------------------
(* Where a blip goes *)

LEMMA SettingsStep == ASSUME TypeOK, SettingsInv, Next PROVE SettingsInv'
<1> USE DEF SettingsInv, CapturedAsSet
<1>1. ASSUME NEW c \in Content \cup {Nothing}, Copy(c) PROVE SettingsInv'
  BY <1>1, Written
<1>2. ASSUME NEW w \in Workspace, SetStickyCapture(w) PROVE SettingsInv'
  BY <1>2 DEF SetStickyCapture, observation
<1>3. ASSUME NEW w \in Workspace, NEW p \in Policy, SetWorkspacePolicy(w, p) PROVE SettingsInv'
  <2>1. pc # "idle" => \A v \in Workspace : Allows(policy'[v], seen.content) => v \in permitted'
    <3> SUFFICES ASSUME pc # "idle", NEW v \in Workspace, Allows(policy'[v], seen.content)
                 PROVE  v \in permitted'
      OBVIOUS
    <3>1. policy' = [policy EXCEPT ![w] = p] /\ policy \in [Workspace -> Policy]
      BY <1>3 DEF SetWorkspacePolicy, TypeOK
    <3>2. CASE v = w
      BY <1>3, <3>1, <3>2 DEF SetWorkspacePolicy
    <3>3. CASE v # w
      BY <1>3, <3>1, <3>3 DEF SetWorkspacePolicy
    <3> QED
      BY <3>2, <3>3
  <2>2. UNCHANGED <<pc, seen, dest, sticky, offered>> /\ permitted \subseteq permitted'
    BY <1>3 DEF SetWorkspacePolicy, observation
  <2> QED
    BY <2>1, <2>2
<1>4. ASSUME NEW i \in DOMAIN blips, PrepareRecopy(i) PROVE SettingsInv'
  BY <1>4 DEF PrepareRecopy, observation
<1>5. ASSUME NEW c \in recopying, WriteRecopied(c) PROVE SettingsInv'
  BY <1>5, Written
<1>6. ASSUME Poll PROVE SettingsInv'
  BY <1>6 DEF Poll
<1>7. ASSUME Idle PROVE SettingsInv'
  BY <1>7 DEF Idle, vars, observation
<1>8. ASSUME Consume PROVE SettingsInv'
  BY <1>8 DEF Consume, Goto, Done
<1>9. ASSUME Compare PROVE SettingsInv'
  BY <1>9 DEF Compare, Goto, Done
<1>10. ASSUME Route PROVE SettingsInv'
  <2>1. /\ pc = "route" /\ dest' = sticky
        /\ pc' = IF seen.content \in Text THEN "insert" ELSE "decide"
        /\ UNCHANGED <<seen, offered, permitted, sticky, policy>>
    BY <1>10 DEF Route, Goto
  <2>2. pc' = "insert" => sticky \in permitted
    BY <2>1 DEF Allows, TypeOK
  <2> QED
    BY <2>1, <2>2
<1>11. ASSUME Decide PROVE SettingsInv'
  BY <1>11 DEF Decide, Goto, Done, TypeOK
<1>12. ASSUME Insert PROVE SettingsInv'
  BY <1>12 DEF Insert, Captured, Done
<1>13. ASSUME StartedAgain PROVE SettingsInv'
  BY <1>13 DEF StartedAgain, Done
<1>14. ASSUME Tick PROVE SettingsInv'
  BY <1>14 DEF Tick, observation
<1> HIDE DEF SettingsInv, CapturedAsSet
<1> QED
  BY <1>1, <1>2, <1>3, <1>4, <1>5, <1>6, <1>7, <1>8, <1>9, <1>10, <1>11, <1>12, <1>13, <1>14,
     Steps

-----------------------------------------------------------------------------
(* Repeated texts *)

LEMMA DuplicateStep == ASSUME TypeOK, OnceInv, DuplicateInv, Next PROVE DuplicateInv'
<1> USE DEF DuplicateInv, LastText, ThisRun, NoRapidDuplicates
<1>1. CASE \/ \E w \in Workspace : SetStickyCapture(w)
           \/ \E w \in Workspace, p \in Policy : SetWorkspacePolicy(w, p)
           \/ \E i \in DOMAIN blips : PrepareRecopy(i)
           \/ Idle \/ Tick
  BY <1>1, Aside
<1>2. CASE \/ \E c \in Content \cup {Nothing} : Copy(c)
           \/ \E c \in recopying : WriteRecopied(c)
  <2>1. UNCHANGED <<lastIngested, pc, seen, seenAt, blips, restarts>>
    BY <1>2, Written
  <2> QED
    BY <2>1
<1>3. CASE Poll
  BY <1>3, ContentAssumption DEF Poll
<1>4. CASE Consume
  BY <1>4 DEF Consume, Goto, Done
<1>5. CASE Compare
  <2>1. UNCHANGED <<blips, restarts, lastIngested>>
    BY <1>5 DEF Compare
  <2>2. pc' \in {"route", "insert"} =>
          seen' = seen /\ ~Repeated /\ seenAt' = now
    BY <1>5 DEF Compare, Goto, Done
  <2>3. lastIngested # NoText => lastIngested.at \in Nat /\ now \in Nat
    BY DEF TypeOK
  <2> QED
    BY <2>1, <2>2, <2>3, WindowAssumption DEF Repeated
<1>6. CASE Route
  BY <1>6 DEF Route, Goto
<1>7. CASE Decide
  BY <1>7 DEF Decide, Goto, Done, TypeOK
<1>8. CASE Insert
  <2> DEFINE n == Len(blips) + 1
  <2>1. lastIngested' = IF seen.content \in Text THEN [text |-> seen.content, at |-> seenAt]
                        ELSE lastIngested
    BY <1>8 DEF Insert, Captured
  <2>2. \A i \in DOMAIN blips' : LastText(i)' =>
          lastIngested' = [text |-> blips'[i].content, at |-> blips'[i].at]
    <3> SUFFICES ASSUME NEW i \in DOMAIN blips', LastText(i)'
                 PROVE  lastIngested' = [text |-> blips'[i].content, at |-> blips'[i].at]
      OBVIOUS
    <3>1. CASE i = n
      BY <1>8, <2>1, <3>1, Inserted
    <3>2. CASE i # n
      <4>1. i \in 1..Len(blips) /\ n \in DOMAIN blips' /\ n > i
        BY <1>8, <3>2, Inserted
      <4>2. seen.content \notin Text
        BY <1>8, <4>1, Inserted
      <4>3. LastText(i)
        BY <1>8, <4>1, Inserted
      <4> QED
        BY <1>8, <2>1, <4>1, <4>2, <4>3, Inserted
    <3> QED
      BY <3>1, <3>2
  <2>3. NoRapidDuplicates'
    <3> SUFFICES ASSUME NEW i \in DOMAIN blips', NEW j \in DOMAIN blips', i < j,
                        blips'[i].content \in Text, blips'[j].content = blips'[i].content,
                        blips'[i].run = blips'[j].run,
                        \A k \in i+1..j-1 : blips'[k].content \notin Text
                 PROVE  blips'[j].at - blips'[i].at > DuplicateWindow
      OBVIOUS
    <3>1. CASE j # n
      <4>1. i \in DOMAIN blips /\ j \in DOMAIN blips /\ i+1..j-1 \subseteq 1..Len(blips)
        BY <1>8, <3>1, Inserted
      <4>2. \A k \in i+1..j-1 : blips[k].content \notin Text
        BY <1>8, <4>1, Inserted
      <4> QED
        BY <1>8, <4>1, <4>2, Inserted
    <3>2. CASE j = n
      <4>1. i \in 1..Len(blips) /\ i \in DOMAIN blips
        BY <1>8, <3>2, Inserted
      <4>2. LastText(i)
        <5>1. \A k \in DOMAIN blips : k > i => k \in i+1..j-1 /\ blips'[k] = blips[k]
          BY <1>8, <3>2, <4>1, Inserted
        <5> QED
          BY <1>8, <3>2, <4>1, <5>1, Inserted
      <4>3. lastIngested = [text |-> blips[i].content, at |-> blips[i].at]
        BY <4>1, <4>2
      <4>4. lastIngested # NoText
        <5>1. blips[i].content \in Text /\ blips[i].at \in Nat
          BY <4>1, <4>2, BlipType DEF CapturedBlip
        <5> QED
          BY <4>3, <5>1, NullAssumption
      <4> QED
        BY <1>8, <3>2, <4>1, <4>3, <4>4, Inserted
    <3> QED
      BY <3>1, <3>2
  <2> QED
    BY <1>8, <2>2, <2>3, Inserted
<1>9. CASE StartedAgain
  <2>1. /\ UNCHANGED blips
        /\ restarts' = restarts + 1 /\ restarts \in Nat /\ pc' = "idle"
    BY <1>9 DEF StartedAgain, Done, TypeOK
  <2>2. \A i \in DOMAIN blips : blips[i].run \in Nat /\ blips[i].run <= restarts
    BY BlipType DEF CapturedBlip, OnceInv
  <2> QED
    BY <2>1, <2>2
<1> HIDE DEF DuplicateInv, LastText, ThisRun, NoRapidDuplicates
<1> QED
  BY <1>1, <1>2, <1>3, <1>4, <1>5, <1>6, <1>7, <1>8, <1>9, Steps

-----------------------------------------------------------------------------
(* Undisturbed recopies *)

LEMMA RecopyStep == ASSUME TypeOK, RecopyInv, Next PROVE RecopyInv'
<1> USE DEF RecopyInv, Awaits
<1>1. ASSUME NEW c \in Content \cup {Nothing}, Copy(c) PROVE RecopyInv'
  BY <1>1 DEF Copy
<1>2. ASSUME NEW w \in Workspace, SetStickyCapture(w) PROVE RecopyInv'
  BY <1>2 DEF SetStickyCapture, observation
<1>3. ASSUME NEW w \in Workspace, NEW p \in Policy, SetWorkspacePolicy(w, p) PROVE RecopyInv'
  BY <1>3 DEF SetWorkspacePolicy, observation
<1>4. ASSUME NEW i \in DOMAIN blips, PrepareRecopy(i) PROVE RecopyInv'
  <2> DEFINE c == blips[i].content
  <2>1. /\ c \in Text \cup Image
        /\ slot' = [fingerprint |-> Fingerprint(c), expires |-> now + RecopyWindow]
        /\ recopying' = recopying \cup {c}
        /\ calm' = Undisturbed
        /\ UNCHANGED <<clipboard, lastPayload, pc, now>>
    BY <1>4 DEF PrepareRecopy, Recopiable, observation
  <2>2. slot' \in Slot /\ slot' # NoSlot
    BY <2>1, WindowAssumption, NullAssumption DEF Slot, TypeOK
  <2>3. slot'.expires >= now'
    BY <2>1, WindowAssumption DEF TypeOK
  <2>4. SUFFICES ASSUME calm' PROVE RecopyInv'
    OBVIOUS
  <2>5. recopying' = {c} /\ pc' = "idle" /\ clipboard'.content = lastPayload'
    BY <2>1, <2>4 DEF Undisturbed
  <2> QED
    BY <2>1, <2>2, <2>3, <2>5
<1>5. ASSUME NEW c \in recopying, WriteRecopied(c) PROVE RecopyInv'
  <2>1. /\ clipboard'.content = c \/ clipboard' = clipboard
        /\ recopying' = recopying \ {c}
        /\ UNCHANGED <<slot, pc, lastPayload, now, calm>>
    BY <1>5 DEF WriteRecopied, observation
  <2>2. SUFFICES ASSUME calm PROVE RecopyInv'
    BY <2>1
  <2>3. recopying = {c} /\ pc = "idle" /\ clipboard.content = lastPayload /\ Awaits(c)
    BY <2>2
  <2>4. recopying' = {}
    BY <2>1, <2>3
  <2> QED
    BY <2>1, <2>3, <2>4
<1>6. ASSUME Poll PROVE RecopyInv'
  <2>1. /\ pc = "idle" /\ clipboard.content # lastPayload /\ lastPayload' = clipboard.content
        /\ UNCHANGED <<clipboard, slot, recopying, now, calm>>
        /\ \/ clipboard.content = Nothing /\ pc' = pc
           \/ /\ pc' = IF clipboard.content \in Other THEN "route" ELSE "consume"
              /\ seen' = clipboard
    BY <1>6 DEF Poll
  <2>2. SUFFICES ASSUME calm PROVE RecopyInv'
    BY <2>1
  <2>3. recopying = {} /\ Awaits(clipboard.content)
    BY <2>1, <2>2
  <2>4. clipboard.content \notin Other /\ clipboard.content # Nothing
    BY <2>3, ContentAssumption DEF Content
  <2> QED
    BY <2>1, <2>3, <2>4
<1>7. ASSUME Idle PROVE RecopyInv'
  BY <1>7 DEF Idle, vars, observation
<1>8. ASSUME Consume PROVE RecopyInv'
  <2>1. UNCHANGED <<clipboard, lastPayload, recopying, now, calm>> /\ pc = "consume"
    BY <1>8 DEF Consume
  <2>2. SUFFICES ASSUME calm PROVE RecopyInv'
    BY <2>1
  <2>3. Awaits(seen.content) /\ recopying = {} /\ clipboard.content = lastPayload
    BY <2>1, <2>2
  <2>4. SlotMatches
    BY <2>3 DEF SlotMatches
  <2>5. pc' = "idle"
    BY <1>8, <2>4 DEF Consume, Done
  <2> QED
    BY <2>1, <2>3, <2>5
<1>9. ASSUME Compare \/ Route \/ Decide \/ Insert PROVE RecopyInv'
  <2>1. ~calm
    BY <1>9 DEF Compare, Route, Decide, Insert, Captured
  <2>2. calm' = calm
    BY <1>9 DEF Compare, Route, Decide, Insert, Captured
  <2> QED
    BY <2>1, <2>2
<1>10. ASSUME StartedAgain PROVE RecopyInv'
  BY <1>10 DEF StartedAgain
<1>11. ASSUME Tick PROVE RecopyInv'
  <2>1. /\ now' = now + 1 /\ now \in Nat
        /\ calm' => calm /\ slot # NoSlot /\ slot.expires > now
        /\ UNCHANGED <<clipboard, lastPayload, slot, pc, seen, recopying>>
    BY <1>11 DEF Tick, observation, TypeOK
  <2>2. slot # NoSlot => slot.expires \in Nat
    BY DEF TypeOK, Slot
  <2> QED
    BY <2>1, <2>2
<1> HIDE DEF RecopyInv, Awaits
<1> QED
  BY <1>1, <1>2, <1>3, <1>4, <1>5, <1>6, <1>7, <1>8, <1>9, <1>10, <1>11, Steps

-----------------------------------------------------------------------------
(* The theorems *)

LEMMA Stutter == ASSUME CaptureInv, UNCHANGED vars PROVE CaptureInv'
  BY DEF vars, observation, CaptureInv, TypeOK, OnceInv, DuplicateInv, SettingsInv, RecopyInv,
         ThisRun, LastText, Awaits, CapturedOncePerRun, NoRapidDuplicates, CapturedAsSet

\* The inductive invariant of the capture loop, the IPC thread and the desktop:
\* a write is captured once, repeated texts respect the window, a blip goes
\* where the settings sent it, and an undisturbed recopy is awaited.
THEOREM CaptureInvariant == Spec => []CaptureInv
<1>1. CaptureInv /\ [Next]_vars => CaptureInv'
  <2> SUFFICES ASSUME CaptureInv, [Next]_vars PROVE CaptureInv'
    OBVIOUS
  <2>1. CASE Next
    BY <2>1, TypeStep, OnceStep, DuplicateStep, SettingsStep, RecopyStep DEF CaptureInv
  <2>2. CASE UNCHANGED vars
    BY <2>2, Stutter
  <2> QED
    BY <2>1, <2>2
<1> QED
  BY <1>1, InitInv, PTL DEF Spec

\* One write to the clipboard is captured at most once by one run of the daemon,
\* however the watcher's polls, other copies and recopies interleave.
THEOREM CapturedOnce == Spec => []CapturedOncePerRun
<1>1. CaptureInv => CapturedOncePerRun
  BY DEF CaptureInv, OnceInv
<1> QED
  BY <1>1, CaptureInvariant, PTL

\* Equal texts with no other text between them are further apart than the window
\* of the duplicate suppression, for every window.
THEOREM DuplicatesApart == Spec => []NoRapidDuplicates
<1>1. CaptureInv => NoRapidDuplicates
  BY DEF CaptureInv, DuplicateInv
<1> QED
  BY <1>1, CaptureInvariant, PTL

\* A blip goes to a workspace that was the destination, and whose policy let the
\* content in, since it was observed, however the settings change meanwhile.
THEOREM CapturedWhereSet == Spec => []CapturedAsSet
<1>1. CaptureInv => CapturedAsSet
  BY DEF CaptureInv, SettingsInv
<1> QED
  BY <1>1, CaptureInvariant, PTL

\* The clipboard event of an undisturbed recopy is consumed, for every window and
\* every moment it is polled at before its fingerprint expires.
THEOREM RecopyConsumed == Spec => []RecopyNotCaptured
<1>1. CaptureInv => RecopyNotCaptured
  BY DEF CaptureInv, RecopyInv, RecopyNotCaptured
<1> QED
  BY <1>1, CaptureInvariant, PTL
=============================================================================
