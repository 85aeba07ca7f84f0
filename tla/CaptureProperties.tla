-------------------------- MODULE CaptureProperties --------------------------
(***************************************************************************)
(* What capturing promises: the properties TLC checks in MCCapture.         *)
(***************************************************************************)
EXTENDS Capture

Clipboard == [content : Content \cup {Nothing}, copy : Nat, recopied : BOOLEAN]
Step == {"idle", "consume", "compare", "route", "decide", "insert"}
CapturedBlip == [content : Content, copy : Nat, recopied : BOOLEAN, ws : Workspace, at : Nat,
                 run : Nat]

TypeOK ==
  /\ clipboard \in Clipboard
  /\ lastPayload \in Content \cup {Nothing}
  /\ lastIngested \in [text : Text, at : Nat] \cup {NoText}
  /\ slot \in Slot \cup {NoSlot}
  /\ sticky \in Workspace
  /\ policy \in [Workspace -> Policy]
  /\ pc \in Step
  /\ seen \in Clipboard
  /\ pc # "idle" => seen.content # Nothing
  /\ pc = "compare" => seen.content \in Text
  /\ pc = "consume" => seen.content \notin Other
  /\ pc = "decide" => seen.content \notin Text
  /\ seenAt \in 0..now
  /\ dest \in Workspace
  /\ blips \in Seq(CapturedBlip)
  /\ recopying \subseteq Text \cup Image
  /\ now \in Nat /\ restarts \in Nat /\ settings \in Nat
  /\ offered \subseteq Workspace /\ permitted \subseteq Workspace
  /\ calm \in BOOLEAN

\* One write to the clipboard gives at most one blip as long as the daemon runs,
\* whatever is copied in between and however often the watcher polls.
CapturedOncePerRun ==
  \A i, j \in DOMAIN blips : i # j /\ blips[i].copy = blips[j].copy => blips[i].run # blips[j].run

\* "phase 2 suppresses repeated identical text clipboard events observed by
\* blipd within a two-second window", unless "different text resets the
\* comparison" (docs/mvp-phases.md): of two equal texts one run captures with no
\* other text in between, the second was observed after the window.
NoRapidDuplicates ==
  \A i, j \in DOMAIN blips :
    /\ i < j
    /\ blips[i].content \in Text /\ blips[j].content = blips[i].content
    /\ blips[i].run = blips[j].run
    /\ \A k \in i+1..j-1 : blips[k].content \notin Text
    => blips[j].at - blips[i].at > DuplicateWindow

\* The destination and the policy are read one after the other and before the
\* insert: still a blip only goes to a workspace that was the destination, and
\* whose policy let the content in, at some moment since it was observed.
CapturedAsSet == pc = "insert" => dest \in offered /\ dest \in permitted

\* A recopy does not come back as a new blip if nothing comes in between:
\* prepared while the loop was idle and up to date, no copy by another program,
\* no second recopy, no restart, and polled before its fingerprint expires.
RecopyNotCaptured == pc \in {"compare", "route", "decide", "insert"} /\ seen.recopied => ~calm

\* No text is lost for good: one that stays on the clipboard ends up as a blip,
\* or is one already, although the watcher, the recopy slot and the duplicate
\* window can each drop the event, and although the daemon can be restarted.
TextNeverLost ==
  \A c \in Text :
    clipboard.content = c ~>
      clipboard.content # c \/ \E i \in DOMAIN blips : blips[i].content = c

\* "The command also registers a short-lived clipboard fingerprint so the
\* matching clipboard watcher event is consumed instead of inserting a duplicate
\* blip" (docs/daemon-api.md).
NoRecopyCaptured == \A i \in DOMAIN blips : ~blips[i].recopied

-----------------------------------------------------------------------------
(* The inductive invariant behind the properties above *)

ThisRun == {i \in DOMAIN blips : blips[i].run = restarts}

\* A write the loop has read or captured in this run is the last payload of the
\* watcher, unless the clipboard was written since.
OnceInv ==
  /\ \A i \in DOMAIN blips : blips[i].run <= restarts /\ blips[i].copy <= clipboard.copy
  /\ \A i \in ThisRun : blips[i].copy = clipboard.copy => lastPayload = clipboard.content
  /\ pc # "idle" =>
       /\ seen.copy <= clipboard.copy
       /\ seen.copy = clipboard.copy => lastPayload = clipboard.content
       /\ \A i \in ThisRun : blips[i].copy # seen.copy
  /\ CapturedOncePerRun

\* The last text of this run is the one the loop remembers, and a text that
\* passed the comparison is not a repetition of it.
LastText(i) ==
  /\ i \in ThisRun /\ blips[i].content \in Text
  /\ \A k \in DOMAIN blips : k > i => blips[k].content \notin Text
DuplicateInv ==
  /\ \A i \in DOMAIN blips : LastText(i) =>
       lastIngested = [text |-> blips[i].content, at |-> blips[i].at]
  /\ pc \in {"route", "insert"} /\ seen.content \in Text /\ lastIngested # NoText
       /\ lastIngested.text = seen.content => seenAt - lastIngested.at > DuplicateWindow
  /\ NoRapidDuplicates

\* The history of the settings holds the present ones, and what was read of them.
SettingsInv ==
  /\ pc # "idle" =>
       /\ sticky \in offered
       /\ \A w \in Workspace : Allows(policy[w], seen.content) => w \in permitted
  /\ pc \in {"decide", "insert"} => dest \in offered
  /\ CapturedAsSet

\* While nothing disturbs a recopy its fingerprint waits for it: until the
\* clipboard is written, until it is polled, and until it is consumed.
Awaits(c) ==
  /\ c \in Text \cup Image
  /\ slot # NoSlot /\ slot.expires >= now /\ slot.fingerprint = Fingerprint(c)
RecopyInv ==
  calm =>
    /\ recopying # {} =>
         /\ pc = "idle" /\ clipboard.content = lastPayload
         /\ \E c \in Text \cup Image : recopying = {c} /\ Awaits(c)
    /\ recopying = {} /\ pc = "idle" /\ clipboard.content # lastPayload =>
         Awaits(clipboard.content)
    /\ pc # "idle" =>
         pc = "consume" /\ recopying = {} /\ clipboard.content = lastPayload /\ Awaits(seen.content)

CaptureInv == TypeOK /\ OnceInv /\ DuplicateInv /\ SettingsInv /\ RecopyInv
=============================================================================
