------------------------------- MODULE Capture -------------------------------
(***************************************************************************)
(* From the clipboard to a blip: the polling watcher of blip-clipboard, the *)
(* capture loop of the daemon and its duplicate suppression, the IPC thread *)
(* of the same process, and the desktop's recopy                            *)
(* (src/crates/blip-clipboard/src/lib.rs, src/crates/blip-daemon/src/lib.rs,*)
(* src/apps/desktop/src/main.tsx).                                          *)
(*                                                                          *)
(* The capture loop and the IPC thread each have a connection of their own, *)
(* so that every call of the store is one action and the calls of one       *)
(* observation interleave with recopies and changes of settings.  The       *)
(* clipboard itself belongs to the platform and to other programs.          *)
(*                                                                          *)
(* A program offers one thing in several forms; the watcher reads the first *)
(* form that is there and switched on.  The daemon has its switches from the *)
(* same configuration (main.rs), so that its own check of them never fails. *)
(* Payload rows and files are in BlobLifecycle, retention and moves in      *)
(* BlipStore.                                                               *)
(***************************************************************************)
EXTENDS Integers, Sequences, FiniteSets

CONSTANTS Text, Image, Other,  \* what can be on the clipboard, by kind
          Nothing,             \* an empty clipboard, and no payload seen
          Offer,               \* what a program can copy: content by form
          Enabled,             \* the forms that are switched on (CaptureConfig)
          Dimensions,          \* width and height of each image
          Workspace, Inbox,
          NoSlot, NoText,
          RecopyWindow,        \* RECOPY_SUPPRESSION_WINDOW, 5 seconds
          DuplicateWindow,     \* DUPLICATE_SUPPRESSION_WINDOW, 2 seconds
          MaxCopies,           \* bound on the writes to the clipboard
          MaxTime, MaxRestarts, MaxSettings

Content == Text \cup Image \cup Other
Kind(c) == IF c \in Text THEN "text" ELSE IF c \in Image THEN "image" ELSE "other"
\* What a policy lets in beside text: images need rich capture as well.
Policy == {{}, {"other"}, {"image", "other"}}

ASSUME ContentAssumption ==
  /\ Text \cap Image = {} /\ Text \cap Other = {} /\ Image \cap Other = {}
  /\ Nothing \notin Content
  /\ DOMAIN Dimensions = Image

\* What the platform's reader can read; it returns no rtf and no unknown payload.
Form == {"file_list", "html", "text", "image"}
ContentOf(f) == CASE f = "text" -> Text [] f = "image" -> Image [] OTHER -> Other
ASSUME OfferAssumption ==
  /\ Enabled \subseteq Form
  /\ \A o \in Offer : DOMAIN o \subseteq Form /\ \A f \in DOMAIN o : o[f] \in ContentOf(f)
\* poll_next asks for one form after the other: a text that comes with its html
\* is html, unless html is switched off.
Read(o) ==
  LET available == DOMAIN o \cap Enabled IN
  IF "file_list" \in available THEN o["file_list"]
  ELSE IF "html" \in available THEN o["html"]
  ELSE IF "text" \in available THEN o["text"]
  ELSE IF "image" \in available THEN o["image"]
  ELSE Nothing

\* clipboard_text_fingerprint and clipboard_image_fingerprint
Fingerprint(c) == IF c \in Text THEN <<"text", c>> ELSE <<"image", Dimensions[c]>>
Slot == [fingerprint : {Fingerprint(c) : c \in Text \cup Image}, expires : Nat]

ASSUME NullAssumption == NoSlot \notin Slot /\ NoText \notin [text : Text, at : Nat]
ASSUME WorkspaceAssumption == Inbox \in Workspace
ASSUME WindowAssumption == RecopyWindow \in Nat /\ DuplicateWindow \in Nat
ASSUME BoundAssumption ==
  MaxCopies \in Nat /\ MaxTime \in Nat /\ MaxRestarts \in Nat /\ MaxSettings \in Nat

VARIABLES
  clipboard,    \* the content as it is read, the number of the write, if a recopy wrote it
  lastPayload,  \* PollingClipboardWatcher.last_payload
  lastIngested, \* DuplicateSuppression.last_ingested
  slot,         \* the pending clipboard suppression in app_state
  sticky,       \* the workspace with sticky_capture, Inbox without one
  policy,       \* what the policy of each workspace lets in
  pc,           \* the call the capture loop makes next
  seen,         \* the clipboard as the watcher read it
  seenAt,       \* observed_at
  dest,         \* destination_workspace_name
  blips,        \* the captured blips, in the order of their insertion
  recopying,    \* what the desktop is about to write to the clipboard
  now, restarts, settings,
  \* History, for the properties only:
  offered,      \* workspaces that were the destination since the observation
  permitted,    \* workspaces whose policy let the content in since then
  calm          \* nothing has come in between since the last recopy was prepared

observation == <<pc, seen, seenAt, dest>>
vars == <<clipboard, lastPayload, lastIngested, slot, sticky, policy, observation, blips,
          recopying, now, restarts, settings, offered, permitted, calm>>

Unseen == [content |-> Nothing, copy |-> 0, recopied |-> FALSE]

Init ==
  /\ clipboard = Unseen
  /\ lastPayload = Nothing
  /\ lastIngested = NoText
  /\ slot = NoSlot
  /\ sticky = Inbox
  /\ policy = [w \in Workspace |-> {"image", "other"}]
  /\ pc = "idle"
  /\ seen = Unseen
  /\ seenAt = 0
  /\ dest = Inbox
  /\ blips = << >>
  /\ recopying = {}
  /\ now = 0
  /\ restarts = 0
  /\ settings = 0
  /\ offered = {}
  /\ permitted = {}
  /\ calm = FALSE

Allows(p, c) == c \in Text \/ Kind(c) \in p

-----------------------------------------------------------------------------
(* Other programs and the user *)

Copy(c) ==
  /\ clipboard.copy < MaxCopies
  /\ clipboard' = [content |-> c, copy |-> clipboard.copy + 1, recopied |-> FALSE]
  /\ calm' = FALSE
  /\ UNCHANGED <<lastPayload, lastIngested, slot, sticky, policy, observation, blips, recopying,
                 now, restarts, settings, offered, permitted>>

SetStickyCapture(w) ==
  /\ settings < MaxSettings
  /\ settings' = settings + 1
  /\ sticky' = w
  /\ offered' = IF pc = "idle" THEN {} ELSE offered \cup {w}
  /\ UNCHANGED <<clipboard, lastPayload, lastIngested, slot, policy, observation, blips, recopying,
                 now, restarts, permitted, calm>>

SetWorkspacePolicy(w, p) ==
  /\ settings < MaxSettings
  /\ settings' = settings + 1
  /\ policy' = [policy EXCEPT ![w] = p]
  /\ permitted' = IF pc # "idle" /\ Allows(p, seen.content) THEN permitted \cup {w} ELSE permitted
  /\ UNCHANGED <<clipboard, lastPayload, lastIngested, slot, sticky, observation, blips, recopying,
                 now, restarts, offered, calm>>

\* The desktop asks the daemon first (prepare_blip_recopy) ...
Undisturbed == pc = "idle" /\ recopying = {} /\ clipboard.content = lastPayload
Recopiable(i) == i \in DOMAIN blips /\ blips[i].content \in Text \cup Image

\* Mutant: the fingerprint expires at once.
PrepareExpired(i) ==
  LET c == blips[i].content IN
  /\ Recopiable(i)
  /\ clipboard.copy < MaxCopies
  /\ slot' = [fingerprint |-> Fingerprint(c), expires |-> now - 1]
  /\ recopying' = recopying \cup {c}
  /\ calm' = Undisturbed
  /\ UNCHANGED <<clipboard, lastPayload, lastIngested, sticky, policy, observation, blips,
                 now, restarts, settings, offered, permitted>>

PrepareRecopy(i) ==
  LET c == blips[i].content IN
  /\ Recopiable(i)
  /\ clipboard.copy < MaxCopies
  /\ slot' = [fingerprint |-> Fingerprint(c), expires |-> now + RecopyWindow]
  /\ recopying' = recopying \cup {c}
  /\ calm' = Undisturbed
  /\ UNCHANGED <<clipboard, lastPayload, lastIngested, sticky, policy, observation, blips,
                 now, restarts, settings, offered, permitted>>

\* ... and then writes the clipboard, which the platform can refuse.
WriteRecopied(c) ==
  /\ clipboard.copy < MaxCopies
  /\ \/ clipboard' = [content |-> c, copy |-> clipboard.copy + 1, recopied |-> TRUE]
     \/ clipboard' = clipboard
  /\ recopying' = recopying \ {c}
  /\ UNCHANGED <<lastPayload, lastIngested, slot, sticky, policy, observation, blips,
                 now, restarts, settings, offered, permitted, calm>>

-----------------------------------------------------------------------------
(* The capture loop *)

Goto(next) == pc' = next /\ UNCHANGED <<seen, offered, permitted>>

\* The observation is dealt with; its local variables are gone.
Done ==
  /\ pc' = "idle"
  /\ seen' = Unseen /\ seenAt' = 0 /\ dest' = Inbox
  /\ offered' = {} /\ permitted' = {}

\* Mutant: what was seen is not remembered.
PollForgets ==
  /\ pc = "idle"
  /\ clipboard.content # lastPayload
  /\ clipboard.content # Nothing
  /\ pc' = (IF clipboard.content \in Other THEN "route" ELSE "consume")
  /\ seen' = clipboard
  /\ offered' = {sticky}
  /\ permitted' = {w \in Workspace : Allows(policy[w], clipboard.content)}
  /\ UNCHANGED <<clipboard, lastPayload, lastIngested, slot, sticky, policy, seenAt, dest, blips,
                 recopying, now, restarts, settings, calm>>

\* poll_next: a payload is an event when it differs from the last one; an
\* empty clipboard is none, and forgets the last one.
Poll ==
  /\ pc = "idle"
  /\ clipboard.content # lastPayload
  /\ lastPayload' = clipboard.content
  /\ IF clipboard.content = Nothing
     THEN UNCHANGED <<pc, seen, offered, permitted>>
     ELSE /\ pc' = (IF clipboard.content \in Other THEN "route" ELSE "consume")
          /\ seen' = clipboard
          /\ offered' = {sticky}
          /\ permitted' = {w \in Workspace : Allows(policy[w], clipboard.content)}
  /\ UNCHANGED <<clipboard, lastIngested, slot, sticky, policy, seenAt, dest, blips, recopying,
                 now, restarts, settings, calm>>

\* The clipboard is as it was: RuntimeEvent::Idle.
Idle == pc = "idle" /\ clipboard.content = lastPayload /\ UNCHANGED vars

\* consume_clipboard_suppression.  Mutant: any event takes the slot.
SlotTaken == slot # NoSlot /\ slot.expires >= now
SlotMatches == slot # NoSlot /\ slot.expires >= now /\ slot.fingerprint = Fingerprint(seen.content)
SlotExpired == slot # NoSlot /\ slot.expires < now
Consume ==
  /\ pc = "consume"
  /\ slot' = IF SlotMatches \/ SlotExpired THEN NoSlot ELSE slot
  /\ IF SlotMatches THEN Done
     ELSE /\ Goto(IF seen.content \in Text THEN "compare" ELSE "route")
          /\ UNCHANGED <<seenAt, dest>>
  /\ UNCHANGED <<clipboard, lastPayload, lastIngested, sticky, policy, blips, recopying,
                 now, restarts, settings, calm>>

\* should_suppress.  Mutant: the end of the window is outside of it.
RepeatedWithin ==
  /\ lastIngested # NoText
  /\ lastIngested.text = seen.content
  /\ now - lastIngested.at < DuplicateWindow
Repeated ==
  /\ lastIngested # NoText
  /\ lastIngested.text = seen.content
  /\ now - lastIngested.at <= DuplicateWindow
Compare ==
  /\ pc = "compare"
  /\ IF Repeated THEN Done ELSE Goto("route") /\ seenAt' = now /\ UNCHANGED dest
  /\ UNCHANGED <<clipboard, lastPayload, lastIngested, slot, sticky, policy, blips, recopying,
                 now, restarts, settings, calm>>

\* Mutant: always the inbox.
RouteToInbox ==
  /\ pc = "route"
  /\ dest' = Inbox
  /\ Goto(IF seen.content \in Text THEN "insert" ELSE "decide")
  /\ UNCHANGED <<clipboard, lastPayload, lastIngested, slot, sticky, policy, seenAt, blips,
                 recopying, now, restarts, settings, calm>>
\* destination_workspace_name
Route ==
  /\ pc = "route"
  /\ dest' = sticky
  /\ Goto(IF seen.content \in Text THEN "insert" ELSE "decide")
  /\ UNCHANGED <<clipboard, lastPayload, lastIngested, slot, sticky, policy, seenAt, blips,
                 recopying, now, restarts, settings, calm>>

\* The rest of destination_workspace_policy
Decide ==
  /\ pc = "decide"
  /\ IF Allows(policy[dest], seen.content) THEN Goto("insert") /\ UNCHANGED <<seenAt, dest>>
     ELSE Done
  /\ UNCHANGED <<clipboard, lastPayload, lastIngested, slot, sticky, policy, blips, recopying,
                 now, restarts, settings, calm>>

\* The row that is inserted, whatever its kind
Captured ==
  [content |-> seen.content, copy |-> seen.copy, recopied |-> seen.recopied, ws |-> dest,
   at |-> seenAt, run |-> restarts]

\* Mutant: a text that was inserted is not remembered.
InsertUnremembered ==
  /\ pc = "insert"
  /\ Done
  /\ blips' = Append(blips, Captured)
  /\ UNCHANGED <<clipboard, lastPayload, lastIngested, slot, sticky, policy, recopying,
                 now, restarts, settings, calm>>

\* insert_blip, and record_ingested for a text.
Insert ==
  /\ pc = "insert"
  /\ Done
  /\ blips' = Append(blips, Captured)
  /\ lastIngested' = IF seen.content \in Text THEN [text |-> seen.content, at |-> seenAt]
                     ELSE lastIngested
  /\ UNCHANGED <<clipboard, lastPayload, slot, sticky, policy, recopying,
                 now, restarts, settings, calm>>

\* The daemon ends and is started again: only the tables survive.
StartedAgain ==
  /\ restarts < MaxRestarts
  /\ restarts' = restarts + 1
  /\ Done
  /\ lastPayload' = Nothing
  /\ lastIngested' = NoText
  /\ calm' = FALSE
  /\ UNCHANGED <<clipboard, slot, sticky, policy, blips, recopying, now, settings>>

\* A crash, or an error of the store, at any call.
Restart == StartedAgain

\* No error of the clipboard is retried: one that is occupied or unavailable, an
\* image over the limit or that cannot be normalised, ends the daemon.
ReaderFails == pc = "idle" /\ StartedAgain

Tick ==
  /\ now < MaxTime
  /\ now' = now + 1
  /\ calm' = (calm /\ slot # NoSlot /\ slot.expires > now)
  /\ UNCHANGED <<clipboard, lastPayload, lastIngested, slot, sticky, policy, observation, blips,
                 recopying, restarts, settings, offered, permitted>>

-----------------------------------------------------------------------------
User ==
  \/ \E o \in Offer : Copy(Read(o))
  \/ \E w \in Workspace : SetStickyCapture(w)
  \/ \E w \in Workspace, p \in Policy : SetWorkspacePolicy(w, p)
  \/ \E i \in DOMAIN blips : PrepareRecopy(i)
  \/ \E c \in recopying : WriteRecopied(c)

Loop == Poll \/ Idle \/ Consume \/ Compare \/ Route \/ Decide \/ Insert

Next == User \/ Loop \/ Restart \/ ReaderFails \/ Tick

\* The loop polls for ever; nothing else has to happen.
Fairness == WF_vars(Loop)
Spec == Init /\ [][Next]_vars /\ Fairness
=============================================================================
