----------------------------- MODULE BlobLifecycle -----------------------------
(***************************************************************************)
(* The two halves of a rich payload: the row in blip_payloads and the files *)
(* in the content-addressed blob directory, which no transaction spans.     *)
(* Modelled from blob.rs, from the blob operations of store.rs and from     *)
(* ingest_clipboard_image of blip-daemon.                                   *)
(*                                                                          *)
(* A process is a daemon or any other program that opened the same data     *)
(* directory.  It works through one operation at a time:                    *)
(*   - capture: insert the blip (a transaction), write the preview file     *)
(*     (one section under the directory lock), then write the raw file and  *)
(*     commit the payload row (a second section under the lock);            *)
(*   - cleanup (retention or delete_blip): under the lock, delete rows in   *)
(*     one transaction, then look up each blob they named and unlink it     *)
(*     when no row names it any more;                                       *)
(*   - garbage collection: under the lock, unlink every file no row named   *)
(*     when it began.  The library offers it, no program calls it.          *)
(*                                                                          *)
(* The preview file is written with the lock held from the first to the     *)
(* last step of its section and published by one hard_link, so that section *)
(* is one action.  A crash is the death of a process, or an error that ends *)
(* its operation: files and committed rows stay and the lock is released.   *)
(* Loss of power (the directory entry is not fsynced), temporary files and  *)
(* damaged files are not modelled.                                          *)
(***************************************************************************)
EXTENDS Naturals, FiniteSets

CONSTANTS Proc,      \* the processes that share the data directory
          Blip,      \* identities of blips with a blob payload
          Ref,       \* blob references: one for each content
          Preview,   \* the reference of the thumbnail of a content, or NoRef
          NoProc, NoBlip, NoRef,
          MaxCrash   \* bound on the number of crashes

ASSUME NullAssumption == NoProc \notin Proc /\ NoBlip \notin Blip /\ NoRef \notin Ref
ASSUME PreviewAssumption == Preview \in [Ref -> Ref \cup {NoRef}]
ASSUME CrashAssumption == MaxCrash \in Nat

VARIABLES
  files,    \* the references that have a final file
  live,     \* blips with a row
  issued,   \* identities that were ever given
  rawRef,   \* blob_ref of the blip's payload row, NoRef without one
  thumbRef, \* its preview_ref
  lock,     \* who holds the directory lock
  pc,       \* where each process is
  blip,     \* the blip it is capturing
  bytes,    \* the content it is capturing
  todo,     \* the references it has still to consider for removal
  crashes,
  leftover  \* history: what operations that died or failed had in hand, and is there still

rows == <<live, issued, rawRef, thumbRef>>
locals == <<blip, bytes, todo>>
history == <<crashes, leftover>>
vars == <<files, rows, lock, pc, locals, history>>

\* Between two sections, and inside a section under the lock.
Unlocked == {"idle", "previewing", "attaching"}
Locked == {"writing", "committing", "deleting", "checking", "unlinking", "listing", "sweeping"}

TypeOK ==
  /\ files \subseteq Ref
  /\ live \subseteq Blip
  /\ issued \subseteq Blip
  /\ rawRef \in [Blip -> Ref \cup {NoRef}]
  /\ thumbRef \in [Blip -> Ref \cup {NoRef}]
  /\ lock \in Proc \cup {NoProc}
  /\ pc \in [Proc -> Unlocked \cup Locked]
  /\ blip \in [Proc -> Blip \cup {NoBlip}]
  /\ bytes \in [Proc -> Ref \cup {NoRef}]
  /\ todo \in [Proc -> SUBSET Ref]
  /\ crashes \in Nat
  /\ leftover \subseteq Ref

\* referenced_blob_refs; is_blob_ref_referenced asks for one of them.
NamedBy(b) == {rawRef[b], thumbRef[b]} \ {NoRef}
Referenced == UNION {NamedBy(b) : b \in live}

Init ==
  /\ files = {}
  /\ live = {} /\ issued = {}
  /\ rawRef = [b \in Blip |-> NoRef]
  /\ thumbRef = [b \in Blip |-> NoRef]
  /\ lock = NoProc
  /\ pc = [p \in Proc |-> "idle"]
  /\ blip = [p \in Proc |-> NoBlip]
  /\ bytes = [p \in Proc |-> NoRef]
  /\ todo = [p \in Proc |-> {}]
  /\ crashes = 0
  /\ leftover = {}

\* Mutant: the lock is taken by whoever asks for it.
EnterAnyway(p) == lock' = p

\* with_lock: one step to enter, one to leave.
At(p, from, to) == pc[p] = from /\ pc' = [pc EXCEPT ![p] = to]
Enter(p) == lock = NoProc /\ lock' = p
Leave(p) == lock' = NoProc
Forget(p) ==
  /\ blip' = [blip EXCEPT ![p] = NoBlip]
  /\ bytes' = [bytes EXCEPT ![p] = NoRef]
  /\ todo' = [todo EXCEPT ![p] = {}]

\* The files that p is about to name in a row or to consider for removal.
InHand(p) ==
  ( (IF pc[p] \in {"attaching", "writing", "committing"} THEN {Preview[bytes[p]]} ELSE {}) \cup
    (IF pc[p] = "committing" THEN {bytes[p]} ELSE {}) \cup
    (IF pc[p] \in {"checking", "unlinking"} THEN todo[p] ELSE {}) ) \ {NoRef}

-----------------------------------------------------------------------------
(* Capture *)

\* insert_blip, in its own transaction; without a thumbnail (previews are
\* off, or the bytes do not decode) the payload comes next.
InsertBlip(p, b, r) ==
  /\ b \notin issued
  /\ At(p, "idle", IF Preview[r] = NoRef THEN "attaching" ELSE "previewing")
  /\ live' = live \cup {b}
  /\ issued' = issued \cup {b}
  /\ blip' = [blip EXCEPT ![p] = b]
  /\ bytes' = [bytes EXCEPT ![p] = r]
  /\ UNCHANGED <<files, rawRef, thumbRef, lock, todo, history>>

\* create_image_preview_blob: a section under the lock of its own.
WritePreview(p) ==
  /\ At(p, "previewing", "attaching")
  /\ lock = NoProc
  /\ files' = files \cup {Preview[bytes[p]]}
  /\ UNCHANGED <<rows, lock, locals, history>>

\* insert_blob_payload: write_unlocked reuses a file that is there.
BeginPayload(p) ==
  /\ At(p, "attaching", "writing")
  /\ Enter(p)
  /\ UNCHANGED <<files, rows, locals, history>>

\* Mutant: the payload row is committed before its bytes are written.
WriteRawLater(p) ==
  /\ At(p, "writing", "committing")
  /\ UNCHANGED <<files, rows, lock, locals, history>>

WriteRaw(p) ==
  /\ At(p, "writing", "committing")
  /\ files' = files \cup {bytes[p]}
  /\ UNCHANGED <<rows, lock, locals, history>>

\* insert_blob_payload_metadata_once; BlipNotFound ends the operation and
\* leaves the files.
CommitPayload(p) ==
  /\ At(p, "committing", "idle")
  /\ IF blip[p] \in live
     THEN /\ rawRef' = [rawRef EXCEPT ![blip[p]] = bytes[p]]
          /\ thumbRef' = [thumbRef EXCEPT ![blip[p]] = Preview[bytes[p]]]
          /\ leftover' = leftover \ InHand(p)
     ELSE /\ UNCHANGED <<rawRef, thumbRef>>
          /\ leftover' = leftover \cup InHand(p)
  /\ Leave(p)
  /\ Forget(p)
  /\ UNCHANGED <<files, live, issued, crashes>>

-----------------------------------------------------------------------------
(* Removal *)

BeginCleanup(p) ==
  /\ At(p, "idle", "deleting")
  /\ Enter(p)
  /\ UNCHANGED <<files, rows, locals, history>>

\* Mutant: the cleanup is told of blob_ref and not of preview_ref.
DeleteRowsRawOnly(p, D) ==
  /\ At(p, "deleting", "checking")
  /\ D \subseteq live
  /\ live' = live \ D
  /\ rawRef' = [b \in Blip |-> IF b \in D THEN NoRef ELSE rawRef[b]]
  /\ thumbRef' = [b \in Blip |-> IF b \in D THEN NoRef ELSE thumbRef[b]]
  /\ todo' = [todo EXCEPT ![p] = {rawRef[b] : b \in D} \ {NoRef}]
  /\ UNCHANGED <<files, issued, lock, blip, bytes, history>>

\* The transaction of delete_expired_blips_and_return_blob_refs, for whatever
\* blips have expired, or of delete_blip_and_return_blob_refs.  ON DELETE
\* CASCADE removes the payload rows.
DeleteRows(p, D) ==
  /\ At(p, "deleting", "checking")
  /\ D \subseteq live
  /\ live' = live \ D
  /\ rawRef' = [b \in Blip |-> IF b \in D THEN NoRef ELSE rawRef[b]]
  /\ thumbRef' = [b \in Blip |-> IF b \in D THEN NoRef ELSE thumbRef[b]]
  /\ todo' = [todo EXCEPT ![p] = UNION {NamedBy(b) : b \in D}]
  /\ UNCHANGED <<files, issued, lock, blip, bytes, history>>

\* is_blob_ref_referenced for one of the references (a HashSet: any order).
\* "bytes" holds the reference that is about to be unlinked.
CheckRef(p, r) ==
  /\ pc[p] = "checking" /\ r \in todo[p]
  /\ IF r \in Referenced
     THEN /\ todo' = [todo EXCEPT ![p] = @ \ {r}]
          /\ UNCHANGED <<pc, bytes>>
     ELSE /\ pc' = [pc EXCEPT ![p] = "unlinking"]
          /\ bytes' = [bytes EXCEPT ![p] = r]
          /\ UNCHANGED todo
  /\ UNCHANGED <<files, rows, lock, blip, history>>

\* delete_unlocked
Unlink(p) ==
  /\ At(p, "unlinking", "checking")
  /\ files' = files \ {bytes[p]}
  /\ todo' = [todo EXCEPT ![p] = @ \ {bytes[p]}]
  /\ bytes' = [bytes EXCEPT ![p] = NoRef]
  /\ leftover' = leftover \ {bytes[p]}
  /\ UNCHANGED <<rows, lock, blip, crashes>>

EndCleanup(p) ==
  /\ todo[p] = {}
  /\ At(p, "checking", "idle")
  /\ Leave(p)
  /\ UNCHANGED <<files, rows, locals, history>>

-----------------------------------------------------------------------------
(* Garbage collection *)

BeginCollection(p) ==
  /\ At(p, "idle", "listing")
  /\ Enter(p)
  /\ UNCHANGED <<files, rows, locals, history>>

\* Mutant: preview_ref is not counted as a reference.
ListFilesRawOnly(p) ==
  /\ At(p, "listing", "sweeping")
  /\ todo' = [todo EXCEPT ![p] = files \ {rawRef[b] : b \in live}]
  /\ UNCHANGED <<files, rows, lock, blip, bytes, history>>

\* referenced_blob_refs, then list_blob_refs: what is left to remove.
ListFiles(p) ==
  /\ At(p, "listing", "sweeping")
  /\ todo' = [todo EXCEPT ![p] = files \ Referenced]
  /\ UNCHANGED <<files, rows, lock, blip, bytes, history>>

SweepFile(p, r) ==
  /\ pc[p] = "sweeping" /\ r \in todo[p]
  /\ files' = files \ {r}
  /\ todo' = [todo EXCEPT ![p] = @ \ {r}]
  /\ leftover' = leftover \ {r}
  /\ UNCHANGED <<rows, lock, pc, blip, bytes, crashes>>

EndCollection(p) ==
  /\ todo[p] = {}
  /\ At(p, "sweeping", "idle")
  /\ Leave(p)
  /\ UNCHANGED <<files, rows, locals, history>>

-----------------------------------------------------------------------------
\* The process dies, or its operation fails: the operating system drops its
\* lock and a restarted process begins with nothing in hand.
Crash(p) ==
  /\ pc[p] # "idle"
  /\ crashes < MaxCrash
  /\ pc' = [pc EXCEPT ![p] = "idle"]
  /\ lock' = IF lock = p THEN NoProc ELSE lock
  /\ Forget(p)
  /\ crashes' = crashes + 1
  /\ leftover' = leftover \cup InHand(p)
  /\ UNCHANGED <<files, rows>>

CapturePayload(p) == WritePreview(p) \/ BeginPayload(p) \/ WriteRaw(p) \/ CommitPayload(p)
Remove(p) ==
  \/ \E D \in SUBSET Blip : DeleteRows(p, D)
  \/ \E r \in Ref : CheckRef(p, r)
  \/ Unlink(p)
  \/ EndCleanup(p)
Collect(p) == ListFiles(p) \/ (\E r \in Ref : SweepFile(p, r)) \/ EndCollection(p)

\* What the programs of the repository do.
Ship(p) ==
  \/ \E b \in Blip, r \in Ref : InsertBlip(p, b, r)
  \/ BeginCleanup(p)
  \/ CapturePayload(p)
  \/ Remove(p)

ShippedNext == \E p \in Proc : Ship(p) \/ Crash(p)
ShippedSpec == Init /\ [][ShippedNext]_vars

\* With a program that calls the garbage collector of the library as well.
Next == \E p \in Proc : Ship(p) \/ BeginCollection(p) \/ Collect(p) \/ Crash(p)
Spec == Init /\ [][Next]_vars
=============================================================================
