----------------------------- MODULE BlobProperties -----------------------------
(***************************************************************************)
(* What rows and files promise each other: the properties TLC checks in     *)
(* MCBlob and TLAPS proves in BlobProofs.                                   *)
(***************************************************************************)
EXTENDS BlobLifecycle

\* A payload row never names raw bytes that are not on disk, whatever captures,
\* cleanups, collections and crashes of any number of processes interleave: the
\* raw file is written and its row committed in one section under the lock.
RawFilesPresent == \A b \in live : rawRef[b] # NoRef => rawRef[b] \in files

\* A payload row never names a thumbnail that is not on disk.  The thumbnail is
\* written in an earlier section under the lock than the one that commits the
\* row ("then commit the SQLite row that references it",
\* docs/adr/0001-typed-clipboard-payloads.md).
PreviewFilesPresent == \A b \in live : thumbRef[b] # NoRef => thumbRef[b] \in files

\* A step that removes a file removes one that no row names at that moment, by
\* blob_ref or by preview_ref, of a blip the remover knows or of another one
\* with the same bytes ("physical blob deletion happens only after no remaining
\* payload references the same hash", docs/adr/0001-typed-clipboard-payloads.md).
UnlinkOnlyUnreferenced == [][\A r \in files \ files' : r \notin Referenced]_vars

\* A file that no row names is accounted for: an operation under way will name it
\* or consider it for removal, or one that died or failed had it in hand.  So no
\* file is forgotten by captures and cleanups that run to their end, whatever they
\* share and whoever else is at work; and a collection that runs to its end has
\* removed every leftover, also those of other processes.
FilesAccounted ==
  /\ files \ Referenced \subseteq leftover \cup UNION {InHand(p) : p \in Proc}
  /\ \A p \in Proc : pc[p] = "sweeping" => files \ Referenced \subseteq todo[p]

-----------------------------------------------------------------------------
(* The inductive invariant behind RawFilesPresent and UnlinkOnlyUnreferenced *)

\* The process in a section of with_lock is the one that holds the lock.
LockInv == \A p \in Proc : pc[p] \in Locked <=> lock = p

\* The raw file a process is about to name is there.
CommitInv == \A p \in Proc : pc[p] = "committing" => bytes[p] \in files

\* What a process is about to unlink is unreferenced already, and cannot become
\* referenced while the process holds the lock.
UnlinkInv ==
  \A p \in Proc :
    /\ pc[p] = "unlinking" => bytes[p] \notin Referenced
    /\ pc[p] = "sweeping" => todo[p] \cap Referenced = {}

\* A process that captures knows the blip and its bytes.
CaptureInv ==
  \A p \in Proc :
    /\ pc[p] \in {"previewing", "attaching", "writing", "committing"} =>
         blip[p] \in Blip /\ bytes[p] \in Ref
    /\ pc[p] = "previewing" => Preview[bytes[p]] # NoRef
    /\ pc[p] = "unlinking" => bytes[p] \in Ref

\* Payload rows belong to blips that have a row (ON DELETE CASCADE).
RowsInv ==
  /\ live \subseteq issued
  /\ \A b \in Blip : rawRef[b] # NoRef \/ thumbRef[b] # NoRef => b \in live

\* Behind FilesAccounted: each blip is captured by one process, which finds no
\* payload row for it.
Capturing(p) == pc[p] \in {"previewing", "attaching", "writing", "committing"}
CapturedOnce ==
  \A p \in Proc : Capturing(p) =>
    /\ blip[p] \in issued
    /\ rawRef[blip[p]] = NoRef /\ thumbRef[blip[p]] = NoRef
    /\ \A q \in Proc : Capturing(q) /\ blip[q] = blip[p] => q = p
FilesInv == FilesAccounted /\ CapturedOnce

BlobInv ==
  TypeOK /\ LockInv /\ CaptureInv /\ RowsInv /\ CommitInv /\ UnlinkInv /\ RawFilesPresent
=============================================================================
