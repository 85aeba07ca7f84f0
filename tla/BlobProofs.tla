------------------------------- MODULE BlobProofs -------------------------------
(***************************************************************************)
(* TLAPS proofs about BlobLifecycle, for any number of processes, blips,    *)
(* contents and crashes.                                                    *)
(***************************************************************************)
EXTENDS BlobProperties, TLAPS

\* One process, any of its steps (Crash is apart).
Step(p) ==
  \/ \E b \in Blip, r \in Ref : InsertBlip(p, b, r)
  \/ BeginCleanup(p)
  \/ CapturePayload(p)
  \/ Remove(p)
  \/ BeginCollection(p)
  \/ Collect(p)

LEMMA NextSteps == Next <=> \E p \in Proc : Step(p) \/ Crash(p)
  BY DEF Next, Step, Ship

LEMMA BlobInit == Init => BlobInv
  BY NullAssumption
  DEF Init, BlobInv, TypeOK, LockInv, CaptureInv, RowsInv, CommitInv, UnlinkInv,
      RawFilesPresent, Locked, Unlocked

\* While p is in a section under the lock, or could enter one, nobody else is.
LEMMA OthersOutside ==
  ASSUME TypeOK, LockInv, NEW p \in Proc, lock \in {p, NoProc}
  PROVE  \A q \in Proc \ {p} : pc[q] \notin Locked
  BY NullAssumption DEF LockInv

\* A step of p leaves the other processes where they are.
Alone(p) ==
  \A q \in Proc \ {p} :
    pc'[q] = pc[q] /\ blip'[q] = blip[q] /\ bytes'[q] = bytes[q] /\ todo'[q] = todo[q]

\* The conjuncts that only concern rows survive a step that changes none.
LEMMA RowsUnchanged ==
  ASSUME RowsInv, UNCHANGED rows
  PROVE  RowsInv' /\ Referenced' = Referenced
  BY DEF RowsInv, Referenced, NamedBy, rows

\* No file is lost by a step that removes none, and no row begins to name one.
LEMMA RawFilesKept ==
  ASSUME RawFilesPresent, UNCHANGED rows, files \subseteq files'
  PROVE  RawFilesPresent'
  BY DEF RawFilesPresent, rows

\* A new blip has no payload row yet, so it names no file.
LEMMA InsertStep ==
  ASSUME BlobInv, NEW p \in Proc, NEW b \in Blip, NEW r \in Ref, InsertBlip(p, b, r)
  PROVE  BlobInv'
  <1> USE NullAssumption, PreviewAssumption DEF BlobInv
  <1>1. TypeOK'
    BY DEF TypeOK, InsertBlip, At, Locked, Unlocked, history
  <1>2. Alone(p)
    BY DEF Alone, TypeOK, InsertBlip, At
  <1>3. LockInv'
    BY <1>2 DEF Alone, TypeOK, LockInv, Locked, InsertBlip, At
  <1>4. CaptureInv'
    BY <1>2 DEF Alone, TypeOK, CaptureInv, InsertBlip, At
  <1>5. RowsInv'
    BY DEF TypeOK, RowsInv, InsertBlip, At
  <1>6. \A q \in Proc \ {p} : pc[q] \in Locked => lock \notin {p, NoProc}
    BY OthersOutside
  <1>7. CommitInv'
    BY <1>2, <1>6 DEF Alone, TypeOK, CommitInv, LockInv, Locked, InsertBlip, At
  <1>8. UnlinkInv'
    BY <1>2, <1>6 DEF Alone, TypeOK, UnlinkInv, Referenced, NamedBy, RowsInv, LockInv, Locked, InsertBlip, At
  <1>9. RawFilesPresent'
    BY DEF TypeOK, RawFilesPresent, RowsInv, InsertBlip, At
  <1> QED BY <1>1, <1>3, <1>4, <1>5, <1>7, <1>8, <1>9

\* Writing a preview adds a file.
LEMMA PreviewStep ==
  ASSUME BlobInv, NEW p \in Proc, WritePreview(p)
  PROVE  BlobInv'
  <1> USE NullAssumption, PreviewAssumption DEF BlobInv
  <1>1. TypeOK'
    BY DEF TypeOK, WritePreview, At, rows, locals, CaptureInv, Locked, Unlocked, history
  <1>2. Alone(p)
    BY DEF Alone, TypeOK, WritePreview, At, locals
  <1>3. LockInv'
    BY <1>2 DEF Alone, TypeOK, LockInv, Locked, WritePreview, At, locals
  <1>4. CaptureInv'
    BY <1>2 DEF Alone, TypeOK, CaptureInv, WritePreview, At, locals
  <1>5. RowsInv' /\ Referenced' = Referenced
    BY RowsUnchanged DEF WritePreview, At, rows, locals
  <1>6. \A q \in Proc \ {p} : pc[q] \in Locked => lock \notin {p, NoProc}
    BY OthersOutside
  <1>7. CommitInv'
    BY <1>2, <1>6 DEF Alone, TypeOK, CommitInv, LockInv, Locked, WritePreview, At, locals
  <1>8. UnlinkInv'
    BY <1>2, <1>5, <1>6 DEF Alone, TypeOK, UnlinkInv, LockInv, Locked, WritePreview, At, locals
  <1>9. RawFilesPresent'
    BY RawFilesKept DEF WritePreview, At, rows, locals
  <1> QED BY <1>1, <1>3, <1>4, <1>5, <1>7, <1>8, <1>9

\* Entering the section of the raw file.
LEMMA BeginPayloadStep ==
  ASSUME BlobInv, NEW p \in Proc, BeginPayload(p)
  PROVE  BlobInv'
  <1> USE NullAssumption, PreviewAssumption DEF BlobInv
  <1>1. TypeOK'
    BY DEF TypeOK, BeginPayload, At, Enter, rows, locals, Locked, Unlocked, history
  <1>2. Alone(p)
    BY DEF Alone, TypeOK, BeginPayload, At, Enter, locals
  <1>3. LockInv'
    BY <1>2 DEF Alone, TypeOK, LockInv, Locked, BeginPayload, At, Enter, locals
  <1>4. CaptureInv'
    BY <1>2 DEF Alone, TypeOK, CaptureInv, BeginPayload, At, Enter, locals
  <1>5. RowsInv' /\ Referenced' = Referenced
    BY RowsUnchanged DEF BeginPayload, At, Enter, rows, locals
  <1>6. \A q \in Proc \ {p} : pc[q] \in Locked => lock \notin {p, NoProc}
    BY OthersOutside
  <1>7. CommitInv'
    BY <1>2, <1>6 DEF Alone, TypeOK, CommitInv, LockInv, Locked, BeginPayload, At, Enter, locals
  <1>8. UnlinkInv'
    BY <1>2, <1>5, <1>6 DEF Alone, TypeOK, UnlinkInv, LockInv, Locked, BeginPayload, At, Enter, locals
  <1>9. RawFilesPresent'
    BY RawFilesKept DEF BeginPayload, At, Enter, rows, locals
  <1> QED BY <1>1, <1>3, <1>4, <1>5, <1>7, <1>8, <1>9

\* From here to the commit the raw file is there: only the holder of the lock
\* removes files.
LEMMA WriteRawStep ==
  ASSUME BlobInv, NEW p \in Proc, WriteRaw(p)
  PROVE  BlobInv'
  <1> USE NullAssumption, PreviewAssumption DEF BlobInv
  <1>1. TypeOK'
    BY DEF TypeOK, WriteRaw, At, rows, locals, CaptureInv, Locked, Unlocked, history
  <1>2. Alone(p)
    BY DEF Alone, TypeOK, WriteRaw, At, locals
  <1>3. LockInv'
    BY <1>2 DEF Alone, TypeOK, LockInv, Locked, WriteRaw, At, locals
  <1>4. CaptureInv'
    BY <1>2 DEF Alone, TypeOK, CaptureInv, WriteRaw, At, locals
  <1>5. RowsInv' /\ Referenced' = Referenced
    BY RowsUnchanged DEF WriteRaw, At, rows, locals
  <1>6. \A q \in Proc \ {p} : pc[q] \in Locked => lock \notin {p, NoProc}
    BY OthersOutside
  <1>7. CommitInv'
    BY <1>2, <1>6 DEF Alone, TypeOK, CommitInv, LockInv, Locked, WriteRaw, At, locals
  <1>8. UnlinkInv'
    BY <1>2, <1>5, <1>6 DEF Alone, TypeOK, UnlinkInv, LockInv, Locked, WriteRaw, At, locals
  <1>9. RawFilesPresent'
    BY RawFilesKept DEF WriteRaw, At, rows, locals
  <1> QED BY <1>1, <1>3, <1>4, <1>5, <1>7, <1>8, <1>9

\* The row names a raw file that was written in the same section; nobody else is
\* about to unlink anything.
LEMMA CommitStep ==
  ASSUME BlobInv, NEW p \in Proc, CommitPayload(p)
  PROVE  BlobInv'
  <1> USE NullAssumption, PreviewAssumption DEF BlobInv
  <1>1. TypeOK'
    BY DEF TypeOK, CommitPayload, InHand, At, Leave, Forget, CaptureInv, Locked, Unlocked, history
  <1>2. Alone(p)
    BY DEF Alone, TypeOK, CommitPayload, At, Leave, Forget
  <1>3. LockInv'
    BY <1>2 DEF Alone, TypeOK, LockInv, Locked, CommitPayload, At, Leave, Forget
  <1>4. CaptureInv'
    BY <1>2 DEF Alone, TypeOK, CaptureInv, CommitPayload, At, Leave, Forget
  <1>5. RowsInv'
    BY DEF TypeOK, RowsInv, CommitPayload, At, Leave, Forget
  <1>6. \A q \in Proc \ {p} : pc[q] \in Locked => lock \notin {p, NoProc}
    BY OthersOutside
  <1>7. CommitInv'
    BY <1>2, <1>6 DEF Alone, TypeOK, CommitInv, LockInv, Locked, CommitPayload, At, Leave, Forget
  <1>8. UnlinkInv'
    BY <1>2, <1>6 DEF Alone, TypeOK, UnlinkInv, Referenced, NamedBy, LockInv, Locked, CommitPayload, At, Leave, Forget
  <1>9. RawFilesPresent'
    BY DEF TypeOK, RawFilesPresent, CommitInv, CommitPayload, At, Leave, Forget
  <1> QED BY <1>1, <1>3, <1>4, <1>5, <1>7, <1>8, <1>9

\* Entering a cleanup.
LEMMA BeginCleanupStep ==
  ASSUME BlobInv, NEW p \in Proc, BeginCleanup(p)
  PROVE  BlobInv'
  <1> USE NullAssumption, PreviewAssumption DEF BlobInv
  <1>1. TypeOK'
    BY DEF TypeOK, BeginCleanup, At, Enter, rows, locals, Locked, Unlocked, history
  <1>2. Alone(p)
    BY DEF Alone, TypeOK, BeginCleanup, At, Enter, locals
  <1>3. LockInv'
    BY <1>2 DEF Alone, TypeOK, LockInv, Locked, BeginCleanup, At, Enter, locals
  <1>4. CaptureInv'
    BY <1>2 DEF Alone, TypeOK, CaptureInv, BeginCleanup, At, Enter, locals
  <1>5. RowsInv' /\ Referenced' = Referenced
    BY RowsUnchanged DEF BeginCleanup, At, Enter, rows, locals
  <1>6. \A q \in Proc \ {p} : pc[q] \in Locked => lock \notin {p, NoProc}
    BY OthersOutside
  <1>7. CommitInv'
    BY <1>2, <1>6 DEF Alone, TypeOK, CommitInv, LockInv, Locked, BeginCleanup, At, Enter, locals
  <1>8. UnlinkInv'
    BY <1>2, <1>5, <1>6 DEF Alone, TypeOK, UnlinkInv, LockInv, Locked, BeginCleanup, At, Enter, locals
  <1>9. RawFilesPresent'
    BY RawFilesKept DEF BeginCleanup, At, Enter, rows, locals
  <1> QED BY <1>1, <1>3, <1>4, <1>5, <1>7, <1>8, <1>9

\* Deleting rows makes fewer references.
LEMMA DeleteRowsStep ==
  ASSUME BlobInv, NEW p \in Proc, NEW D \in SUBSET Blip, DeleteRows(p, D)
  PROVE  BlobInv'
  <1> USE NullAssumption, PreviewAssumption DEF BlobInv
  <1>1. TypeOK'
    BY DEF TypeOK, DeleteRows, At, NamedBy, Locked, Unlocked, history
  <1>2. Alone(p)
    BY DEF Alone, TypeOK, DeleteRows, At
  <1>3. LockInv'
    BY <1>2 DEF Alone, TypeOK, LockInv, Locked, DeleteRows, At
  <1>4. CaptureInv'
    BY <1>2 DEF Alone, TypeOK, CaptureInv, DeleteRows, At
  <1>5. RowsInv'
    BY DEF TypeOK, RowsInv, DeleteRows, At
  <1>6. \A q \in Proc \ {p} : pc[q] \in Locked => lock \notin {p, NoProc}
    BY OthersOutside
  <1>7. CommitInv'
    BY <1>2, <1>6 DEF Alone, TypeOK, CommitInv, LockInv, Locked, DeleteRows, At
  <1>8. UnlinkInv'
    BY <1>2, <1>6 DEF Alone, TypeOK, UnlinkInv, Referenced, NamedBy, LockInv, Locked, DeleteRows, At
  <1>9. RawFilesPresent'
    BY DEF TypeOK, RawFilesPresent, DeleteRows, At
  <1> QED BY <1>1, <1>3, <1>4, <1>5, <1>7, <1>8, <1>9

\* What passes the check is unreferenced.
LEMMA CheckStep ==
  ASSUME BlobInv, NEW p \in Proc, NEW r \in Ref, CheckRef(p, r)
  PROVE  BlobInv'
  <1> USE NullAssumption, PreviewAssumption DEF BlobInv
  <1>1. TypeOK'
    BY DEF TypeOK, CheckRef, rows, Locked, Unlocked, history
  <1>2. Alone(p)
    BY DEF Alone, TypeOK, CheckRef
  <1>3. LockInv'
    BY <1>2 DEF Alone, TypeOK, LockInv, Locked, CheckRef
  <1>4. CaptureInv'
    BY <1>2 DEF Alone, TypeOK, CaptureInv, CheckRef
  <1>5. RowsInv' /\ Referenced' = Referenced
    BY RowsUnchanged DEF CheckRef, rows
  <1>6. \A q \in Proc \ {p} : pc[q] \in Locked => lock \notin {p, NoProc}
    BY OthersOutside
  <1>7. CommitInv'
    BY <1>2, <1>6 DEF Alone, TypeOK, CommitInv, LockInv, Locked, CheckRef
  <1>8. UnlinkInv'
    BY <1>2, <1>5, <1>6 DEF Alone, TypeOK, UnlinkInv, LockInv, Locked, CheckRef
  <1>9. RawFilesPresent'
    BY RawFilesKept DEF CheckRef, rows
  <1> QED BY <1>1, <1>3, <1>4, <1>5, <1>7, <1>8, <1>9

\* The file removed is not one a row names.
LEMMA UnlinkStep ==
  ASSUME BlobInv, NEW p \in Proc, Unlink(p)
  PROVE  BlobInv'
  <1> USE NullAssumption, PreviewAssumption DEF BlobInv
  <1>1. TypeOK'
    BY DEF TypeOK, Unlink, At, rows, Locked, Unlocked, history
  <1>2. Alone(p)
    BY DEF Alone, TypeOK, Unlink, At
  <1>3. LockInv'
    BY <1>2 DEF Alone, TypeOK, LockInv, Locked, Unlink, At
  <1>4. CaptureInv'
    BY <1>2 DEF Alone, TypeOK, CaptureInv, Unlink, At
  <1>5. RowsInv' /\ Referenced' = Referenced
    BY RowsUnchanged DEF Unlink, At, rows
  <1>6. \A q \in Proc \ {p} : pc[q] \in Locked => lock \notin {p, NoProc}
    BY OthersOutside
  <1>7. CommitInv'
    BY <1>2, <1>6 DEF Alone, TypeOK, CommitInv, LockInv, Locked, Unlink, At
  <1>8. UnlinkInv'
    BY <1>2, <1>5, <1>6 DEF Alone, TypeOK, UnlinkInv, LockInv, Locked, Unlink, At
  <1>9. RawFilesPresent'
    BY DEF TypeOK, RawFilesPresent, UnlinkInv, Referenced, NamedBy, Unlink, At, rows
  <1> QED BY <1>1, <1>3, <1>4, <1>5, <1>7, <1>8, <1>9

\* Leaving a cleanup.
LEMMA EndCleanupStep ==
  ASSUME BlobInv, NEW p \in Proc, EndCleanup(p)
  PROVE  BlobInv'
  <1> USE NullAssumption, PreviewAssumption DEF BlobInv
  <1>1. TypeOK'
    BY DEF TypeOK, EndCleanup, At, Leave, rows, locals, Locked, Unlocked, history
  <1>2. Alone(p)
    BY DEF Alone, TypeOK, EndCleanup, At, Leave, locals
  <1>3. LockInv'
    BY <1>2 DEF Alone, TypeOK, LockInv, Locked, EndCleanup, At, Leave, locals
  <1>4. CaptureInv'
    BY <1>2 DEF Alone, TypeOK, CaptureInv, EndCleanup, At, Leave, locals
  <1>5. RowsInv' /\ Referenced' = Referenced
    BY RowsUnchanged DEF EndCleanup, At, Leave, rows, locals
  <1>6. \A q \in Proc \ {p} : pc[q] \in Locked => lock \notin {p, NoProc}
    BY OthersOutside
  <1>7. CommitInv'
    BY <1>2, <1>6 DEF Alone, TypeOK, CommitInv, LockInv, Locked, EndCleanup, At, Leave, locals
  <1>8. UnlinkInv'
    BY <1>2, <1>5, <1>6 DEF Alone, TypeOK, UnlinkInv, LockInv, Locked, EndCleanup, At, Leave, locals
  <1>9. RawFilesPresent'
    BY RawFilesKept DEF EndCleanup, At, Leave, rows, locals
  <1> QED BY <1>1, <1>3, <1>4, <1>5, <1>7, <1>8, <1>9

\* Entering a collection.
LEMMA BeginCollectionStep ==
  ASSUME BlobInv, NEW p \in Proc, BeginCollection(p)
  PROVE  BlobInv'
  <1> USE NullAssumption, PreviewAssumption DEF BlobInv
  <1>1. TypeOK'
    BY DEF TypeOK, BeginCollection, At, Enter, rows, locals, Locked, Unlocked, history
  <1>2. Alone(p)
    BY DEF Alone, TypeOK, BeginCollection, At, Enter, locals
  <1>3. LockInv'
    BY <1>2 DEF Alone, TypeOK, LockInv, Locked, BeginCollection, At, Enter, locals
  <1>4. CaptureInv'
    BY <1>2 DEF Alone, TypeOK, CaptureInv, BeginCollection, At, Enter, locals
  <1>5. RowsInv' /\ Referenced' = Referenced
    BY RowsUnchanged DEF BeginCollection, At, Enter, rows, locals
  <1>6. \A q \in Proc \ {p} : pc[q] \in Locked => lock \notin {p, NoProc}
    BY OthersOutside
  <1>7. CommitInv'
    BY <1>2, <1>6 DEF Alone, TypeOK, CommitInv, LockInv, Locked, BeginCollection, At, Enter, locals
  <1>8. UnlinkInv'
    BY <1>2, <1>5, <1>6 DEF Alone, TypeOK, UnlinkInv, LockInv, Locked, BeginCollection, At, Enter, locals
  <1>9. RawFilesPresent'
    BY RawFilesKept DEF BeginCollection, At, Enter, rows, locals
  <1> QED BY <1>1, <1>3, <1>4, <1>5, <1>7, <1>8, <1>9

\* The list holds unreferenced files only.
LEMMA ListStep ==
  ASSUME BlobInv, NEW p \in Proc, ListFiles(p)
  PROVE  BlobInv'
  <1> USE NullAssumption, PreviewAssumption DEF BlobInv
  <1>1. TypeOK'
    BY DEF TypeOK, ListFiles, At, rows, Locked, Unlocked, history
  <1>2. Alone(p)
    BY DEF Alone, TypeOK, ListFiles, At
  <1>3. LockInv'
    BY <1>2 DEF Alone, TypeOK, LockInv, Locked, ListFiles, At
  <1>4. CaptureInv'
    BY <1>2 DEF Alone, TypeOK, CaptureInv, ListFiles, At
  <1>5. RowsInv' /\ Referenced' = Referenced
    BY RowsUnchanged DEF ListFiles, At, rows
  <1>6. \A q \in Proc \ {p} : pc[q] \in Locked => lock \notin {p, NoProc}
    BY OthersOutside
  <1>7. CommitInv'
    BY <1>2, <1>6 DEF Alone, TypeOK, CommitInv, LockInv, Locked, ListFiles, At
  <1>8. UnlinkInv'
    BY <1>2, <1>5, <1>6 DEF Alone, TypeOK, UnlinkInv, LockInv, Locked, ListFiles, At
  <1>9. RawFilesPresent'
    BY RawFilesKept DEF ListFiles, At, rows
  <1> QED BY <1>1, <1>3, <1>4, <1>5, <1>7, <1>8, <1>9

\* The file removed is not one a row names.
LEMMA SweepStep ==
  ASSUME BlobInv, NEW p \in Proc, NEW r \in Ref, SweepFile(p, r)
  PROVE  BlobInv'
  <1> USE NullAssumption, PreviewAssumption DEF BlobInv
  <1>1. TypeOK'
    BY DEF TypeOK, SweepFile, rows, Locked, Unlocked, history
  <1>2. Alone(p)
    BY DEF Alone, TypeOK, SweepFile
  <1>3. LockInv'
    BY <1>2 DEF Alone, TypeOK, LockInv, Locked, SweepFile
  <1>4. CaptureInv'
    BY <1>2 DEF Alone, TypeOK, CaptureInv, SweepFile
  <1>5. RowsInv' /\ Referenced' = Referenced
    BY RowsUnchanged DEF SweepFile, rows
  <1>6. \A q \in Proc \ {p} : pc[q] \in Locked => lock \notin {p, NoProc}
    BY OthersOutside
  <1>7. CommitInv'
    BY <1>2, <1>6 DEF Alone, TypeOK, CommitInv, LockInv, Locked, SweepFile
  <1>8. UnlinkInv'
    BY <1>2, <1>5, <1>6 DEF Alone, TypeOK, UnlinkInv, LockInv, Locked, SweepFile
  <1>9. RawFilesPresent'
    BY DEF TypeOK, RawFilesPresent, UnlinkInv, Referenced, NamedBy, SweepFile, rows
  <1> QED BY <1>1, <1>3, <1>4, <1>5, <1>7, <1>8, <1>9

\* Leaving a collection.
LEMMA EndCollectionStep ==
  ASSUME BlobInv, NEW p \in Proc, EndCollection(p)
  PROVE  BlobInv'
  <1> USE NullAssumption, PreviewAssumption DEF BlobInv
  <1>1. TypeOK'
    BY DEF TypeOK, EndCollection, At, Leave, rows, locals, Locked, Unlocked, history
  <1>2. Alone(p)
    BY DEF Alone, TypeOK, EndCollection, At, Leave, locals
  <1>3. LockInv'
    BY <1>2 DEF Alone, TypeOK, LockInv, Locked, EndCollection, At, Leave, locals
  <1>4. CaptureInv'
    BY <1>2 DEF Alone, TypeOK, CaptureInv, EndCollection, At, Leave, locals
  <1>5. RowsInv' /\ Referenced' = Referenced
    BY RowsUnchanged DEF EndCollection, At, Leave, rows, locals
  <1>6. \A q \in Proc \ {p} : pc[q] \in Locked => lock \notin {p, NoProc}
    BY OthersOutside
  <1>7. CommitInv'
    BY <1>2, <1>6 DEF Alone, TypeOK, CommitInv, LockInv, Locked, EndCollection, At, Leave, locals
  <1>8. UnlinkInv'
    BY <1>2, <1>5, <1>6 DEF Alone, TypeOK, UnlinkInv, LockInv, Locked, EndCollection, At, Leave, locals
  <1>9. RawFilesPresent'
    BY RawFilesKept DEF EndCollection, At, Leave, rows, locals
  <1> QED BY <1>1, <1>3, <1>4, <1>5, <1>7, <1>8, <1>9

\* A crash forgets what the process had in hand; rows and files stay.
LEMMA CrashStep ==
  ASSUME BlobInv, NEW p \in Proc, Crash(p)
  PROVE  BlobInv'
  <1> USE NullAssumption, PreviewAssumption DEF BlobInv
  <1>1. TypeOK'
    BY DEF TypeOK, Crash, InHand, CaptureInv, Forget, rows, Locked, Unlocked, history
  <1>2. Alone(p)
    BY DEF Alone, TypeOK, Crash, Forget
  <1>3. LockInv'
    BY <1>2 DEF Alone, TypeOK, LockInv, Locked, Crash, Forget
  <1>4. CaptureInv'
    BY <1>2 DEF Alone, TypeOK, CaptureInv, Crash, Forget
  <1>5. RowsInv' /\ Referenced' = Referenced
    BY RowsUnchanged DEF Crash, Forget, rows
  <1>6. \A q \in Proc \ {p} : pc[q] \in Locked => lock \notin {p, NoProc}
    BY OthersOutside
  <1>7. CommitInv'
    BY <1>2, <1>6 DEF Alone, TypeOK, CommitInv, LockInv, Locked, Crash, Forget
  <1>8. UnlinkInv'
    BY <1>2, <1>5, <1>6 DEF Alone, TypeOK, UnlinkInv, LockInv, Locked, Crash, Forget
  <1>9. RawFilesPresent'
    BY RawFilesKept DEF Crash, Forget, rows
  <1> QED BY <1>1, <1>3, <1>4, <1>5, <1>7, <1>8, <1>9

LEMMA BlobNext == BlobInv /\ [Next]_vars => BlobInv'
  <1> SUFFICES ASSUME BlobInv, [Next]_vars PROVE BlobInv'
    OBVIOUS
  <1>1. CASE UNCHANGED vars
    BY <1>1 DEF BlobInv, TypeOK, LockInv, CaptureInv, RowsInv, CommitInv, UnlinkInv,
                RawFilesPresent, Referenced, NamedBy, vars, rows, locals, history
  <1>2. ASSUME NEW p \in Proc, Step(p) PROVE BlobInv'
    <2>1. CASE \E b \in Blip, r \in Ref : InsertBlip(p, b, r)
      BY <2>1, InsertStep
    <2>2. CASE BeginCleanup(p) \/ BeginCollection(p)
      BY <2>2, BeginCleanupStep, BeginCollectionStep
    <2>3. CASE CapturePayload(p)
      BY <2>3, PreviewStep, BeginPayloadStep, WriteRawStep, CommitStep DEF CapturePayload
    <2>4. CASE Remove(p)
      BY <2>4, DeleteRowsStep, CheckStep, UnlinkStep, EndCleanupStep DEF Remove
    <2>5. CASE Collect(p)
      BY <2>5, ListStep, SweepStep, EndCollectionStep DEF Collect
    <2> QED BY <1>2, <2>1, <2>2, <2>3, <2>4, <2>5 DEF Step
  <1> QED BY <1>1, <1>2, CrashStep, NextSteps

\* BlobInv holds in every reachable state.
THEOREM BlobInvariant == Spec => []BlobInv
  BY BlobInit, BlobNext, PTL DEF Spec

\* A payload row never names raw bytes that are not there, however many
\* processes share the directory and wherever they crash.
THEOREM RawFilesCorrect == Spec => []RawFilesPresent
  BY BlobInvariant, PTL DEF BlobInv

-----------------------------------------------------------------------------
(* What a step that removes a file may remove *)

LEMMA RemovesUnreferenced ==
  ASSUME BlobInv, [Next]_vars
  PROVE  \A r \in files \ files' : r \notin Referenced
  <1>1. ASSUME NEW p \in Proc, Unlink(p) PROVE \A r \in files \ files' : r \notin Referenced
    BY <1>1 DEF BlobInv, UnlinkInv, Unlink, At
  <1>2. ASSUME NEW p \in Proc, NEW f \in Ref, SweepFile(p, f)
        PROVE  \A r \in files \ files' : r \notin Referenced
    BY <1>2 DEF BlobInv, UnlinkInv, SweepFile
  <1>3. ASSUME files \subseteq files' PROVE \A r \in files \ files' : r \notin Referenced
    BY <1>3
  <1>4. ASSUME NEW p \in Proc, Step(p) \/ Crash(p)
        PROVE  \A r \in files \ files' : r \notin Referenced
    BY <1>1, <1>2, <1>3, <1>4
    DEF Step, Crash, InsertBlip, CapturePayload, WritePreview, BeginPayload, WriteRaw,
        CommitPayload, BeginCleanup, Remove, DeleteRows, CheckRef, EndCleanup,
        BeginCollection, Collect, ListFiles, EndCollection
  <1> QED BY <1>3, <1>4, NextSteps DEF vars

\* Whoever removes a file, in whatever interleaving, no row names it at that
\* moment.
THEOREM UnlinkCorrect == Spec => UnlinkOnlyUnreferenced
  BY BlobInvariant, RemovesUnreferenced, PTL DEF Spec, UnlinkOnlyUnreferenced

-----------------------------------------------------------------------------
(* What becomes of files that no row names *)

Swept == \A p \in Proc : pc[p] = "sweeping" => files \ Referenced \subseteq todo[p]

\* A step of p may only add files it has in hand, and what it had in hand or was
\* left over is named, gone, in hand or left over after it.
AccountedBy(p) ==
  \A r \in files' \ Referenced' :
    \/ r \in leftover' \cup InHand(p)'
    \/ r \in files \ Referenced /\ r \notin leftover \cup InHand(p)

LEMMA AccountsKept ==
  ASSUME FilesInv, NEW p \in Proc, Alone(p), AccountedBy(p), CapturedOnce', Swept'
  PROVE  FilesInv'
  <1>1. \A q \in Proc \ {p} : InHand(q)' = InHand(q)
    BY DEF Alone, InHand
  <1>2. ASSUME NEW r \in files' \ Referenced', r \notin leftover' \cup InHand(p)'
        PROVE  r \in UNION {InHand(q)' : q \in Proc}
    <2>1. r \in files \ Referenced /\ r \notin leftover \cup InHand(p)
      BY <1>2 DEF AccountedBy
    <2>2. PICK q \in Proc : r \in InHand(q)
      BY <2>1 DEF FilesInv, FilesAccounted
    <2>3. q # p
      BY <2>1, <2>2
    <2> QED BY <1>1, <2>2, <2>3
  <1> QED BY <1>2 DEF FilesInv, FilesAccounted, Swept

\* A step outside the lock, or of its holder, meets no other collection.
LEMMA SweptAlone ==
  ASSUME BlobInv, NEW p \in Proc, Alone(p), lock \in {p, NoProc},
         pc'[p] = "sweeping" => files' \ Referenced' \subseteq todo'[p]
  PROVE  Swept'
  <1>1. \A q \in Proc \ {p} : pc'[q] # "sweeping"
    BY OthersOutside DEF BlobInv, Alone, Locked
  <1> QED BY <1>1 DEF Swept

\* A blip that is captured stays with its process, and gets no row from another.
LEMMA CapturedKept ==
  ASSUME BlobInv, FilesInv, NEW p \in Proc, Alone(p), UNCHANGED rows,
         Capturing(p)' => Capturing(p) /\ blip'[p] = blip[p]
  PROVE  CapturedOnce'
  BY DEF FilesInv, CapturedOnce, Capturing, Alone, rows

LEMMA FilesInsert ==
  ASSUME BlobInv, FilesInv, NEW p \in Proc, NEW b \in Blip, NEW r \in Ref, InsertBlip(p, b, r)
  PROVE  FilesInv'
  <1> USE NullAssumption, PreviewAssumption
  <1>1. TypeOK /\ RowsInv
    BY DEF BlobInv
  <1>2. Alone(p)
    BY <1>1 DEF Alone, TypeOK, InsertBlip, At
  <1>3. /\ pc[p] = "idle" /\ pc'[p] \in {"attaching", "previewing"}
        /\ blip'[p] = b /\ bytes'[p] = r /\ b \notin issued
        /\ (pc'[p] = "attaching" => Preview[r] = NoRef)
        /\ UNCHANGED <<files, leftover, rawRef, thumbRef, todo>>
        /\ issued' = issued \cup {b} /\ live' = live \cup {b}
    BY <1>1 DEF TypeOK, InsertBlip, At, history
  <1>4. rawRef[b] = NoRef /\ thumbRef[b] = NoRef
    BY <1>1, <1>3 DEF RowsInv
  <1>5. Referenced' = Referenced
    BY <1>3, <1>4 DEF Referenced, NamedBy
  <1>6. CapturedOnce'
    <2>1. \A q \in Proc : Capturing(q) => blip[q] # b
      BY <1>3 DEF FilesInv, CapturedOnce
    <2> QED BY <1>2, <1>3, <1>4, <2>1 DEF FilesInv, CapturedOnce, Capturing, Alone
  <1>7. InHand(p) = {} /\ InHand(p)' = {}
    BY <1>3 DEF InHand
  <1>8. AccountedBy(p)
    <2>1. \A f \in files \ Referenced : f \in leftover \/ f \notin leftover
      OBVIOUS
    <2> QED BY <1>3, <1>5, <1>7, <2>1 DEF AccountedBy
  <1>9. Swept'
    BY <1>2, <1>3, <1>5 DEF FilesInv, FilesAccounted, Swept, Alone
  <1> QED BY <1>2, <1>6, <1>8, <1>9, AccountsKept

LEMMA FilesPreview ==
  ASSUME BlobInv, FilesInv, NEW p \in Proc, WritePreview(p)
  PROVE  FilesInv'
  <1> USE NullAssumption, PreviewAssumption
  <1>1. TypeOK /\ CaptureInv /\ RowsInv
    BY DEF BlobInv
  <1>2. Alone(p) /\ UNCHANGED rows
    BY <1>1 DEF Alone, TypeOK, WritePreview, At, locals
  <1>3. /\ pc[p] = "previewing" /\ pc'[p] = "attaching" /\ lock = NoProc
        /\ UNCHANGED <<leftover, blip, bytes, todo>>
        /\ files' = files \cup {Preview[bytes[p]]}
    BY <1>1 DEF TypeOK, WritePreview, At, locals, history
  <1>4. Referenced' = Referenced
    BY <1>1, <1>2, RowsUnchanged
  <1>5. InHand(p) = {} /\ InHand(p)' = {Preview[bytes[p]]}
    BY <1>1, <1>3 DEF InHand, CaptureInv
  <1>6. AccountedBy(p)
    BY <1>3, <1>4, <1>5 DEF AccountedBy
  <1>7. CapturedOnce'
    BY <1>2, <1>3, CapturedKept DEF Capturing
  <1>8. Swept'
    BY <1>2, <1>3, SweptAlone
  <1> QED BY <1>2, <1>6, <1>7, <1>8, AccountsKept

\* The steps that change neither rows nor files nor what is left over, with what p
\* has in hand growing at most by files that are nobody else's concern.
LEMMA FilesQuiet ==
  ASSUME BlobInv, FilesInv, NEW p \in Proc, Alone(p), lock \in {p, NoProc},
         UNCHANGED <<files, rows, leftover>>,
         Capturing(p)' => Capturing(p) /\ blip'[p] = blip[p],
         InHand(p) \ Referenced \subseteq InHand(p)',
         pc'[p] = "sweeping" => files \ Referenced \subseteq todo'[p]
  PROVE  FilesInv'
  <1>1. Referenced' = Referenced
    BY RowsUnchanged DEF BlobInv
  <1>2. AccountedBy(p)
    BY <1>1 DEF AccountedBy
  <1>3. CapturedOnce'
    BY CapturedKept
  <1>4. Swept'
    BY <1>1, SweptAlone
  <1> QED BY <1>2, <1>3, <1>4, AccountsKept

LEMMA FilesEnter ==
  ASSUME BlobInv, FilesInv, NEW p \in Proc,
         BeginPayload(p) \/ BeginCleanup(p) \/ BeginCollection(p)
  PROVE  FilesInv'
  <1>1. TypeOK
    BY DEF BlobInv
  <1>2. /\ Alone(p) /\ lock = NoProc
        /\ UNCHANGED <<files, rows, leftover, blip, bytes, todo>>
        /\ \/ pc[p] = "attaching" /\ pc'[p] = "writing"
           \/ pc[p] = "idle" /\ pc'[p] \in {"deleting", "listing"}
    BY <1>1 DEF Alone, TypeOK, BeginPayload, BeginCleanup, BeginCollection, At, Enter, locals,
                history
  <1>3. InHand(p) \subseteq InHand(p)'
    BY <1>2 DEF InHand
  <1> QED BY <1>2, <1>3, FilesQuiet DEF Capturing

LEMMA FilesLeave ==
  ASSUME BlobInv, FilesInv, NEW p \in Proc, EndCleanup(p) \/ EndCollection(p)
  PROVE  FilesInv'
  <1>1. TypeOK /\ lock = p
    BY DEF BlobInv, LockInv, Locked, EndCleanup, EndCollection, At
  <1>2. /\ Alone(p)
        /\ UNCHANGED <<files, rows, leftover>>
        /\ pc[p] \in {"checking", "sweeping"} /\ pc'[p] = "idle" /\ todo[p] = {}
    BY <1>1 DEF Alone, TypeOK, EndCleanup, EndCollection, At, Leave, locals, history
  <1>3. InHand(p) = {}
    BY <1>2 DEF InHand
  <1> QED BY <1>1, <1>2, <1>3, FilesQuiet DEF Capturing

\* A reference that passes over the cleanup's hands is one that a row names.
LEMMA FilesCheck ==
  ASSUME BlobInv, FilesInv, NEW p \in Proc, NEW r \in Ref, CheckRef(p, r)
  PROVE  FilesInv'
  <1>1. TypeOK /\ lock = p
    BY DEF BlobInv, LockInv, Locked, CheckRef
  <1>2. /\ Alone(p)
        /\ UNCHANGED <<files, rows, leftover>>
        /\ pc[p] = "checking" /\ pc'[p] \in {"checking", "unlinking"}
        /\ todo[p] \ Referenced \subseteq todo'[p]
    BY <1>1 DEF Alone, TypeOK, CheckRef, history
  <1>3. InHand(p) \ Referenced \subseteq InHand(p)'
    BY <1>2 DEF InHand
  <1> QED BY <1>1, <1>2, <1>3, FilesQuiet DEF Capturing

LEMMA FilesList ==
  ASSUME BlobInv, FilesInv, NEW p \in Proc, ListFiles(p)
  PROVE  FilesInv'
  <1>1. TypeOK /\ lock = p
    BY DEF BlobInv, LockInv, Locked, ListFiles, At
  <1>2. /\ Alone(p)
        /\ UNCHANGED <<files, rows, leftover>>
        /\ pc[p] = "listing" /\ pc'[p] = "sweeping"
        /\ todo'[p] = files \ Referenced
    BY <1>1 DEF Alone, TypeOK, ListFiles, At, history
  <1>3. InHand(p) = {}
    BY <1>2 DEF InHand
  <1> QED BY <1>1, <1>2, <1>3, FilesQuiet DEF Capturing

LEMMA FilesWrite ==
  ASSUME BlobInv, FilesInv, NEW p \in Proc, WriteRaw(p)
  PROVE  FilesInv'
  <1> USE NullAssumption
  <1>1. TypeOK /\ CaptureInv /\ RowsInv /\ lock = p
    BY DEF BlobInv, LockInv, Locked, WriteRaw, At
  <1>2. /\ Alone(p) /\ UNCHANGED rows
        /\ pc[p] = "writing" /\ pc'[p] = "committing"
        /\ UNCHANGED <<leftover, blip, bytes, todo>>
        /\ files' = files \cup {bytes[p]}
    BY <1>1 DEF Alone, TypeOK, WriteRaw, At, locals, history
  <1>3. Referenced' = Referenced
    BY <1>1, <1>2, RowsUnchanged
  <1>4. bytes[p] \in Ref
    BY <1>1, <1>2 DEF CaptureInv
  <1>5. InHand(p)' = InHand(p) \cup {bytes[p]}
    BY <1>2, <1>4 DEF InHand
  <1>6. AccountedBy(p)
    BY <1>2, <1>3, <1>5 DEF AccountedBy
  <1>7. CapturedOnce'
    BY <1>2, CapturedKept DEF Capturing
  <1>8. Swept'
    BY <1>1, <1>2, SweptAlone
  <1> QED BY <1>2, <1>6, <1>7, <1>8, AccountsKept

\* The row names what its process had in hand and no row is overwritten; without
\* the blip it is left over.
LEMMA FilesCommit ==
  ASSUME BlobInv, FilesInv, NEW p \in Proc, CommitPayload(p)
  PROVE  FilesInv'
  <1> USE NullAssumption, PreviewAssumption
  <1>1. TypeOK /\ CaptureInv /\ RowsInv /\ lock = p
    BY DEF BlobInv, LockInv, Locked, CommitPayload, At
  <1>2. /\ Alone(p)
        /\ pc[p] = "committing" /\ pc'[p] = "idle"
        /\ UNCHANGED <<files, live, issued>>
    BY <1>1 DEF Alone, TypeOK, CommitPayload, At, Forget
  <1>3. /\ blip[p] \in Blip /\ bytes[p] \in Ref
        /\ rawRef[blip[p]] = NoRef /\ thumbRef[blip[p]] = NoRef
    BY <1>1, <1>2 DEF CaptureInv, FilesInv, CapturedOnce, Capturing
  <1>4. InHand(p) = {bytes[p], Preview[bytes[p]]} \ {NoRef}
    BY <1>2 DEF InHand
  <1>5. CapturedOnce'
    <2>1. \A q \in Proc \ {p} : Capturing(q) => blip[q] # blip[p] /\ blip[q] \in Blip
      BY <1>1, <1>2 DEF FilesInv, CapturedOnce, Capturing, CaptureInv
    <2>2. \A b \in Blip \ {blip[p]} : rawRef'[b] = rawRef[b] /\ thumbRef'[b] = thumbRef[b]
      BY <1>1 DEF TypeOK, CommitPayload
    <2> QED BY <1>2, <2>1, <2>2 DEF FilesInv, CapturedOnce, Capturing, Alone
  <1>6. Referenced \subseteq Referenced'
    <2>1. \A b \in live : NamedBy(b) \subseteq NamedBy(b)'
      BY <1>1, <1>3 DEF TypeOK, CommitPayload, NamedBy
    <2> QED BY <1>2, <2>1 DEF Referenced
  <1>7. AccountedBy(p)
    <2>1. CASE blip[p] \in live
      <3>1. \A b \in live : b = blip[p] => NamedBy(b)' = InHand(p)
        BY <1>1, <1>3, <1>4, <2>1 DEF TypeOK, CommitPayload, NamedBy
      <3>2. InHand(p) \subseteq Referenced'
        BY <1>2, <2>1, <3>1 DEF Referenced
      <3>3. leftover' = leftover \ InHand(p)
        BY <2>1 DEF CommitPayload
      <3> QED BY <1>2, <1>6, <3>2, <3>3 DEF AccountedBy
    <2>2. CASE blip[p] \notin live
      <3>1. leftover' = leftover \cup InHand(p)
        BY <2>2 DEF CommitPayload
      <3> QED BY <1>2, <1>6, <3>1 DEF AccountedBy
    <2> QED BY <2>1, <2>2
  <1>8. Swept'
    BY <1>1, <1>2, SweptAlone
  <1> QED BY <1>2, <1>5, <1>7, <1>8, AccountsKept

\* The cleanup takes in hand whatever the deleted rows named.
LEMMA FilesDelete ==
  ASSUME BlobInv, FilesInv, NEW p \in Proc, NEW D \in SUBSET Blip, DeleteRows(p, D)
  PROVE  FilesInv'
  <1>1. TypeOK /\ CaptureInv /\ RowsInv /\ lock = p
    BY DEF BlobInv, LockInv, Locked, DeleteRows, At
  <1>2. /\ Alone(p)
        /\ pc[p] = "deleting" /\ pc'[p] = "checking"
        /\ UNCHANGED <<files, issued, leftover, blip>>
        /\ live' = live \ D /\ D \subseteq live
        /\ todo'[p] = UNION {NamedBy(b) : b \in D}
        /\ \A b \in Blip \ D : rawRef'[b] = rawRef[b] /\ thumbRef'[b] = thumbRef[b]
        /\ \A b \in D : rawRef'[b] = NoRef /\ thumbRef'[b] = NoRef
    BY <1>1 DEF Alone, TypeOK, DeleteRows, At, history
  <1>3. Referenced \subseteq Referenced' \cup todo'[p]
    <2>1. \A b \in live \ D : NamedBy(b)' = NamedBy(b)
      BY <1>1, <1>2 DEF TypeOK, NamedBy
    <2> QED BY <1>2, <2>1 DEF Referenced
  <1>4. \A r \in todo'[p] : r # NoRef
    BY <1>2 DEF NamedBy
  <1>5. InHand(p) = {} /\ InHand(p)' = todo'[p]
    BY <1>2, <1>4 DEF InHand
  <1>6. AccountedBy(p)
    BY <1>2, <1>3, <1>5 DEF AccountedBy
  <1>7. CapturedOnce'
    <2>1. \A q \in Proc : Capturing(q)' => q # p /\ Capturing(q) /\ blip[q] \in Blip
      BY <1>1, <1>2 DEF Capturing, Alone, CaptureInv
    <2> QED BY <1>2, <2>1 DEF FilesInv, CapturedOnce, Alone
  <1>8. Swept'
    BY <1>1, <1>2, SweptAlone
  <1> QED BY <1>2, <1>6, <1>7, <1>8, AccountsKept

\* The file that is removed is neither in hand nor left over after it.
LEMMA FilesUnlink ==
  ASSUME BlobInv, FilesInv, NEW p \in Proc, Unlink(p)
  PROVE  FilesInv'
  <1>1. TypeOK /\ RowsInv /\ lock = p
    BY DEF BlobInv, LockInv, Locked, Unlink, At
  <1>2. /\ Alone(p) /\ UNCHANGED rows
        /\ pc[p] = "unlinking" /\ pc'[p] = "checking"
        /\ files' = files \ {bytes[p]} /\ leftover' = leftover \ {bytes[p]}
        /\ todo'[p] = todo[p] \ {bytes[p]}
    BY <1>1 DEF Alone, TypeOK, Unlink, At
  <1>3. Referenced' = Referenced
    BY <1>1, <1>2, RowsUnchanged
  <1>4. InHand(p)' = InHand(p) \ {bytes[p]}
    BY <1>2 DEF InHand
  <1>5. AccountedBy(p)
    BY <1>2, <1>3, <1>4 DEF AccountedBy
  <1>6. CapturedOnce'
    BY <1>2, CapturedKept DEF Capturing
  <1>7. Swept'
    BY <1>1, <1>2, SweptAlone
  <1> QED BY <1>2, <1>5, <1>6, <1>7, AccountsKept

LEMMA FilesSweep ==
  ASSUME BlobInv, FilesInv, NEW p \in Proc, NEW f \in Ref, SweepFile(p, f)
  PROVE  FilesInv'
  <1>1. TypeOK /\ RowsInv /\ lock = p
    BY DEF BlobInv, LockInv, Locked, SweepFile
  <1>2. /\ Alone(p) /\ UNCHANGED rows
        /\ pc[p] = "sweeping" /\ pc'[p] = "sweeping"
        /\ files' = files \ {f} /\ leftover' = leftover \ {f}
        /\ todo'[p] = todo[p] \ {f}
    BY <1>1 DEF Alone, TypeOK, SweepFile
  <1>3. Referenced' = Referenced
    BY <1>1, <1>2, RowsUnchanged
  <1>4. InHand(p) = {} /\ InHand(p)' = {}
    BY <1>2 DEF InHand
  <1>5. AccountedBy(p)
    BY <1>2, <1>3, <1>4 DEF AccountedBy
  <1>6. CapturedOnce'
    BY <1>2, CapturedKept DEF Capturing
  <1>7. Swept'
    BY <1>1, <1>2, <1>3, SweptAlone DEF FilesInv, FilesAccounted
  <1> QED BY <1>2, <1>5, <1>6, <1>7, AccountsKept

LEMMA FilesCrash ==
  ASSUME BlobInv, FilesInv, NEW p \in Proc, Crash(p)
  PROVE  FilesInv'
  <1>1. TypeOK /\ RowsInv
    BY DEF BlobInv
  <1>2. /\ Alone(p) /\ UNCHANGED rows
        /\ pc'[p] = "idle" /\ UNCHANGED files
        /\ leftover' = leftover \cup InHand(p)
    BY <1>1 DEF Alone, TypeOK, Crash, Forget
  <1>3. Referenced' = Referenced
    BY <1>1, <1>2, RowsUnchanged
  <1>4. AccountedBy(p)
    BY <1>2, <1>3 DEF AccountedBy
  <1>5. CapturedOnce'
    BY <1>2, CapturedKept DEF Capturing
  <1>6. Swept'
    BY <1>2, <1>3 DEF FilesInv, FilesAccounted, Swept, Alone
  <1> QED BY <1>2, <1>4, <1>5, <1>6, AccountsKept

LEMMA FilesNext == BlobInv /\ FilesInv /\ [Next]_vars => FilesInv'
  <1> SUFFICES ASSUME BlobInv, FilesInv, [Next]_vars PROVE FilesInv'
    OBVIOUS
  <1>1. CASE UNCHANGED vars
    BY <1>1 DEF FilesInv, FilesAccounted, CapturedOnce, Capturing, InHand, Referenced, NamedBy,
                vars, rows, locals, history
  <1>2. ASSUME NEW p \in Proc, Step(p) PROVE FilesInv'
    <2>1. CASE \E b \in Blip, r \in Ref : InsertBlip(p, b, r)
      BY <2>1, FilesInsert
    <2>2. CASE BeginCleanup(p) \/ BeginCollection(p)
      BY <2>2, FilesEnter
    <2>3. CASE CapturePayload(p)
      BY <2>3, FilesPreview, FilesEnter, FilesWrite, FilesCommit DEF CapturePayload
    <2>4. CASE Remove(p)
      BY <2>4, FilesDelete, FilesCheck, FilesUnlink, FilesLeave DEF Remove
    <2>5. CASE Collect(p)
      BY <2>5, FilesList, FilesSweep, FilesLeave DEF Collect
    <2> QED BY <1>2, <2>1, <2>2, <2>3, <2>4, <2>5 DEF Step
  <1> QED BY <1>1, <1>2, FilesCrash, NextSteps

\* No file is forgotten: only an operation that died or failed leaves one that no
\* row names, and a collection that ends leaves none.
THEOREM FilesCorrect == Spec => []FilesAccounted
  <1>1. Init => FilesInv
    BY DEF Init, FilesInv, FilesAccounted, CapturedOnce, Capturing
  <1>2. BlobInv /\ FilesInv /\ [Next]_vars => FilesInv'
    BY FilesNext
  <1>3. FilesInv => FilesAccounted
    BY DEF FilesInv
  <1> QED BY <1>1, <1>2, <1>3, BlobInvariant, PTL DEF Spec

-----------------------------------------------------------------------------
(* Thumbnails, with one process *)

\* The thumbnail of the capture in hand is there from the moment its section is
\* over.  With two processes this fails: the other one may remove it between
\* the two sections.
PreviewInv ==
  /\ PreviewFilesPresent
  /\ \A p \in Proc :
       pc[p] \in {"attaching", "writing", "committing"} =>
         Preview[bytes[p]] \in files \cup {NoRef}

LEMMA PreviewNext ==
  ASSUME NEW d, Proc = {d}, BlobInv, BlobInv', PreviewInv, [Next]_vars
  PROVE  PreviewInv'
  <1> USE NullAssumption, PreviewAssumption
  <1>1. ASSUME UNCHANGED rows, files \subseteq files' PROVE PreviewFilesPresent'
    BY <1>1 DEF PreviewInv, PreviewFilesPresent, rows
  <1>2. TypeOK /\ d \in Proc
    BY DEF BlobInv
  <1>3. CASE \E b \in Blip, r \in Ref : InsertBlip(d, b, r)
    <2>1. PreviewFilesPresent'
      BY <1>3 DEF BlobInv, RowsInv, PreviewInv, PreviewFilesPresent, InsertBlip
    <2> QED BY <1>2, <1>3, <2>1 DEF PreviewInv, InsertBlip, At, TypeOK
  <1>4. CASE CapturePayload(d)
    <2>1. CASE CommitPayload(d)
      <3>1. PreviewFilesPresent'
        BY <1>2, <2>1 DEF PreviewInv, PreviewFilesPresent, CommitPayload, At, TypeOK
      <3> QED BY <1>2, <2>1, <3>1 DEF PreviewInv, CommitPayload, At, TypeOK
    <2>2. CASE WritePreview(d) \/ BeginPayload(d) \/ WriteRaw(d)
      BY <1>1, <1>2, <2>2
      DEF PreviewInv, WritePreview, BeginPayload, WriteRaw, At, rows, locals, TypeOK
    <2> QED BY <1>4, <2>1, <2>2 DEF CapturePayload
  <1>5. CASE Remove(d) \/ Collect(d)
    <2>1. pc'[d] \notin {"attaching", "writing", "committing"}
      BY <1>2, <1>5 DEF Remove, DeleteRows, CheckRef, Unlink, EndCleanup, Collect, ListFiles,
                        SweepFile, EndCollection, At, TypeOK
    <2>2. \A r \in files \ files' : r \notin Referenced
      BY RemovesUnreferenced
    <2>3. \A b \in live' : b \in live /\ thumbRef'[b] = thumbRef[b]
      BY <1>2, <1>5 DEF Remove, DeleteRows, CheckRef, Unlink, EndCleanup, Collect, ListFiles,
                        SweepFile, EndCollection, rows, TypeOK
    <2>4. PreviewFilesPresent'
      BY <1>2, <2>2, <2>3 DEF PreviewInv, PreviewFilesPresent, Referenced, NamedBy
    <2> QED BY <2>1, <2>4 DEF PreviewInv
  <1>6. CASE BeginCleanup(d) \/ BeginCollection(d) \/ Crash(d)
    BY <1>1, <1>2, <1>6 DEF PreviewInv, BeginCleanup, BeginCollection, Crash, At, rows, TypeOK
  <1>7. CASE UNCHANGED vars
    BY <1>1, <1>7 DEF PreviewInv, vars, rows, locals, history
  <1> QED BY <1>3, <1>4, <1>5, <1>6, <1>7, NextSteps DEF Step

\* A lone daemon never commits a row whose thumbnail is gone, because its own
\* captures, cleanups and collections follow one another.
THEOREM LoneDaemonKeepsPreviews ==
  ASSUME NEW d, Proc = {d}
  PROVE  Spec => []PreviewFilesPresent
  <1>1. Init => PreviewInv
    BY DEF Init, PreviewInv, PreviewFilesPresent
  <1>2. BlobInv /\ BlobInv' /\ PreviewInv /\ [Next]_vars => PreviewInv'
    BY PreviewNext
  <1>3. PreviewInv => PreviewFilesPresent
    BY DEF PreviewInv
  <1> QED BY <1>1, <1>2, <1>3, BlobInvariant, PTL DEF Spec
=============================================================================
