---------------------------- MODULE StorageProofs ----------------------------
(***************************************************************************)
(* What is kept beside the tables: the object storage of attachments and   *)
(* artifacts, and the cache of projects; and the locks on the tables' rows.*)
(*                                                                         *)
(* The storage's invariant is stated of each file by itself, so that a     *)
(* step has to be looked at only for the file it moves; the other files    *)
(* are the same (SameFile).  The permits are an invariant of their own.    *)
(*                                                                         *)
(* The cache is current for any number of projects, clients and faults.    *)
(* CacheIsCurrent alone is not inductive: that what a read fills in is     *)
(* still what the table holds follows from the business lock, which keeps  *)
(* every other client away from the table while the read is under way.     *)
(***************************************************************************)
EXTENDS ProjectCache, RunArtifacts, RowLocks, TLAPS, FiniteSetTheorems

-----------------------------------------------------------------------------
(***************************************************************************)
(* Files.  The invariant is stated of each file by itself.  A row is       *)
(* written by an upload that has stored its object, once; a file that has  *)
(* a row is moved by one deletion at a time unless two overlap; and a move *)
(* drops its source only when the copy is there, its copy only while the   *)
(* source is there.                                                        *)
(***************************************************************************)
BeforeRow == {"idle", "staging", "staged", "sending", "completed", "stored"}
UploadPlaces == BeforeRow \cup {"aborting", "discarding", "failing", "ended"}
MovePlaces == {"head", "copy", "verify", "undo", "drop", "commit"}

ArtifactStatuses == {"absent", "pending", "ready", "failed", "deleted", "cleared"}

HasRow(f) == Status(f) \in {"live", "deleted"}

AttachedUploads ==
  [at : UploadPlaces \ {"idle"}, target : Targets, comment : Comments \cup {"none"}]
RowRecords ==
  {NoRow} \cup [status : {"live", "deleted"}, target : Targets, comment : Comments \cup {"none"}]

Moves == [file : Files, move : {"isolate", "restore"}, at : MovePlaces]
Discards == [file : Artifacts, move : {"discard"}, at : {"discard", "commit"}]

UploadsOK ==
  /\ uploads \in [Files -> [at : UploadPlaces] \cup AttachedUploads]
  /\ \A f \in Attached : uploads[f].at # "idle" => uploads[f] \in AttachedUploads

StorageTypeOK ==
  /\ objects \in [Files -> SUBSET {"parts", "original", "isolated"}]
  /\ UploadsOK
  /\ deletions \in [Deletes -> {Idle} \cup Moves \cup Discards]
  /\ readers \in [Readers -> {Idle} \cup [at : {"checked", "streaming"}, file : Files]]
  /\ rows \in [Attached -> RowRecords]
  /\ artifacts \in [Artifacts -> ArtifactStatuses]
  /\ permits \in Nat /\ faults \in Nat
  /\ unsure \subseteq Files /\ overlapped \subseteq Files

\* A row is written at the end of an upload.
RowAfterObject(f) ==
  /\ f \in Artifacts => 
       /\ artifacts[f] = "absent" <=> uploads[f].at = "idle"
       /\ artifacts[f] \in {"failed", "cleared"} => uploads[f].at = "ended"
  /\ uploads[f].at \in BeforeRow => f \notin unsure
  /\ f \notin unsure /\ uploads[f].at # "ended" => ~HasRow(f)
  /\ uploads[f].at \in {"completed", "stored"} => "original" \in objects[f]
  /\ HasRow(f) /\ f \notin unsure \cup overlapped => objects[f] \cap {"original", "isolated"} # {}

\* What a deletion may rely on.
MovesAreSafe(f) ==
  /\ \A d \in Moving(f) :
       /\ f \notin unsure => uploads[f].at = "ended"
       /\ IF deletions[d].move = "discard"
          THEN f \in Artifacts /\ artifacts[f] \in {"failed", "cleared"}
          ELSE HasRow(f)
       /\ f \notin unsure \cup overlapped =>
            /\ deletions[d].at \in {"copy", "verify", "undo", "drop"}
                 => Source(deletions[d].move) \in objects[f]
            /\ deletions[d].at = "drop" => Copied(deletions[d].move) \in objects[f]
  /\ HasRow(f) /\ f \notin overlapped => \A c, d \in Moving(f) : c = d

\* Without faults: what an upload, and what a deletion, has stored where.
Uploaded(f) ==
  LET u == uploads[f].at IN
  /\ f \in Artifacts => (artifacts[f] = "pending" <=> u \notin {"idle", "ended"})
  /\ u # "aborting"
  /\ u \in {"idle", "staging", "staged", "failing"} => objects[f] = {}
  /\ u = "sending" => objects[f] = {"parts"}
  /\ u \in {"completed", "stored"} => objects[f] = {"original"}
  /\ u = "discarding" => objects[f] \subseteq {"original"}
  /\ u = "ended" /\ ~HasRow(f) => objects[f] = {}

Placed(held, move, at) ==
  CASE at \in {"head", "copy"}   -> held = {Source(move)}
    [] at \in {"verify", "drop"} -> held = {"original", "isolated"}
    [] at = "commit"             -> held = {"isolated"}
    [] OTHER                     -> FALSE

FilesMatch(f) ==
  faults = 0 =>
    /\ f \notin unsure
    /\ Uploaded(f)
    /\ f \notin overlapped /\ HasRow(f) =>
         /\ Moving(f) = {} => objects[f] = IF Status(f) = "live" THEN {"original"} ELSE {"isolated"}
         /\ \A d \in Moving(f) :
              Status(f) = "live" /\ Placed(objects[f], deletions[d].move, deletions[d].at)

FileInv(f) == RowAfterObject(f) /\ MovesAreSafe(f) /\ FilesMatch(f)

USE DEF ArtifactStatuses

-----------------------------------------------------------------------------
\* What a step leaves alone of a file.
SameFile(f) ==
  /\ objects'[f] = objects[f] /\ uploads'[f] = uploads[f]
  /\ Status(f)' = Status(f) /\ (f \in Artifacts => artifacts'[f] = artifacts[f])
  /\ f \in unsure' <=> f \in unsure
  /\ f \in overlapped' <=> f \in overlapped
  /\ \A d \in Deletes : d \in Moving(f) \/ d \in Moving(f)' => deletions'[d] = deletions[d]

LEMMA SameFileKeepsInv ==
  ASSUME NEW f \in Files, FileInv(f), SameFile(f), faults' = 0 => faults = 0
  PROVE  FileInv(f)'
  <1>1. Moving(f)' = Moving(f)
    BY DEF SameFile, Moving
  <1>2. HasRow(f)' = HasRow(f)
    BY DEF SameFile, HasRow
  <1>3. RowAfterObject(f)'
    BY <1>2 DEF SameFile, FileInv, RowAfterObject
  <1>4. \A d \in Moving(f) : deletions'[d] = deletions[d]
    BY DEF SameFile, Moving
  <1>5. MovesAreSafe(f)'
    BY <1>1, <1>2, <1>4 DEF SameFile, FileInv, MovesAreSafe, Source, Copied
  <1>6. FilesMatch(f)'
    <2>1. Uploaded(f)' <=> Uploaded(f)
      BY <1>2 DEF SameFile, Uploaded
    <2>2. \A d \in Moving(f) : Placed(objects[f], deletions[d].move, deletions[d].at)'
                               <=> Placed(objects[f], deletions[d].move, deletions[d].at)
      BY <1>4 DEF SameFile, Placed, Source
    <2> QED
      BY <1>1, <1>2, <2>1, <2>2 DEF SameFile, FileInv, FilesMatch
  <1> QED
    BY <1>3, <1>5, <1>6 DEF FileInv

\* The fields of an upload.
LEMMA UploadFields ==
  ASSUME StorageTypeOK, NEW f \in Files
  PROVE  /\ uploads[f].at \in UploadPlaces
         /\ uploads[f] \in [at : UploadPlaces] \cup AttachedUploads
  <1>1. uploads[f] \in [at : UploadPlaces] \cup AttachedUploads
    BY DEF StorageTypeOK, UploadsOK
  <1> QED
    BY <1>1 DEF AttachedUploads

\* The fields of a deletion.
LEMMA DeletionFields ==
  ASSUME StorageTypeOK, NEW d \in Deletes, deletions[d] # Idle
  PROVE  /\ deletions[d].file \in Files /\ deletions[d].at # "idle"
         /\ \/ /\ deletions[d] \in Moves
               /\ deletions[d].move \in {"isolate", "restore"} /\ deletions[d].at \in MovePlaces
            \/ /\ deletions[d] \in Discards
               /\ deletions[d].move = "discard" /\ deletions[d].at \in {"discard", "commit"}
               /\ deletions[d].file \in Artifacts
  <1>1. deletions[d] \in Moves \/ deletions[d] \in Discards
    BY DEF StorageTypeOK
  <1>2. Artifacts \subseteq Files
    BY ObjectStoreAssumption
  <1> QED
    BY <1>1, <1>2 DEF MovePlaces, Moves, Discards

LEMMA IdleIs == Idle.at = "idle"
  BY DEF Idle

\* An upload goes on to another place.
LEMMA UploadGoesOn ==
  ASSUME StorageTypeOK, NEW f \in Files, uploads[f].at # "idle",
         NEW at \in UploadPlaces \ {"idle"}, UploadAt(f, at)
  PROVE  /\ UploadsOK'
         /\ uploads'[f].at = at
         /\ \A g \in Files : g # f => uploads'[g] = uploads[g]
  <1>1. PICK u : u = [uploads[f] EXCEPT !.at = at]
    OBVIOUS
  <1>2. /\ u.at = at /\ u \in [at : UploadPlaces] \cup AttachedUploads
        /\ f \in Attached => u \in AttachedUploads
    BY <1>1, UploadFields DEF AttachedUploads, StorageTypeOK, UploadsOK
  <1>3. uploads' = [uploads EXCEPT ![f] = u] /\ DOMAIN uploads = Files
    BY <1>1 DEF UploadAt, StorageTypeOK, UploadsOK
  <1>4. uploads'[f] = u /\ \A g \in Files : g # f => uploads'[g] = uploads[g]
    BY <1>3
  <1>5. uploads' \in [Files -> [at : UploadPlaces] \cup AttachedUploads]
    BY <1>2, <1>3 DEF StorageTypeOK, UploadsOK
  <1>6. \A g \in Attached : uploads'[g].at # "idle" => uploads'[g] \in AttachedUploads
    BY <1>2, <1>4 DEF StorageTypeOK, UploadsOK, Attached
  <1> QED
    BY <1>2, <1>4, <1>5, <1>6 DEF UploadsOK

LEMMA StorageInitInv == ArtifactsInit => StorageTypeOK /\ \A f \in Files : FileInv(f)
  <1> SUFFICES ASSUME ArtifactsInit PROVE StorageTypeOK /\ \A f \in Files : FileInv(f)
    OBVIOUS
  <1> USE DEF ArtifactsInit, AttachmentsInit, StoreInit
  <1>1. StorageTypeOK
    BY ObjectStoreAssumption
    DEF StorageTypeOK, UploadsOK, RowRecords, UploadPlaces, BeforeRow, Idle, NoRow, Attached
  <1>2. ASSUME NEW f \in Files
        PROVE  FileInv(f)
    <2>1. Moving(f) = {}
      BY DEF Moving
    <2>2. uploads[f].at = "idle" /\ objects[f] = {} /\ f \notin unsure
      BY IdleIs
    <2>3. ~HasRow(f) /\ (f \in Artifacts => artifacts[f] = "absent")
      BY DEF HasRow, Status, NoRow, Attached
    <2> QED
      BY <2>1, <2>2, <2>3 DEF FileInv, RowAfterObject, MovesAreSafe, FilesMatch, Uploaded, BeforeRow
  <1> QED
    BY <1>1, <1>2

-----------------------------------------------------------------------------
(* Uploads.                                                                *)

\* A file that is being uploaded has no row, and nobody deletes it.
LEMMA UploadingFile ==
  ASSUME NEW f \in Files, FileInv(f), f \notin unsure, uploads[f].at # "ended"
  PROVE  ~HasRow(f) /\ Moving(f) = {}
  BY DEF FileInv, RowAfterObject, MovesAreSafe

StepOfRows == UNCHANGED <<rows, artifacts, unsure>>

LEMMA RowsSame ==
  ASSUME StepOfRows
  PROVE  \A g \in Files : Status(g)' = Status(g) /\ HasRow(g)' = HasRow(g)
  BY DEF StepOfRows, Status, HasRow

\* A step of the upload of f that writes no row.
LEMMA UploadStep ==
  ASSUME StorageTypeOK, \A g \in Files : FileInv(g),
         NEW f \in Files, NEW at \in UploadPlaces \ {"idle"},
         NEW held \in SUBSET {"parts", "original", "isolated"},
         UploadAt(f, at), objects' = [objects EXCEPT ![f] = held],
         StepOfRows, UNCHANGED <<overlapped, deletions, readers>>,
         permits' \in Nat, faults' \in {faults, faults + 1},
         uploads[f].at \notin {"idle", "ended"},
         at \in BeforeRow => uploads[f].at \in BeforeRow,
         at \in {"completed", "stored"} => "original" \in held,
         faults' = 0 => Uploaded(f)'
  PROVE  StorageTypeOK' /\ \A g \in Files : FileInv(g)'
  <1>1. /\ UploadsOK'
        /\ uploads'[f].at = at
        /\ \A g \in Files : g # f => uploads'[g] = uploads[g]
    BY UploadGoesOn
  <1>2. /\ objects' \in [Files -> SUBSET {"parts", "original", "isolated"}]
        /\ objects'[f] = held /\ \A g \in Files : g # f => objects'[g] = objects[g]
    BY DEF StorageTypeOK
  <1>3. faults' \in Nat /\ (faults' = 0 => faults = 0)
    BY DEF StorageTypeOK
  <1>4. StorageTypeOK'
    BY <1>1, <1>2, <1>3 DEF StorageTypeOK, StepOfRows
  <1>5. \A g \in Files : Moving(g)' = Moving(g) /\ Status(g)' = Status(g) /\ HasRow(g)' = HasRow(g)
    BY RowsSame DEF Moving
  <1>6. ASSUME NEW g \in Files, g # f
        PROVE  FileInv(g)'
    <2>1. SameFile(g)
      BY <1>1, <1>2, <1>5, <1>6 DEF SameFile, StepOfRows
    <2> QED
      BY <1>3, <2>1, SameFileKeepsInv
  <1>7. FileInv(f)'
    <2>1. CASE f \notin unsure
      <3>1. ~HasRow(f)' /\ Moving(f)' = {} /\ f \notin unsure'
        BY <1>5, <2>1, UploadingFile DEF StepOfRows
      <3>2. RowAfterObject(f)' /\ MovesAreSafe(f)'
        BY <1>1, <1>2, <3>1 DEF FileInv, RowAfterObject, MovesAreSafe, StepOfRows
      <3>3. FilesMatch(f)'
        BY <3>1 DEF FilesMatch
      <3> QED
        BY <3>2, <3>3 DEF FileInv
    <2>2. CASE f \in unsure
      <3>1. f \in unsure' /\ at \notin BeforeRow /\ faults' # 0
        BY <1>3, <2>2 DEF FileInv, RowAfterObject, FilesMatch, StepOfRows
      <3>2. RowAfterObject(f)'
        BY <1>1, <1>2, <3>1 DEF FileInv, RowAfterObject, StepOfRows
      <3>3. MovesAreSafe(f)'
        BY <1>5, <3>1 DEF FileInv, MovesAreSafe, StepOfRows
      <3> QED
        BY <3>1, <3>2, <3>3 DEF FileInv, FilesMatch
    <2> QED
      BY <2>1, <2>2
  <1> QED
    BY <1>4, <1>6, <1>7

\* What the fault-free invariant says of an upload under way.
LEMMA UploadedNow ==
  ASSUME NEW f \in Files, FileInv(f), faults = 0
  PROVE  Uploaded(f) /\ f \notin unsure
  BY DEF FileInv, FilesMatch

LEMMA FaultCounts ==
  ASSUME StorageTypeOK, Fault
  PROVE  faults' = faults + 1 /\ faults' # 0
  BY DEF StorageTypeOK, Fault

LEMMA AfterFailedSaveIs ==
  ASSUME NEW f \in Files
  PROVE  /\ AfterFailedSave(f) \in UploadPlaces \ BeforeRow
         /\ AfterDiscard(f) \in UploadPlaces \ BeforeRow
         /\ f \in Artifacts => AfterFailedSave(f) = "discarding" /\ AfterDiscard(f) = "failing"
         /\ f \notin Artifacts => AfterFailedSave(f) = "ended" /\ AfterDiscard(f) = "ended"
  BY DEF AfterFailedSave, AfterDiscard, UploadPlaces, BeforeRow

LEMMA StageKeepsInv ==
  ASSUME StorageTypeOK, \A g \in Files : FileInv(g), NEW f \in Files,
         Stage(f), UNCHANGED <<artifacts, attachmentVars>>
  PROVE  StorageTypeOK' /\ \A g \in Files : FileInv(g)'
  <1>1. /\ StepOfRows /\ UNCHANGED <<overlapped, deletions, readers, permits>>
        /\ uploads[f].at = "staging" /\ permits' \in Nat
    BY DEF Stage, StepOfRows, attachmentVars, StorageTypeOK
  <1>2. FileInv(f) /\ f \notin unsure /\ ~HasRow(f)
    BY <1>1, UploadingFile DEF FileInv, RowAfterObject, BeforeRow
  <1>3. ~HasRow(f)' /\ (f \in Artifacts => artifacts'[f] = artifacts[f])
    BY <1>1, <1>2, RowsSame DEF StepOfRows
  <1>4. objects[f] \in SUBSET {"parts", "original", "isolated"} /\ objects = [objects EXCEPT ![f] = objects[f]]
    BY DEF StorageTypeOK
  <1>5. ASSUME faults = 0
        PROVE  objects[f] = {} /\ (f \in Artifacts => artifacts[f] = "pending")
    BY <1>1, <1>2, <1>5, UploadedNow DEF Uploaded
  <1>6. CASE UploadAt(f, AfterFailedSave(f)) /\ UNCHANGED <<objects, faults>>
    <2>1. uploads'[f].at = AfterFailedSave(f)
      BY <1>1, <1>6, UploadGoesOn, AfterFailedSaveIs
    <2>2. faults' = 0 => Uploaded(f)'
      BY <1>3, <1>5, <1>6, <2>1, AfterFailedSaveIs DEF Uploaded
    <2> QED
      BY <1>1, <1>4, <1>6, <2>2, AfterFailedSaveIs, UploadStep DEF BeforeRow
  <1>7. CASE UploadAt(f, "staged") /\ UNCHANGED <<objects, faults>>
    <2>1. uploads'[f].at = "staged"
      BY <1>1, <1>7, UploadGoesOn DEF UploadPlaces, BeforeRow
    <2>2. faults' = 0 => Uploaded(f)'
      BY <1>3, <1>5, <1>7, <2>1 DEF Uploaded
    <2> QED
      BY <1>1, <1>4, <1>7, <2>2, UploadStep DEF BeforeRow, UploadPlaces
  <1>8. CASE objects' = [objects EXCEPT ![f] = {"original"}] /\ UploadAt(f, "stored") /\ UNCHANGED faults
    <2>1. uploads'[f].at = "stored" /\ objects'[f] = {"original"}
      BY <1>1, <1>8, UploadGoesOn DEF UploadPlaces, BeforeRow, StorageTypeOK
    <2>2. faults' = 0 => Uploaded(f)'
      BY <1>3, <1>5, <1>8, <2>1 DEF Uploaded
    <2> QED
      BY <1>1, <1>8, <2>2, UploadStep DEF BeforeRow, UploadPlaces
  <1>9. CASE objects' = [objects EXCEPT ![f] = {"original"}] /\ Fault /\ UploadAt(f, AfterFailedSave(f))
    BY <1>1, <1>9, FaultCounts, AfterFailedSaveIs, UploadStep DEF BeforeRow
  <1> QED
    BY <1>6, <1>7, <1>8, <1>9 DEF Stage

\* Every request of a multipart upload.
LEMMA UploadRequestKeepsInv ==
  ASSUME StorageTypeOK, \A g \in Files : FileInv(g), NEW f \in Files,
         NEW at, NEW next, NEW effect \in SUBSET {"parts", "original", "isolated"},
         UploadRequest(f, at, next, effect), UNCHANGED <<artifacts, attachmentVars>>,
         \/ at = "staged" /\ next = "sending" /\ effect = objects[f] \cup {"parts"}
         \/ at = "sending" /\ next = "completed" /\ effect = (objects[f] \ {"parts"}) \cup {"original"}
         \/ at = "completed" /\ next = "stored" /\ effect = objects[f]
  PROVE  StorageTypeOK' /\ \A g \in Files : FileInv(g)'
  <1>1. /\ StepOfRows /\ UNCHANGED <<overlapped, deletions, readers>>
        /\ uploads[f].at = at /\ at \in {"staged", "sending", "completed"}
    BY DEF UploadRequest, StepOfRows, attachmentVars
  <1>2. FileInv(f) /\ f \notin unsure /\ ~HasRow(f)
    BY <1>1, UploadingFile DEF FileInv, RowAfterObject, BeforeRow
  <1>3. ~HasRow(f)' /\ (f \in Artifacts => artifacts'[f] = artifacts[f])
    BY <1>1, <1>2, RowsSame DEF StepOfRows
  <1>4. permits' \in Nat
    BY DEF UploadRequest, StorageTypeOK
  <1>5. CASE UploadAt(f, next) /\ objects' = [objects EXCEPT ![f] = effect] /\ UNCHANGED faults
    <2>1. uploads'[f].at = next /\ objects'[f] = effect /\ next \in UploadPlaces
      BY <1>1, <1>5, UploadGoesOn DEF UploadPlaces, BeforeRow, StorageTypeOK
    <2>2. faults' = 0 => Uploaded(f)'
      <3> SUFFICES ASSUME faults' = 0 PROVE Uploaded(f)'
        OBVIOUS
      <3>1. Uploaded(f)
        BY <1>2, <1>5, UploadedNow
      <3> QED
        BY <1>1, <1>2, <1>3, <2>1, <3>1 DEF Uploaded
    <2>3. next \in {"completed", "stored"} => "original" \in effect
      BY <1>1, <1>2 DEF FileInv, RowAfterObject
    <2> QED
      BY <1>1, <1>4, <1>5, <2>1, <2>2, <2>3, UploadStep DEF BeforeRow
  <1>6. ASSUME Fault, UploadAt(f, IF at = "staged" THEN AfterFailedSave(f) ELSE "aborting"),
               NEW held \in {objects[f], effect}, objects' = [objects EXCEPT ![f] = held]
        PROVE  StorageTypeOK' /\ \A g \in Files : FileInv(g)'
    <2>1. held \in SUBSET {"parts", "original", "isolated"}
      BY <1>6 DEF StorageTypeOK
    <2>2. PICK place : place = IF at = "staged" THEN AfterFailedSave(f) ELSE "aborting"
      OBVIOUS
    <2>3. place \in UploadPlaces \ BeforeRow /\ UploadAt(f, place)
      BY <1>6, <2>2, AfterFailedSaveIs DEF UploadPlaces, BeforeRow
    <2> QED
      BY <1>1, <1>4, <1>6, <2>1, <2>3, FaultCounts, UploadStep DEF BeforeRow
  <1> QED
    BY <1>5, <1>6 DEF UploadRequest

LEMMA CleanupKeepsInv ==
  ASSUME StorageTypeOK, \A g \in Files : FileInv(g), NEW f \in Files,
         Cleanup(f), UNCHANGED <<artifacts, attachmentVars>>
  PROVE  StorageTypeOK' /\ \A g \in Files : FileInv(g)'
  <1>1. /\ StepOfRows /\ UNCHANGED <<overlapped, deletions, readers, permits>>
        /\ uploads[f].at \in {"aborting", "discarding"} /\ permits' \in Nat
    BY DEF Cleanup, StepOfRows, attachmentVars, StorageTypeOK
  <1>2. PICK place : place = IF uploads[f].at = "aborting" THEN AfterFailedSave(f) ELSE AfterDiscard(f)
    OBVIOUS
  <1>3. place \in UploadPlaces \ BeforeRow /\ UploadAt(f, place) /\ uploads'[f].at = place
    BY <1>2, AfterFailedSaveIs, UploadGoesOn DEF Cleanup
  <1>4. PICK removed : removed = IF uploads[f].at = "aborting" THEN {"parts", "original"} ELSE {"original"}
    OBVIOUS
  <1>5. CASE objects' = [objects EXCEPT ![f] = @ \ removed] /\ UNCHANGED faults
    <2>1. objects'[f] = objects[f] \ removed /\ objects[f] \ removed \in SUBSET {"parts", "original", "isolated"}
      BY <1>5 DEF StorageTypeOK
    <2>2. faults' = 0 => Uploaded(f)'
      <3> SUFFICES ASSUME faults' = 0 PROVE Uploaded(f)'
        OBVIOUS
      <3>1. Uploaded(f) /\ f \notin unsure
        BY <1>5, UploadedNow
      <3>2. uploads[f].at = "discarding" /\ objects[f] \subseteq {"original"} /\ removed = {"original"}
        BY <1>1, <1>4, <3>1 DEF Uploaded
      <3>3. (f \in Artifacts => artifacts'[f] = "pending" /\ place = "failing")
            /\ (f \notin Artifacts => place = "ended")
        BY <1>1, <1>2, <3>1, <3>2, AfterFailedSaveIs DEF Uploaded, StepOfRows
      <3> QED
        BY <1>3, <2>1, <3>2, <3>3 DEF Uploaded
    <2> QED
      BY <1>1, <1>3, <1>5, <2>1, <2>2, UploadStep DEF BeforeRow
  <1>6. ASSUME Fault, NEW left \in SUBSET removed, objects' = [objects EXCEPT ![f] = @ \ left]
        PROVE  StorageTypeOK' /\ \A g \in Files : FileInv(g)'
    <2>1. objects[f] \ left \in SUBSET {"parts", "original", "isolated"}
      BY DEF StorageTypeOK
    <2> QED
      BY <1>1, <1>3, <1>6, <2>1, FaultCounts, UploadStep DEF BeforeRow
  <1> QED
    BY <1>4, <1>5, <1>6 DEF Cleanup

-----------------------------------------------------------------------------
(* Rows and uploads.                                                       *)

\* An upload that has not begun is Idle.
LEMMA IdleUpload ==
  ASSUME StorageTypeOK, NEW f \in Files, uploads[f].at = "idle"
  PROVE  uploads[f] = Idle
  BY UploadFields DEF Idle, AttachedUploads

\* A step of one file that moves nothing.
LEMMA OthersSame ==
  ASSUME \A g \in Files : FileInv(g), NEW f \in Files,
         \A g \in Files \ {f} :
           /\ uploads'[g] = uploads[g]
           /\ g \in Attached => rows'[g] = rows[g]
           /\ g \in Artifacts => artifacts'[g] = artifacts[g]
           /\ g \in unsure' <=> g \in unsure,
         UNCHANGED <<objects, deletions, overlapped>>, faults' = 0 => faults = 0
  PROVE  /\ \A g \in Files \ {f} : FileInv(g)'
         /\ \A g \in Files : Moving(g)' = Moving(g)
  <1>1. \A g \in Files : Moving(g)' = Moving(g)
    BY DEF Moving
  <1>2. ASSUME NEW g \in Files \ {f}
        PROVE  FileInv(g)'
    <2>1. Status(g)' = Status(g)
      BY DEF Status, Attached
    <2>2. SameFile(g)
      BY <1>1, <2>1 DEF SameFile
    <2> QED
      BY <2>2, SameFileKeepsInv
  <1> QED
    BY <1>1, <1>2

LEMMA BeginUploadKeepsInv ==
  ASSUME StorageTypeOK, \A g \in Files : FileInv(g), NEW f \in Attached,
         NEW t \in Targets, NEW k \in Comments \cup {"none"},
         BeginUpload(f, t, k), UNCHANGED artifacts
  PROVE  StorageTypeOK' /\ \A g \in Files : FileInv(g)'
  <1>1. /\ uploads[f].at = "idle" /\ f \in Files /\ f \notin Artifacts
        /\ UNCHANGED <<rows, artifacts, unsure, objects, deletions, readers, permits, overlapped, faults>>
        /\ uploads' = [uploads EXCEPT ![f] = [at |-> "staging", target |-> t, comment |-> k]]
    BY IdleIs DEF BeginUpload, attachmentVars, Attached
  <1>2. [at |-> "staging", target |-> t, comment |-> k]
          \in AttachedUploads
    BY DEF UploadPlaces, BeforeRow, AttachedUploads
  <1>3. StorageTypeOK'
    BY <1>1, <1>2 DEF StorageTypeOK, UploadsOK, Attached
  <1>4. uploads'[f].at = "staging" /\ \A g \in Files \ {f} : uploads'[g] = uploads[g]
    BY <1>1 DEF StorageTypeOK, UploadsOK
  <1>5. (\A g \in Files \ {f} : FileInv(g)') /\ Moving(f)' = Moving(f)
    BY <1>1, <1>4, OthersSame
  <1>6. FileInv(f) /\ f \notin unsure /\ ~HasRow(f) /\ Moving(f) = {}
    BY <1>1, UploadingFile DEF FileInv, RowAfterObject, BeforeRow
  <1>7. ~HasRow(f)'
    BY <1>1, <1>6 DEF HasRow, Status
  <1>8. faults' = 0 => objects[f] = {}
    BY <1>1, <1>6, UploadedNow DEF Uploaded
  <1>9. FileInv(f)'
    BY <1>1, <1>4, <1>5, <1>6, <1>7, <1>8
    DEF FileInv, RowAfterObject, MovesAreSafe, FilesMatch, Uploaded
  <1> QED
    BY <1>3, <1>5, <1>9

LEMMA CreatePendingKeepsInv ==
  ASSUME StorageTypeOK, \A g \in Files : FileInv(g), NEW f \in Artifacts, CreatePending(f)
  PROVE  StorageTypeOK' /\ \A g \in Files : FileInv(g)'
  <1>1. /\ artifacts[f] = "absent" /\ f \in Files
        /\ artifacts' = [artifacts EXCEPT ![f] = "pending"]
        /\ UNCHANGED <<rows, unsure, objects, deletions, readers, permits, overlapped, faults>>
        /\ uploads' = [uploads EXCEPT ![f] = [at |-> "staging"]]
    BY ObjectStoreAssumption DEF CreatePending, Mark, attachmentVars
  <1>2. [at |-> "staging"] \in [at : UploadPlaces]
    BY DEF UploadPlaces, BeforeRow
  <1>3. StorageTypeOK'
    BY <1>1, <1>2 DEF StorageTypeOK, UploadsOK, Attached
  <1>4. /\ uploads'[f].at = "staging" /\ artifacts'[f] = "pending"
        /\ \A g \in Files \ {f} : uploads'[g] = uploads[g] /\ (g \in Artifacts => artifacts'[g] = artifacts[g])
    BY <1>1 DEF StorageTypeOK, UploadsOK
  <1>5. (\A g \in Files \ {f} : FileInv(g)') /\ Moving(f)' = Moving(f)
    BY <1>1, <1>4, OthersSame
  <1>6. FileInv(f) /\ uploads[f].at = "idle"
    BY <1>1 DEF FileInv, RowAfterObject
  <1>0. f \notin unsure
    BY <1>6 DEF FileInv, RowAfterObject, BeforeRow
  <1>7. f \notin unsure /\ Moving(f) = {}
    BY <1>0, <1>1, <1>6, UploadingFile
  <1>8. ~HasRow(f)'
    BY <1>4 DEF HasRow, Status
  <1>9. faults' = 0 => objects[f] = {}
    BY <1>1, <1>6, UploadedNow DEF Uploaded
  <1>10. FileInv(f)'
    BY <1>1, <1>4, <1>5, <1>7, <1>8, <1>9
    DEF FileInv, RowAfterObject, MovesAreSafe, FilesMatch, Uploaded
  <1> QED
    BY <1>3, <1>5, <1>10

\* The row of f is written when its object is stored.
LEMMA RowWritten ==
  ASSUME StorageTypeOK, \A g \in Files : FileInv(g), NEW f \in Files,
         uploads[f].at = "stored", NEW at \in {"ended", "discarding"}, UploadAt(f, at),
         UNCHANGED <<objects, deletions, readers, permits, overlapped>>,
         \A g \in Files \ {f} : /\ g \in Attached => rows'[g] = rows[g]
                                /\ g \in Artifacts => artifacts'[g] = artifacts[g],
         Status(f)' = "live", f \in Artifacts => artifacts'[f] = "ready",
         \/ at = "ended" /\ UNCHANGED <<unsure, faults>>
         \/ at = "discarding" /\ Fault /\ unsure' = unsure \cup {f},
         rows' \in [Attached -> RowRecords],
         artifacts' \in [Artifacts -> ArtifactStatuses]
  PROVE  StorageTypeOK' /\ \A g \in Files : FileInv(g)'
  <1>1. at \in UploadPlaces \ {"idle"}
    BY DEF UploadPlaces
  <1>2. /\ UploadsOK'
        /\ uploads'[f].at = at
        /\ \A g \in Files : g # f => uploads'[g] = uploads[g]
    BY <1>1, UploadGoesOn
  <1>3. faults' \in Nat /\ (faults' = 0 => faults = 0 /\ at = "ended") /\ unsure' \subseteq Files
        /\ \A g \in Files \ {f} : g \in unsure' <=> g \in unsure
    BY FaultCounts DEF StorageTypeOK
  <1>4. StorageTypeOK'
    BY <1>2, <1>3 DEF StorageTypeOK
  <1>5. (\A g \in Files \ {f} : FileInv(g)') /\ Moving(f)' = Moving(f)
    BY <1>2, <1>3, OthersSame
  <1>6. FileInv(f) /\ f \notin unsure /\ Moving(f) = {} /\ "original" \in objects[f]
    BY UploadingFile DEF FileInv, RowAfterObject, BeforeRow
  <1>7. faults' = 0 => objects[f] = {"original"} /\ f \notin unsure'
    BY <1>3, <1>6, UploadedNow DEF Uploaded
  <1>8. HasRow(f)'
    BY DEF HasRow
  <1>9. RowAfterObject(f)' /\ MovesAreSafe(f)'
    <2>1. at = "discarding" => f \in unsure'
      OBVIOUS
    <2>2. RowAfterObject(f)'
      BY <1>2, <1>6, <1>8, <2>1 DEF RowAfterObject, BeforeRow
    <2>3. MovesAreSafe(f)'
      BY <1>5, <1>6 DEF MovesAreSafe
    <2> QED
      BY <2>2, <2>3
  <1>10. FilesMatch(f)'
    BY <1>2, <1>3, <1>5, <1>6, <1>7, <1>8 DEF FilesMatch, Uploaded
  <1> QED
    BY <1>4, <1>5, <1>9, <1>10 DEF FileInv

\* The row of f is refused after the upload.
LEMMA RowRefused ==
  ASSUME StorageTypeOK, \A g \in Files : FileInv(g), NEW f \in Files,
         uploads[f].at = "stored", UploadAt(f, "discarding"),
         StepOfRows, UNCHANGED <<objects, deletions, readers, permits, overlapped>>,
         UNCHANGED faults \/ Fault
  PROVE  StorageTypeOK' /\ \A g \in Files : FileInv(g)'
  <1>1. "discarding" \in UploadPlaces \ {"idle"} /\ "discarding" \notin BeforeRow
    BY DEF UploadPlaces, BeforeRow
  <1>2. uploads'[f].at = "discarding"
    BY <1>1, UploadGoesOn
  <1>3. objects[f] \in SUBSET {"parts", "original", "isolated"} /\ objects' = [objects EXCEPT ![f] = objects[f]]
    BY DEF StorageTypeOK
  <1>4. faults' = 0 => Uploaded(f)'
    <2> SUFFICES ASSUME faults' = 0 PROVE Uploaded(f)'
      OBVIOUS
    <2>1. Uploaded(f) /\ f \notin unsure
      BY FaultCounts, UploadedNow
    <2> QED
      BY <1>2, <2>1 DEF Uploaded, StepOfRows
  <1>5. permits' \in Nat /\ faults' \in {faults, faults + 1}
    BY FaultCounts DEF StorageTypeOK
  <1> QED
    BY <1>1, <1>3, <1>4, <1>5, UploadStep

LEMMA InsertRowKeepsInv ==
  ASSUME StorageTypeOK, \A g \in Files : FileInv(g), NEW f \in Attached,
         InsertRow(f), UNCHANGED artifacts
  PROVE  StorageTypeOK' /\ \A g \in Files : FileInv(g)'
  <1>1. /\ f \in Files /\ f \notin Artifacts /\ uploads[f].at = "stored"
        /\ UNCHANGED <<objects, deletions, readers, permits, overlapped>>
    BY DEF InsertRow, Attached
  <1>2. CASE UploadAt(f, "discarding") /\ StepOfRows /\ (UNCHANGED faults \/ Fault)
    BY <1>1, <1>2, RowRefused
  <1>3. ASSUME rows' = [rows EXCEPT ![f] = [status |-> "live", target |-> uploads[f].target,
                                            comment |-> uploads[f].comment]],
               NEW at \in {"ended", "discarding"}, UploadAt(f, at),
               \/ at = "ended" /\ UNCHANGED <<unsure, faults>>
               \/ at = "discarding" /\ Fault /\ unsure' = unsure \cup {f}
        PROVE  StorageTypeOK' /\ \A g \in Files : FileInv(g)'
    <2>1. [status |-> "live", target |-> uploads[f].target, comment |-> uploads[f].comment]
            \in RowRecords
      <3>1. uploads[f] \in AttachedUploads
        BY <1>1 DEF StorageTypeOK, UploadsOK
      <3> QED
        BY <3>1 DEF AttachedUploads, RowRecords
    <2>3. /\ rows' \in [Attached -> RowRecords]
          /\ rows'[f].status = "live" /\ \A g \in Attached \ {f} : rows'[g] = rows[g]
      BY <1>3, <2>1 DEF StorageTypeOK
    <2>4. Status(f)' = "live"
      BY <1>1, <2>3 DEF Status
    <2> QED
      BY <1>1, <1>3, <2>3, <2>4, RowWritten DEF StorageTypeOK
  <1> QED
    BY <1>2, <1>3 DEF InsertRow, StepOfRows

LEMMA FinalizeReadyKeepsInv ==
  ASSUME StorageTypeOK, \A g \in Files : FileInv(g), NEW f \in Artifacts, FinalizeReady(f)
  PROVE  StorageTypeOK' /\ \A g \in Files : FileInv(g)'
  <1>1. /\ f \in Files /\ f \notin Attached /\ uploads[f].at = "stored"
        /\ UNCHANGED <<rows, objects, deletions, readers, permits, overlapped>>
    BY ObjectStoreAssumption DEF FinalizeReady, Attached
  <1>2. CASE UploadAt(f, "discarding") /\ StepOfRows /\ (UNCHANGED faults \/ Fault)
    BY <1>1, <1>2, RowRefused
  <1>3. ASSUME Mark(f, "ready"), NEW at \in {"ended", "discarding"}, UploadAt(f, at),
               \/ at = "ended" /\ UNCHANGED <<unsure, faults>>
               \/ at = "discarding" /\ Fault /\ unsure' = unsure \cup {f}
        PROVE  StorageTypeOK' /\ \A g \in Files : FileInv(g)'
    <2>1. /\ artifacts' \in [Artifacts -> ArtifactStatuses]
          /\ artifacts'[f] = "ready" /\ \A g \in Artifacts \ {f} : artifacts'[g] = artifacts[g]
      BY <1>3 DEF Mark, StorageTypeOK
    <2>2. Status(f)' = "live"
      BY <2>1 DEF Status
    <2> QED
      BY <1>1, <1>3, <2>1, <2>2, RowWritten DEF StorageTypeOK
  <1> QED
    BY <1>1, <1>2, <1>3 DEF FinalizeReady, StepOfRows

LEMMA MarkFailedKeepsInv ==
  ASSUME StorageTypeOK, \A g \in Files : FileInv(g), NEW f \in Artifacts, MarkFailed(f)
  PROVE  StorageTypeOK' /\ \A g \in Files : FileInv(g)'
  <1>1. /\ f \in Files /\ uploads[f].at = "failing" /\ UploadAt(f, "ended")
        /\ UNCHANGED <<rows, unsure, objects, deletions, readers, permits, overlapped>>
    BY ObjectStoreAssumption DEF MarkFailed, attachmentVars
  <1>2. "ended" \in UploadPlaces \ {"idle"} /\ "ended" \notin BeforeRow
    BY DEF UploadPlaces, BeforeRow
  <1>3. CASE Fault /\ UNCHANGED artifacts
    <2>1. objects[f] \in SUBSET {"parts", "original", "isolated"} /\ objects' = [objects EXCEPT ![f] = objects[f]]
      BY <1>1 DEF StorageTypeOK
    <2>2. permits' \in Nat /\ faults' = faults + 1 /\ faults' # 0 /\ StepOfRows
      BY <1>1, <1>3, FaultCounts DEF StorageTypeOK, StepOfRows
    <2> QED
      BY <1>1, <1>2, <2>1, <2>2, UploadStep
  <1>4. CASE artifacts' = [artifacts EXCEPT ![f] = IF @ = "pending" THEN "failed" ELSE @] /\ UNCHANGED faults
    <2>1. UploadsOK' /\ uploads'[f].at = "ended" /\ \A g \in Files : g # f => uploads'[g] = uploads[g]
      BY <1>1, <1>2, UploadGoesOn
    <2>2. /\ artifacts' \in [Artifacts -> ArtifactStatuses]
          /\ artifacts'[f] = IF artifacts[f] = "pending" THEN "failed" ELSE artifacts[f]
          /\ \A g \in Artifacts \ {f} : artifacts'[g] = artifacts[g]
      BY <1>4 DEF StorageTypeOK
    <2>3. StorageTypeOK'
      BY <1>1, <1>4, <2>1, <2>2 DEF StorageTypeOK
    <2>4. (\A g \in Files \ {f} : FileInv(g)') /\ Moving(f)' = Moving(f)
      BY <1>1, <1>4, <2>1, <2>2, OthersSame
    <2>5. HasRow(f)' = HasRow(f) /\ Status(f)' = (IF artifacts[f] = "pending" THEN "absent" ELSE Status(f))
      BY <2>2 DEF HasRow, Status
    <2>6. FileInv(f) /\ (f \notin unsure => ~HasRow(f) /\ Moving(f) = {}) /\ artifacts[f] # "absent"
      BY <1>1, UploadingFile DEF FileInv, RowAfterObject
    <2>7. RowAfterObject(f)'
      BY <1>1, <1>2, <2>1, <2>2, <2>5, <2>6 DEF RowAfterObject
    <2>8. MovesAreSafe(f)'
      <3>1. \A d \in Moving(f) : deletions[d].move = "discard" => artifacts[f] \in {"failed", "cleared"}
        BY <2>6 DEF FileInv, MovesAreSafe
      <3>2. CASE artifacts[f] = "pending"
        <4>1. ~HasRow(f) /\ Moving(f) = {}
          BY <2>6, <3>1, <3>2 DEF FileInv, MovesAreSafe, HasRow, Status
        <4> QED
          BY <2>4, <2>5, <4>1 DEF MovesAreSafe
      <3>3. CASE artifacts[f] # "pending"
        <4>1. artifacts'[f] = artifacts[f] /\ HasRow(f)' = HasRow(f) /\ Moving(f)' = Moving(f)
          BY <2>2, <2>4, <2>5, <3>3
        <4> QED
          BY <1>1, <2>1, <2>6, <4>1 DEF FileInv, MovesAreSafe
      <3> QED
        BY <3>2, <3>3
    <2>9. FilesMatch(f)'
      <3> SUFFICES ASSUME faults' = 0 PROVE FilesMatch(f)'
        BY DEF FilesMatch
      <3>1. Uploaded(f) /\ f \notin unsure
        BY <1>1, <1>4, <2>6, UploadedNow
      <3>2. objects[f] = {} /\ artifacts[f] = "pending"
        BY <1>1, <3>1 DEF Uploaded
      <3> QED
        BY <1>1, <2>1, <2>2, <2>5, <2>6, <3>1, <3>2 DEF FilesMatch, Uploaded
    <2> QED
      BY <2>3, <2>4, <2>7, <2>8, <2>9 DEF FileInv
  <1> QED
    BY <1>3, <1>4 DEF MarkFailed

-----------------------------------------------------------------------------
(* Deletions.                                                              *)

\* Deletion d of f goes on; of no other file anything changes.
DeletionFrame(f, d, new, held) ==
  /\ deletions[d] # Idle => deletions[d].file = f
  /\ new \in {Idle} \cup Moves \cup Discards
  /\ new # Idle => new.file = f
  /\ deletions' = [deletions EXCEPT ![d] = new]
  /\ held \in SUBSET {"parts", "original", "isolated"}
  /\ objects' = [objects EXCEPT ![f] = held]
  /\ UNCHANGED <<uploads, unsure, readers>>
  /\ permits' \in Nat /\ faults' \in {faults, faults + 1}
  /\ overlapped' \in {overlapped, overlapped \cup {f}}
  /\ rows' \in [Attached -> RowRecords]
  /\ artifacts' \in [Artifacts -> ArtifactStatuses]
  /\ \A g \in Files \ {f} : /\ g \in Attached => rows'[g] = rows[g]
                            /\ g \in Artifacts => artifacts'[g] = artifacts[g]

LEMMA DeletionGoesOn ==
  ASSUME StorageTypeOK, \A g \in Files : FileInv(g), NEW f \in Files, NEW d \in Deletes,
         NEW new, NEW held, DeletionFrame(f, d, new, held)
  PROVE  /\ StorageTypeOK'
         /\ \A g \in Files \ {f} : FileInv(g)'
         /\ objects'[f] = held /\ (faults' = 0 => faults' = faults)
         /\ deletions'[d] = new /\ \A c \in Deletes \ {d} : deletions'[c] = deletions[c]
         /\ \A c \in Deletes \ {d} : c \in Moving(f)' <=> c \in Moving(f)
         /\ d \in Moving(f)' <=> new # Idle
  <1> USE DEF DeletionFrame
  <1>1. /\ objects' \in [Files -> SUBSET {"parts", "original", "isolated"}]
        /\ objects'[f] = held /\ \A g \in Files : g # f => objects'[g] = objects[g]
    BY DEF StorageTypeOK
  <1>2. faults' \in Nat /\ (faults' = 0 => faults = 0 /\ faults' = faults)
    BY DEF StorageTypeOK
  <1>3. /\ deletions' \in [Deletes -> {Idle} \cup Moves \cup Discards]
        /\ deletions'[d] = new /\ \A c \in Deletes \ {d} : deletions'[c] = deletions[c]
    BY DEF StorageTypeOK
  <1>4. StorageTypeOK'
    BY <1>1, <1>2, <1>3 DEF StorageTypeOK, UploadsOK
  <1>5. \A g \in Files, c \in Deletes \ {d} : c \in Moving(g)' <=> c \in Moving(g)
    BY <1>3 DEF Moving
  <1>6. \A g \in Files \ {f} : d \notin Moving(g) /\ d \notin Moving(g)'
    BY <1>3 DEF Moving
  <1>7. ASSUME NEW g \in Files \ {f}
        PROVE  FileInv(g)'
    <2>1. Status(g)' = Status(g)
      BY DEF Status, Attached
    <2>2. \A c \in Deletes : c \in Moving(g) \/ c \in Moving(g)' => deletions'[c] = deletions[c]
      BY <1>3, <1>6
    <2>3. SameFile(g)
      BY <1>1, <2>1, <2>2 DEF SameFile
    <2> QED
      BY <1>2, <2>3, SameFileKeepsInv
  <1>8. d \in Moving(f)' <=> new # Idle
    BY <1>3 DEF Moving
  <1> QED
    BY <1>1, <1>2, <1>3, <1>4, <1>5, <1>7, <1>8

\* A deletion that moves f back or forth goes on.
LEMMA MoveStep ==
  ASSUME StorageTypeOK, \A g \in Files : FileInv(g), NEW f \in Files, NEW d \in Moving(f),
         deletions[d].move # "discard",
         NEW new \in {Idle} \cup Moves, new # Idle => new.file = f,
         deletions' = [deletions EXCEPT ![d] = new],
         NEW held \in SUBSET {"parts", "original", "isolated"},
         objects' = [objects EXCEPT ![f] = held],
         UNCHANGED <<uploads, unsure, readers, overlapped>>,
         permits' \in Nat, faults' \in {faults, faults + 1},
         rows' \in [Attached -> RowRecords],
         artifacts' \in [Artifacts -> ArtifactStatuses],
         \A g \in Files \ {f} : /\ g \in Attached => rows'[g] = rows[g]
                                /\ g \in Artifacts => artifacts'[g] = artifacts[g],
         HasRow(f)',
         f \notin unsure \cup overlapped =>
           /\ held \cap {"original", "isolated"} # {}
           /\ new # Idle =>
                /\ new.at \in {"copy", "verify", "undo", "drop"} => Source(new.move) \in held
                /\ new.at = "drop" => Copied(new.move) \in held,
         f \notin unsure \cup overlapped /\ faults' = 0 =>
           IF new = Idle THEN held = IF Status(f)' = "live" THEN {"original"} ELSE {"isolated"}
           ELSE Status(f)' = "live" /\ Placed(held, new.move, new.at)
  PROVE  StorageTypeOK' /\ \A g \in Files : FileInv(g)'
  <1>1. d \in Deletes /\ deletions[d] # Idle /\ deletions[d].file = f
    BY DEF Moving
  <1>2. /\ StorageTypeOK'
        /\ \A g \in Files \ {f} : FileInv(g)'
        /\ objects'[f] = held /\ (faults' = 0 => faults' = faults)
        /\ deletions'[d] = new /\ \A c \in Deletes \ {d} : deletions'[c] = deletions[c]
        /\ \A c \in Deletes \ {d} : c \in Moving(f)' <=> c \in Moving(f)
        /\ d \in Moving(f)' <=> new # Idle
    <2>1. DeletionFrame(f, d, new, held)
      BY <1>1 DEF DeletionFrame
    <2> QED
      BY <1>1, <2>1, DeletionGoesOn
  <1>3. Moving(f) \subseteq Deletes /\ Moving(f)' \subseteq Deletes
    BY DEF Moving
  <1>4. FileInv(f) /\ HasRow(f)
    BY DEF FileInv, MovesAreSafe
  <1>5. f \in Artifacts => artifacts[f] \in {"ready", "deleted"} /\ artifacts'[f] \in {"ready", "deleted"}
    <2>1. f \in Artifacts => artifacts'[f] \in {"ready", "deleted"}
      BY DEF HasRow, Status
    <2> QED
      BY <1>4, <2>1 DEF HasRow, Status
  <1>6. f \notin unsure => uploads[f].at = "ended"
    BY <1>4 DEF FileInv, MovesAreSafe
  <1>7. uploads[f].at \notin BeforeRow
    BY <1>4, <1>6 DEF FileInv, RowAfterObject, BeforeRow
  <1>8. RowAfterObject(f)'
    BY <1>2, <1>4, <1>5, <1>6, <1>7 DEF FileInv, RowAfterObject, BeforeRow
  <1>9. f \notin overlapped => Moving(f) = {d} /\ Moving(f)' \subseteq {d}
    BY <1>2, <1>3, <1>4 DEF FileInv, MovesAreSafe
  <1>10. MovesAreSafe(f)'
    <2>1. ASSUME NEW c \in Moving(f)'
          PROVE  /\ f \notin unsure' => uploads'[f].at = "ended"
                 /\ deletions'[c].move # "discard"
      <3>1. CASE c = d
        BY <1>2, <1>6, <2>1, <3>1 DEF Moves
      <3>2. CASE c # d
        <4>1. deletions'[c] = deletions[c] /\ c \in Moving(f)
          BY <1>2, <1>3, <2>1, <3>2
        <4>2. ~(artifacts[f] \in {"failed", "cleared"} /\ f \in Artifacts)
          BY <1>5
        <4> QED
          BY <1>4, <1>6, <4>1, <4>2 DEF FileInv, MovesAreSafe
      <3> QED
        BY <3>1, <3>2
    <2>2. ASSUME NEW c \in Moving(f)', f \notin unsure \cup overlapped
          PROVE  /\ deletions'[c].at \in {"copy", "verify", "undo", "drop"}
                      => Source(deletions'[c].move) \in held
                 /\ deletions'[c].at = "drop" => Copied(deletions'[c].move) \in held
      BY <1>2, <1>9, <2>2
    <2> QED
      BY <1>2, <1>9, <2>1, <2>2 DEF MovesAreSafe, Source, Copied
  <1>11. FilesMatch(f)'
    <2> SUFFICES ASSUME faults' = 0 PROVE FilesMatch(f)'
      BY DEF FilesMatch
    <2>1. f \notin unsure /\ faults = 0
      BY <1>2, <1>4 DEF FileInv, FilesMatch
    <2>2. Uploaded(f)'
      BY <1>4, <1>5, <1>6, <2>1 DEF Uploaded
    <2>3. ASSUME f \notin overlapped
          PROVE  /\ Moving(f)' = {} => held = IF Status(f)' = "live" THEN {"original"} ELSE {"isolated"}
                 /\ \A c \in Moving(f)' : Status(f)' = "live" /\ Placed(held, deletions'[c].move, deletions'[c].at)
      BY <1>2, <1>9, <2>1, <2>3
    <2> QED
      BY <1>2, <2>1, <2>2, <2>3 DEF FilesMatch, Placed, Source
  <1> QED
    BY <1>2, <1>8, <1>10, <1>11 DEF FileInv

\* What is known of a move under way.
LEMMA MoveNow ==
  ASSUME StorageTypeOK, \A g \in Files : FileInv(g), NEW d \in Deletes, deletions[d] # Idle,
         deletions[d].move # "discard"
  PROVE  LET f == deletions[d].file
             m == deletions[d].move IN
         /\ f \in Files /\ d \in Moving(f) /\ HasRow(f) /\ m \in {"isolate", "restore"}
         /\ f \notin unsure \cup overlapped =>
              /\ objects[f] \cap {"original", "isolated"} # {}
              /\ deletions[d].at \in {"copy", "verify", "undo", "drop"} => Source(m) \in objects[f]
              /\ deletions[d].at = "drop" => Copied(m) \in objects[f]
         /\ faults = 0 /\ f \notin overlapped =>
              Status(f) = "live" /\ Placed(objects[f], m, deletions[d].at)
  <1>1. PICK f : f = deletions[d].file
    OBVIOUS
  <1>2. f \in Files /\ d \in Moving(f) /\ deletions[d].move \in {"isolate", "restore"}
    BY <1>1, DeletionFields DEF Moving
  <1>3. FileInv(f) /\ HasRow(f)
    BY <1>2 DEF FileInv, MovesAreSafe
  <1> QED
    BY <1>1, <1>2, <1>3 DEF FileInv, MovesAreSafe, RowAfterObject, FilesMatch

\* A step of a move that writes no row.
MoveFrame == StepOfRows /\ UNCHANGED <<uploads, readers, overlapped>>

MovesOn(d, f, m, new, held) ==
  /\ f = deletions[d].file /\ m = deletions[d].move
  /\ MoveFrame /\ permits' \in Nat
  /\ new \in {Idle} \cup Moves
  /\ new # Idle => new.file = f
  /\ deletions' = [deletions EXCEPT ![d] = new]
  /\ held \in SUBSET {"parts", "original", "isolated"}
  /\ objects' = [objects EXCEPT ![f] = held]
  /\ faults' \in {faults, faults + 1}
  /\ f \notin unsure \cup overlapped =>
       /\ held \cap {"original", "isolated"} # {}
       /\ new # Idle =>
            /\ new.at \in {"copy", "verify", "undo", "drop"} => Source(new.move) \in held
            /\ new.at = "drop" => Copied(new.move) \in held
  /\ f \notin unsure \cup overlapped /\ faults' = faults /\ Placed(objects[f], m, deletions[d].at) =>
       IF new = Idle THEN held = {"original"} ELSE Placed(held, new.move, new.at)

LEMMA MoveStepNoRow ==
  ASSUME StorageTypeOK, \A g \in Files : FileInv(g), NEW d \in Deletes, deletions[d] # Idle,
         deletions[d].move # "discard",
         NEW f, NEW m, NEW new, NEW held, MovesOn(d, f, m, new, held)
  PROVE  StorageTypeOK' /\ \A g \in Files : FileInv(g)'
  <1> USE DEF MovesOn
  <1>1. f \in Files /\ d \in Moving(f) /\ HasRow(f)
        /\ (faults = 0 /\ f \notin overlapped =>
              Status(f) = "live" /\ Placed(objects[f], m, deletions[d].at))
    BY MoveNow
  <1>2. HasRow(f)' /\ Status(f)' = Status(f)
    BY <1>1, RowsSame DEF MoveFrame
  <1>3. faults' = 0 => faults = 0 /\ faults' = faults
    BY DEF StorageTypeOK
  <1>4. f \notin unsure \cup overlapped /\ faults' = 0 =>
           IF new = Idle THEN held = IF Status(f)' = "live" THEN {"original"} ELSE {"isolated"}
           ELSE Status(f)' = "live" /\ Placed(held, new.move, new.at)
    BY <1>1, <1>2, <1>3
  <1>5. /\ rows' \in [Attached -> RowRecords]
        /\ artifacts' \in [Artifacts -> ArtifactStatuses]
        /\ rows' = rows /\ artifacts' = artifacts /\ unsure' = unsure
        /\ UNCHANGED <<uploads, readers, overlapped>>
    BY DEF MoveFrame, StepOfRows, StorageTypeOK
  <1> QED
    BY <1>1, <1>2, <1>4, <1>5, MoveStep

\* The record of a move at another place.
LEMMA MoveAt ==
  ASSUME StorageTypeOK, NEW d \in Deletes, deletions[d] # Idle, deletions[d].move # "discard",
         NEW at \in MovePlaces, DeletionAt(d, at)
  PROVE  \E new \in Moves : /\ new # Idle /\ new.file = deletions[d].file
                            /\ new.move = deletions[d].move /\ new.at = at
                            /\ deletions' = [deletions EXCEPT ![d] = new]
  <1>1. deletions[d] \in Moves /\ DOMAIN deletions = Deletes
    BY DeletionFields DEF StorageTypeOK
  <1>2. PICK new : new = [deletions[d] EXCEPT !.at = at]
    OBVIOUS
  <1>3. new \in Moves /\ new.file = deletions[d].file /\ new.move = deletions[d].move /\ new.at = at
    BY <1>1, <1>2 DEF Moves
  <1>4. new # Idle
    BY <1>3, IdleIs DEF MovePlaces
  <1>5. deletions' = [deletions EXCEPT ![d] = new]
    BY <1>1, <1>2 DEF DeletionAt
  <1> QED
    BY <1>3, <1>4, <1>5

LEMMA RestoredRecord ==
  ASSUME StorageTypeOK, NEW d \in Deletes, deletions[d] # Idle, deletions[d].move # "discard", Restore(d)
  PROVE  \E new \in Moves : /\ new # Idle /\ new.file = deletions[d].file
                            /\ new.move = "restore" /\ new.at = "head"
                            /\ deletions' = [deletions EXCEPT ![d] = new]
  <1>1. deletions[d] \in Moves /\ DOMAIN deletions = Deletes
    BY DeletionFields DEF StorageTypeOK
  <1>2. PICK new : new = [deletions[d] EXCEPT !.move = "restore", !.at = "head"]
    OBVIOUS
  <1>3. new \in Moves /\ new.file = deletions[d].file /\ new.move = "restore" /\ new.at = "head"
    BY <1>1, <1>2 DEF Moves, MovePlaces
  <1>4. new # Idle
    BY <1>3, IdleIs
  <1>5. deletions' = [deletions EXCEPT ![d] = new]
    BY <1>1, <1>2 DEF Restore
  <1> QED
    BY <1>3, <1>4, <1>5

LEMMA MovedRecord ==
  ASSUME StorageTypeOK, NEW d \in Deletes, deletions[d] # Idle, deletions[d].move # "discard", Moved(d)
  PROVE  IF deletions[d].move = "isolate"
         THEN \E new \in Moves : /\ new # Idle /\ new.file = deletions[d].file
                                 /\ new.move = "isolate" /\ new.at = "commit"
                                 /\ deletions' = [deletions EXCEPT ![d] = new]
         ELSE deletions' = [deletions EXCEPT ![d] = Idle]
  <1>1. deletions[d] \in Moves /\ DOMAIN deletions = Deletes
    BY DeletionFields DEF StorageTypeOK
  <1>2. PICK new : new = [deletions[d] EXCEPT !.at = "commit"]
    OBVIOUS
  <1>3. new \in Moves /\ new.file = deletions[d].file /\ new.move = deletions[d].move /\ new.at = "commit"
    BY <1>1, <1>2 DEF Moves, MovePlaces
  <1>4. new # Idle
    BY <1>3, IdleIs
  <1>5. CASE deletions[d].move = "isolate"
    <2>1. deletions' = [deletions EXCEPT ![d] = new]
      BY <1>1, <1>2, <1>5 DEF Moved
    <2> QED
      BY <1>3, <1>4, <1>5, <2>1
  <1>6. CASE deletions[d].move # "isolate"
    BY <1>1, <1>6 DEF Moved
  <1> QED
    BY <1>5, <1>6

\* At every place but those of a discard, a deletion moves a file.
LEMMA AtMovePlace ==
  ASSUME StorageTypeOK, NEW d \in Deletes,
         deletions[d].at \in {"head", "copy", "verify", "undo", "drop"}
  PROVE  deletions[d] # Idle /\ deletions[d].move \in {"isolate", "restore"}
  BY IdleIs, DeletionFields

\* The object of a file, whatever part of it stays.
LEMMA ObjectsOf ==
  ASSUME StorageTypeOK, NEW f \in Files
  PROVE  /\ objects[f] \in SUBSET {"parts", "original", "isolated"}
         /\ objects = [objects EXCEPT ![f] = objects[f]]
  BY DEF StorageTypeOK

LEMMA PlacesOf ==
  ASSUME NEW m \in {"isolate", "restore"}
  PROVE  /\ Source(m) \in {"original", "isolated"} /\ Copied(m) \in {"original", "isolated"}
         /\ Source(m) # Copied(m)
         /\ m = "isolate" => Source(m) = "original" /\ Copied(m) = "isolated"
         /\ m = "restore" => Source(m) = "isolated" /\ Copied(m) = "original"
  BY DEF Source, Copied

LEMMA HeadSourceKeepsInv ==
  ASSUME StorageTypeOK, \A g \in Files : FileInv(g), NEW d \in Deletes,
         HeadSource(d), UNCHANGED <<artifacts, attachmentVars>>
  PROVE  StorageTypeOK' /\ \A g \in Files : FileInv(g)'
  <1>1. PICK f, m : f = deletions[d].file /\ m = deletions[d].move
    OBVIOUS
  <1>2. /\ deletions[d].at = "head" /\ MoveFrame /\ UNCHANGED objects /\ permits' \in Nat
        /\ deletions[d] # Idle /\ m # "discard" /\ f \in Files /\ m \in {"isolate", "restore"}
    BY <1>1, AtMovePlace, MoveNow DEF HeadSource, MoveFrame, StepOfRows, attachmentVars, StorageTypeOK
  <1>3. f \notin unsure \cup overlapped => objects[f] \cap {"original", "isolated"} # {}
    BY <1>1, <1>2, MoveNow
  <1>4. Placed(objects[f], m, "head") => objects[f] = {Source(m)} /\ Placed(objects[f], m, "copy")
    BY DEF Placed
  <1>5. CASE Source(m) \in objects[f] /\ DeletionAt(d, "copy") /\ UNCHANGED faults
    <2>1. PICK new \in Moves : /\ new # Idle /\ new.file = f /\ new.move = m /\ new.at = "copy"
                               /\ deletions' = [deletions EXCEPT ![d] = new]
      BY <1>1, <1>2, <1>5, MoveAt DEF MovePlaces
    <2>8. MovesOn(d, f, m, new, objects[f])
      BY <1>1, <1>2, <1>3, <1>4, <1>5, <2>1, ObjectsOf DEF MovesOn
    <2> QED
      BY <1>1, <1>2, <2>8, MoveStepNoRow
  <1>6. CASE /\ deletions' = [deletions EXCEPT ![d] = Idle]
             /\ \/ Source(m) \notin objects[f] /\ UNCHANGED faults
                \/ Fault
    <2>1. faults' \in {faults, faults + 1} /\ (faults' = faults => Source(m) \notin objects[f])
      BY <1>6, FaultCounts DEF StorageTypeOK
    <2>8. MovesOn(d, f, m, Idle, objects[f])
      BY <1>1, <1>2, <1>3, <1>4, <1>6, <2>1, ObjectsOf DEF MovesOn
    <2> QED
      BY <1>1, <1>2, <2>8, MoveStepNoRow
  <1> QED
    BY <1>1, <1>5, <1>6 DEF HeadSource

LEMMA MoveFileKeepsInv ==
  ASSUME StorageTypeOK, \A g \in Files : FileInv(g), NEW d \in Deletes,
         MoveFile(d), UNCHANGED <<artifacts, attachmentVars>>
  PROVE  StorageTypeOK' /\ \A g \in Files : FileInv(g)'
  <1>1. PICK f, m : f = deletions[d].file /\ m = deletions[d].move
    OBVIOUS
  <1>2. /\ deletions[d].at = "head" /\ MoveFrame /\ permits' \in Nat
        /\ deletions[d] # Idle /\ m # "discard" /\ f \in Files /\ m \in {"isolate", "restore"}
    BY <1>1, AtMovePlace, MoveNow DEF MoveFile, MoveFrame, StepOfRows, attachmentVars, StorageTypeOK
  <1>3. f \notin unsure \cup overlapped => objects[f] \cap {"original", "isolated"} # {}
    BY <1>1, <1>2, MoveNow
  <1>4. Placed(objects[f], m, "head") => objects[f] = {Source(m)}
    BY DEF Placed
  <1>5. CASE /\ Source(m) \in objects[f] /\ Moved(d) /\ UNCHANGED faults
             /\ objects' = [objects EXCEPT ![f] = (@ \ {Source(m)}) \cup {Copied(m)}]
    <2>1. PICK held : held = (objects[f] \ {Source(m)}) \cup {Copied(m)}
      OBVIOUS
    <2>2. /\ objects' = [objects EXCEPT ![f] = held]
          /\ held \in SUBSET {"parts", "original", "isolated"}
          /\ held \cap {"original", "isolated"} # {}
          /\ objects[f] = {Source(m)} => held = {Copied(m)}
      BY <1>2, <1>5, <2>1, ObjectsOf, PlacesOf
    <2>3. CASE m = "isolate"
      <3>1. PICK new \in Moves : /\ new # Idle /\ new.file = f /\ new.move = m /\ new.at = "commit"
                                 /\ deletions' = [deletions EXCEPT ![d] = new]
        BY <1>1, <1>2, <1>5, <2>3, MovedRecord
      <3>2. objects[f] = {Source(m)} => Placed(held, m, "commit")
        BY <2>2, <2>3, PlacesOf DEF Placed
      <3>8. MovesOn(d, f, m, new, held)
        BY <1>1, <1>2, <1>4, <1>5, <2>2, <3>1, <3>2 DEF MovesOn
      <3> QED
        BY <1>1, <1>2, <3>8, MoveStepNoRow
    <2>4. CASE m = "restore"
      <3>1. deletions' = [deletions EXCEPT ![d] = Idle]
        BY <1>1, <1>2, <1>5, <2>4, MovedRecord
      <3>2. objects[f] = {Source(m)} => held = {"original"}
        BY <2>2, <2>4, PlacesOf
      <3>8. MovesOn(d, f, m, Idle, held)
        BY <1>1, <1>2, <1>4, <1>5, <2>2, <3>1, <3>2 DEF MovesOn
      <3> QED
        BY <1>1, <1>2, <3>8, MoveStepNoRow
    <2> QED
      BY <1>2, <2>3, <2>4
  <1>6. CASE /\ deletions' = [deletions EXCEPT ![d] = Idle] /\ UNCHANGED objects
             /\ \/ Source(m) \notin objects[f] /\ UNCHANGED faults
                \/ Fault
    <2>1. faults' \in {faults, faults + 1} /\ (faults' = faults => Source(m) \notin objects[f])
      BY <1>6, FaultCounts DEF StorageTypeOK
    <2>8. MovesOn(d, f, m, Idle, objects[f])
      BY <1>1, <1>2, <1>3, <1>4, <1>6, <2>1, ObjectsOf DEF MovesOn
    <2> QED
      BY <1>1, <1>2, <2>8, MoveStepNoRow
  <1> QED
    BY <1>1, <1>5, <1>6 DEF MoveFile

LEMMA CopyObjectKeepsInv ==
  ASSUME StorageTypeOK, \A g \in Files : FileInv(g), NEW d \in Deletes,
         CopyObject(d), UNCHANGED <<artifacts, attachmentVars>>
  PROVE  StorageTypeOK' /\ \A g \in Files : FileInv(g)'
  <1>1. PICK f, m : f = deletions[d].file /\ m = deletions[d].move
    OBVIOUS
  <1>2. /\ deletions[d].at = "copy" /\ MoveFrame /\ permits' \in Nat
        /\ deletions[d] # Idle /\ m # "discard" /\ f \in Files /\ m \in {"isolate", "restore"}
    BY <1>1, AtMovePlace, MoveNow DEF CopyObject, MoveFrame, StepOfRows, attachmentVars, StorageTypeOK
  <1>3. f \notin unsure \cup overlapped => Source(m) \in objects[f]
    BY <1>1, <1>2, MoveNow
  <1>4. Placed(objects[f], m, "copy") => objects[f] = {Source(m)}
    BY DEF Placed
  <1>5. ASSUME NEW held \in {objects[f], objects[f] \cup {Copied(m)}},
               objects' = [objects EXCEPT ![f] = held],
               NEW at \in {"verify", "undo"}, DeletionAt(d, at), faults' \in {faults, faults + 1},
               faults' = faults /\ Source(m) \in objects[f] =>
                 at = "verify" /\ held = objects[f] \cup {Copied(m)}
        PROVE  StorageTypeOK' /\ \A g \in Files : FileInv(g)'
    <2>1. PICK new \in Moves : /\ new # Idle /\ new.file = f /\ new.move = m /\ new.at = at
                               /\ deletions' = [deletions EXCEPT ![d] = new]
      BY <1>1, <1>2, <1>5, MoveAt DEF MovePlaces
    <2>2. held \in SUBSET {"parts", "original", "isolated"}
      BY <1>2, <1>5, ObjectsOf, PlacesOf
    <2>3. f \notin unsure \cup overlapped =>
            Source(m) \in held /\ held \cap {"original", "isolated"} # {} /\ at # "drop"
      BY <1>2, <1>3, <1>5, PlacesOf
    <2>4. faults' = faults /\ Placed(objects[f], m, "copy") => Placed(held, m, at)
      BY <1>2, <1>4, <1>5, PlacesOf DEF Placed
    <2>8. MovesOn(d, f, m, new, held)
      BY <1>1, <1>2, <1>5, <2>1, <2>2, <2>3, <2>4 DEF MovesOn
    <2> QED
      BY <1>1, <1>2, <2>8, MoveStepNoRow
  <1>6. PICK copy : copy = [objects EXCEPT ![f] = @ \cup {Copied(m)}]
    OBVIOUS
  <1>7. copy = [objects EXCEPT ![f] = objects[f] \cup {Copied(m)}]
    BY <1>6
  <1>8. /\ deletions[d].at = "copy"
        /\ \/ Source(m) \in objects[f] /\ objects' = copy /\ DeletionAt(d, "verify") /\ UNCHANGED faults
           \/ Source(m) \notin objects[f] /\ UNCHANGED objects /\ DeletionAt(d, "undo") /\ UNCHANGED faults
           \/ Fault /\ objects' \in {objects, copy} /\ DeletionAt(d, "undo")
    BY <1>1, <1>6 DEF CopyObject
  <1>9. CASE Source(m) \in objects[f] /\ objects' = copy /\ DeletionAt(d, "verify") /\ UNCHANGED faults
    BY <1>5, <1>7, <1>9
  <1>10. CASE Source(m) \notin objects[f] /\ UNCHANGED objects /\ DeletionAt(d, "undo") /\ UNCHANGED faults
    BY <1>2, <1>5, <1>10, ObjectsOf
  <1>11. CASE Fault /\ objects' \in {objects, copy} /\ DeletionAt(d, "undo")
    <2>1. faults' = faults + 1 /\ faults' # faults
      BY <1>11, FaultCounts DEF StorageTypeOK
    <2>2. CASE objects' = objects
      BY <1>2, <1>5, <1>11, <2>1, <2>2, ObjectsOf
    <2>3. CASE objects' = copy
      BY <1>5, <1>7, <1>11, <2>1, <2>3
    <2> QED
      BY <1>11, <2>2, <2>3
  <1> QED
    BY <1>8, <1>9, <1>10, <1>11

LEMMA VerifyCopyKeepsInv ==
  ASSUME StorageTypeOK, \A g \in Files : FileInv(g), NEW d \in Deletes,
         VerifyCopy(d), UNCHANGED <<artifacts, attachmentVars>>
  PROVE  StorageTypeOK' /\ \A g \in Files : FileInv(g)'
  <1>1. PICK f, m : f = deletions[d].file /\ m = deletions[d].move
    OBVIOUS
  <1>2. /\ deletions[d].at = "verify" /\ MoveFrame /\ permits' \in Nat /\ UNCHANGED objects
        /\ deletions[d] # Idle /\ m # "discard" /\ f \in Files /\ m \in {"isolate", "restore"}
    BY <1>1, AtMovePlace, MoveNow DEF VerifyCopy, MoveFrame, StepOfRows, attachmentVars, StorageTypeOK
  <1>3. f \notin unsure \cup overlapped => Source(m) \in objects[f]
    BY <1>1, <1>2, MoveNow
  <1>4. Placed(objects[f], m, "verify") => objects[f] = {"original", "isolated"}
    BY DEF Placed
  <1>5. PICK at \in {"drop", "undo"} :
          /\ DeletionAt(d, at) /\ faults' \in {faults, faults + 1}
          /\ at = "drop" => Copied(m) \in objects[f]
          /\ faults' = faults /\ Copied(m) \in objects[f] => at = "drop"
    BY <1>1, FaultCounts DEF VerifyCopy, StorageTypeOK
  <1>6. PICK new \in Moves : /\ new # Idle /\ new.file = f /\ new.move = m /\ new.at = at
                             /\ deletions' = [deletions EXCEPT ![d] = new]
    BY <1>1, <1>2, <1>5, MoveAt DEF MovePlaces
  <1>7. f \notin unsure \cup overlapped => objects[f] \cap {"original", "isolated"} # {}
    BY <1>2, <1>3, PlacesOf
  <1>8. faults' = faults /\ Placed(objects[f], m, "verify") => Placed(objects[f], m, at)
    BY <1>2, <1>4, <1>5, PlacesOf DEF Placed
  <1>9. MovesOn(d, f, m, new, objects[f])
    BY <1>1, <1>2, <1>3, <1>5, <1>6, <1>7, <1>8, ObjectsOf DEF MovesOn
  <1> QED
    BY <1>1, <1>2, <1>9, MoveStepNoRow

\* What a deletion of one object leaves.
LEMMA BestEffortLeaves ==
  ASSUME StorageTypeOK, NEW f \in Files, NEW object, BestEffortDelete(f, object)
  PROVE  \E held \in {objects[f], objects[f] \ {object}} :
           /\ held \in SUBSET {"parts", "original", "isolated"}
           /\ objects' = [objects EXCEPT ![f] = held]
           /\ faults' \in {faults, faults + 1}
           /\ faults' = faults => held = objects[f] \ {object}
  <1>1. CASE objects' = [objects EXCEPT ![f] = @ \ {object}] /\ UNCHANGED faults
    <2>1. objects[f] \ {object} \in SUBSET {"parts", "original", "isolated"}
      BY ObjectsOf
    <2>2. objects' = [objects EXCEPT ![f] = objects[f] \ {object}]
      BY <1>1
    <2> QED
      BY <1>1, <2>1, <2>2
  <1>2. CASE Fault /\ UNCHANGED objects
    BY <1>2, ObjectsOf, FaultCounts DEF StorageTypeOK
  <1> QED
    BY <1>1, <1>2 DEF BestEffortDelete

LEMMA UndoCopyKeepsInv ==
  ASSUME StorageTypeOK, \A g \in Files : FileInv(g), NEW d \in Deletes,
         UndoCopy(d), UNCHANGED <<artifacts, attachmentVars>>
  PROVE  StorageTypeOK' /\ \A g \in Files : FileInv(g)'
  <1>1. PICK f, m : f = deletions[d].file /\ m = deletions[d].move
    OBVIOUS
  <1>2. /\ deletions[d].at = "undo" /\ MoveFrame /\ permits' \in Nat
        /\ deletions[d] # Idle /\ m # "discard" /\ f \in Files /\ m \in {"isolate", "restore"}
        /\ deletions' = [deletions EXCEPT ![d] = Idle] /\ BestEffortDelete(f, Copied(m))
    BY <1>1, AtMovePlace, MoveNow DEF UndoCopy, MoveFrame, StepOfRows, attachmentVars, StorageTypeOK
  <1>3. f \notin unsure \cup overlapped => Source(m) \in objects[f]
    BY <1>1, <1>2, MoveNow
  <1>4. ~Placed(objects[f], m, "undo")
    BY DEF Placed
  <1>5. PICK held \in {objects[f], objects[f] \ {Copied(m)}} :
          /\ held \in SUBSET {"parts", "original", "isolated"}
          /\ objects' = [objects EXCEPT ![f] = held]
          /\ faults' \in {faults, faults + 1}
    BY <1>2, BestEffortLeaves
  <1>6. f \notin unsure \cup overlapped => held \cap {"original", "isolated"} # {}
    BY <1>2, <1>3, <1>5, PlacesOf
  <1>7. MovesOn(d, f, m, Idle, held)
    BY <1>1, <1>2, <1>4, <1>5, <1>6 DEF MovesOn
  <1> QED
    BY <1>1, <1>2, <1>7, MoveStepNoRow

LEMMA DropSourceKeepsInv ==
  ASSUME StorageTypeOK, \A g \in Files : FileInv(g), NEW d \in Deletes,
         DropSource(d), UNCHANGED <<artifacts, attachmentVars>>
  PROVE  StorageTypeOK' /\ \A g \in Files : FileInv(g)'
  <1>1. PICK f, m : f = deletions[d].file /\ m = deletions[d].move
    OBVIOUS
  <1>2. /\ deletions[d].at = "drop" /\ MoveFrame /\ permits' \in Nat
        /\ deletions[d] # Idle /\ m # "discard" /\ f \in Files /\ m \in {"isolate", "restore"}
        /\ Moved(d) /\ BestEffortDelete(f, Source(m))
    BY <1>1, AtMovePlace, MoveNow DEF DropSource, MoveFrame, StepOfRows, attachmentVars, StorageTypeOK
  <1>3. f \notin unsure \cup overlapped => Copied(m) \in objects[f]
    BY <1>1, <1>2, MoveNow
  <1>4. Placed(objects[f], m, "drop") => objects[f] = {"original", "isolated"}
    BY DEF Placed
  <1>5. PICK held \in {objects[f], objects[f] \ {Source(m)}} :
          /\ held \in SUBSET {"parts", "original", "isolated"}
          /\ objects' = [objects EXCEPT ![f] = held]
          /\ faults' \in {faults, faults + 1}
          /\ faults' = faults => held = objects[f] \ {Source(m)}
    BY <1>2, BestEffortLeaves
  <1>6. f \notin unsure \cup overlapped => held \cap {"original", "isolated"} # {}
    BY <1>2, <1>3, <1>5, PlacesOf
  <1>7. faults' = faults /\ Placed(objects[f], m, "drop") => held = {Copied(m)}
    BY <1>2, <1>4, <1>5, PlacesOf
  <1>8. CASE m = "isolate"
    <2>1. PICK new \in Moves : /\ new # Idle /\ new.file = f /\ new.move = m /\ new.at = "commit"
                               /\ deletions' = [deletions EXCEPT ![d] = new]
      BY <1>1, <1>2, <1>8, MovedRecord
    <2>2. held = {Copied(m)} => Placed(held, m, "commit")
      BY <1>8, PlacesOf DEF Placed
    <2>3. MovesOn(d, f, m, new, held)
      BY <1>1, <1>2, <1>5, <1>6, <1>7, <2>1, <2>2 DEF MovesOn
    <2> QED
      BY <1>1, <1>2, <2>3, MoveStepNoRow
  <1>9. CASE m = "restore"
    <2>1. deletions' = [deletions EXCEPT ![d] = Idle]
      BY <1>1, <1>2, <1>9, MovedRecord
    <2>2. MovesOn(d, f, m, Idle, held)
      BY <1>1, <1>2, <1>5, <1>6, <1>7, <1>9, <2>1, PlacesOf DEF MovesOn
    <2> QED
      BY <1>1, <1>2, <2>2, MoveStepNoRow
  <1> QED
    BY <1>2, <1>8, <1>9

\* A deletion of a file with a live row begins; if another moves the file at
\* that time, they overlap.
LEMMA IsolateKeepsInv ==
  ASSUME StorageTypeOK, \A g \in Files : FileInv(g), NEW d \in Deletes, NEW f \in Files,
         Status(f) = "live", Isolate(d, f), UNCHANGED <<artifacts, attachmentVars>>
  PROVE  StorageTypeOK' /\ \A g \in Files : FileInv(g)'
  <1>1. PICK new : new = [file |-> f, move |-> "isolate", at |-> "head"]
    OBVIOUS
  <1>2. /\ new \in Moves /\ new # Idle /\ new.file = f /\ new.move = "isolate" /\ new.at = "head"
        /\ deletions' = [deletions EXCEPT ![d] = new] /\ deletions[d] = Idle
        /\ overlapped' = IF Moving(f) = {} THEN overlapped ELSE overlapped \cup {f}
        /\ StepOfRows /\ UNCHANGED <<objects, uploads, readers, permits, faults>>
    BY <1>1, IdleIs DEF Isolate, Moves, MovePlaces, StepOfRows, attachmentVars
  <1>3. DeletionFrame(f, d, new, objects[f])
    BY <1>2, ObjectsOf DEF DeletionFrame, StepOfRows, StorageTypeOK
  <1>4. /\ StorageTypeOK'
        /\ \A g \in Files \ {f} : FileInv(g)'
        /\ deletions'[d] = new /\ \A c \in Deletes \ {d} : deletions'[c] = deletions[c]
        /\ \A c \in Deletes \ {d} : c \in Moving(f)' <=> c \in Moving(f)
        /\ d \in Moving(f)'
    BY <1>2, <1>3, DeletionGoesOn
  <1>5. FileInv(f) /\ HasRow(f) /\ HasRow(f)' /\ Status(f)' = "live"
    BY <1>2, RowsSame DEF HasRow
  <1>6. f \notin unsure => uploads[f].at = "ended"
    BY <1>5 DEF FileInv, RowAfterObject
  <1>7. RowAfterObject(f)'
    BY <1>2, <1>5 DEF FileInv, RowAfterObject, StepOfRows
  <1>8. Moving(f)' \subseteq Deletes /\ (f \notin overlapped' => f \notin overlapped /\ Moving(f) = {})
    BY <1>2 DEF Moving
  <1>9. MovesAreSafe(f)'
    <2>1. ASSUME NEW c \in Moving(f)', c # d
          PROVE  /\ f \notin unsure' => uploads'[f].at = "ended"
                 /\ deletions'[c].move # "discard"
                 /\ f \in overlapped'
      <3>1. c \in Moving(f) /\ deletions'[c] = deletions[c]
        BY <1>4, <1>8, <2>1
      <3>2. ~(f \in Artifacts /\ artifacts[f] \in {"failed", "cleared"})
        BY <1>5 DEF HasRow, Status
      <3> QED
        BY <1>2, <1>5, <1>6, <1>8, <3>1, <3>2 DEF FileInv, MovesAreSafe, StepOfRows
    <2> QED
      BY <1>2, <1>4, <1>5, <1>6, <1>8, <2>1 DEF MovesAreSafe, StepOfRows
  <1>10. FilesMatch(f)'
    <2> SUFFICES ASSUME faults' = 0 PROVE FilesMatch(f)'
      BY DEF FilesMatch
    <2>1. f \notin unsure /\ Uploaded(f) /\ faults = 0
      BY <1>2, <1>5, UploadedNow
    <2>2. Uploaded(f)'
      BY <1>2, <1>5, <2>1 DEF Uploaded, StepOfRows
    <2>3. f \notin overlapped' => objects[f] = {"original"} /\ Moving(f)' = {d}
      BY <1>4, <1>5, <1>8, <2>1 DEF FileInv, FilesMatch
    <2>4. objects[f] = {"original"} => Placed(objects'[f], "isolate", "head")
      BY <1>2 DEF Placed, Source
    <2> QED
      BY <1>2, <1>4, <1>5, <2>1, <2>2, <2>3, <2>4 DEF FilesMatch, StepOfRows
  <1> QED
    BY <1>4, <1>7, <1>9, <1>10 DEF FileInv

\* The object of a failed artifact, which has no row to speak of, is discarded.
DiscardsOn(d, f, new, held) ==
  /\ f \in Artifacts /\ artifacts[f] \in {"failed", "cleared"} /\ artifacts'[f] \in {"failed", "cleared"}
  /\ new \in {Idle} \cup Discards
  /\ held \subseteq objects[f] /\ (held = objects[f] \/ deletions[d] # Idle)
  /\ UNCHANGED overlapped
  /\ DeletionFrame(f, d, new, held)

LEMMA DiscardStep ==
  ASSUME StorageTypeOK, \A g \in Files : FileInv(g), NEW d \in Deletes, NEW f, NEW new, NEW held,
         DiscardsOn(d, f, new, held)
  PROVE  StorageTypeOK' /\ \A g \in Files : FileInv(g)'
  <1>0. /\ f \in Files /\ f \in Artifacts /\ DeletionFrame(f, d, new, held) /\ held \subseteq objects[f]
        /\ artifacts[f] \in {"failed", "cleared"} /\ artifacts'[f] \in {"failed", "cleared"}
        /\ new \in {Idle} \cup Discards /\ UNCHANGED <<overlapped, uploads, unsure>>
    BY ObjectStoreAssumption DEF DiscardsOn, DeletionFrame
  <1>1. /\ StorageTypeOK'
        /\ \A g \in Files \ {f} : FileInv(g)'
        /\ objects'[f] = held /\ (faults' = 0 => faults' = faults)
        /\ deletions'[d] = new /\ \A c \in Deletes \ {d} : deletions'[c] = deletions[c]
        /\ \A c \in Deletes \ {d} : c \in Moving(f)' <=> c \in Moving(f)
        /\ d \in Moving(f)' <=> new # Idle
    BY <1>0, DeletionGoesOn
  <1>2. FileInv(f) /\ uploads[f].at = "ended" /\ ~HasRow(f) /\ ~HasRow(f)'
    BY <1>0 DEF FileInv, RowAfterObject, HasRow, Status
  <1>3. RowAfterObject(f)'
    BY <1>0, <1>1, <1>2 DEF RowAfterObject, BeforeRow
  <1>4. MovesAreSafe(f)'
    <2>1. ASSUME NEW c \in Moving(f)'
          PROVE  deletions'[c].move = "discard" /\ deletions'[c].at \in {"discard", "commit"}
      <3>1. CASE c = d
        BY <1>0, <1>1, <2>1, <3>1 DEF Discards
      <3>2. CASE c # d
        <4>1. c \in Deletes /\ c \in Moving(f) /\ deletions'[c] = deletions[c] /\ deletions[c] # Idle
          BY <1>1, <2>1, <3>2 DEF Moving
        <4>2. deletions[c].move = "discard"
          BY <1>2, <4>1 DEF FileInv, MovesAreSafe
        <4> QED
          BY <4>1, <4>2, DeletionFields
      <3> QED
        BY <3>1, <3>2
    <2> QED
      BY <1>0, <1>2, <2>1 DEF MovesAreSafe
  <1>5. FilesMatch(f)'
    <2> SUFFICES ASSUME faults' = 0 PROVE FilesMatch(f)'
      BY DEF FilesMatch
    <2>1. f \notin unsure /\ Uploaded(f)
      BY <1>0, <1>1, <1>2, UploadedNow
    <2>2. objects[f] = {} /\ held = {}
      BY <1>0, <1>2, <2>1 DEF Uploaded
    <2> QED
      BY <1>0, <1>1, <1>2, <2>1, <2>2 DEF FilesMatch, Uploaded
  <1> QED
    BY <1>1, <1>3, <1>4, <1>5 DEF FileInv

\* A step of the readers, the targets or the comments.
LEMMA FilesSame ==
  ASSUME StorageTypeOK, \A g \in Files : FileInv(g),
         UNCHANGED <<objects, uploads, deletions, overlapped, rows, artifacts, unsure>>,
         readers' \in [Readers -> {Idle} \cup [at : {"checked", "streaming"}, file : Files]],
         permits' \in Nat, faults' \in {faults, faults + 1}
  PROVE  StorageTypeOK' /\ \A g \in Files : FileInv(g)'
  <1>1. faults' \in Nat /\ (faults' = 0 => faults = 0)
    BY DEF StorageTypeOK
  <1>2. StorageTypeOK'
    BY <1>1 DEF StorageTypeOK, UploadsOK
  <1>3. ASSUME NEW g \in Files
        PROVE  FileInv(g)'
    <2>1. Status(g)' = Status(g) /\ Moving(g)' = Moving(g)
      BY DEF Status, Moving
    <2>2. SameFile(g)
      BY <2>1 DEF SameFile
    <2> QED
      BY <1>1, <2>2, SameFileKeepsInv
  <1> QED
    BY <1>2, <1>3

LEMMA ReadersKeepInv ==
  ASSUME StorageTypeOK, \A g \in Files : FileInv(g), NEW r \in Readers,
         UNCHANGED <<rows, artifacts, unsure>>,
         \/ OpenContent(r) \/ CloseContent(r)
         \/ \E f \in Files : BeginRead(r, f)
  PROVE  StorageTypeOK' /\ \A g \in Files : FileInv(g)'
  <1>1. readers[r] \in {Idle} \cup [at : {"checked", "streaming"}, file : Files]
    BY DEF StorageTypeOK
  <1>2. CASE OpenContent(r)
    <2>1. UNCHANGED <<objects, uploads, deletions, overlapped>> /\ readers[r].at = "checked"
      BY <1>2 DEF OpenContent
    <2>2. PICK new : new = [readers[r] EXCEPT !.at = "streaming"]
      OBVIOUS
    <2>3. new \in [at : {"checked", "streaming"}, file : Files]
      BY <1>1, <2>1, <2>2, IdleIs
    <2>4. readers' = [readers EXCEPT ![r] = new] \/ readers' = [readers EXCEPT ![r] = Idle]
      BY <1>2, <2>2 DEF OpenContent, StorageTypeOK
    <2>5. permits' \in Nat /\ faults' \in {faults, faults + 1}
      <3>1. permits \in Nat /\ (Backend[readers[r].file] = "s3" => permits > 0)
        BY <1>2 DEF OpenContent, StorageTypeOK
      <3>2. permits' \in {permits, permits - 1} /\ (permits' = permits \/ Backend[readers[r].file] = "s3")
        BY <1>2 DEF OpenContent
      <3> QED
        BY <1>2, <3>1, <3>2, FaultCounts DEF OpenContent
    <2>6. readers' \in [Readers -> {Idle} \cup [at : {"checked", "streaming"}, file : Files]]
      BY <2>3, <2>4 DEF StorageTypeOK
    <2> QED
      BY <2>1, <2>5, <2>6, FilesSame
  <1>3. CASE CloseContent(r)
    <2>1. UNCHANGED <<objects, uploads, deletions, overlapped, faults>>
      BY <1>3 DEF CloseContent
    <2>2. readers' = [readers EXCEPT ![r] = Idle] /\ permits' \in Nat
      BY <1>3 DEF CloseContent, StorageTypeOK
    <2>3. readers' \in [Readers -> {Idle} \cup [at : {"checked", "streaming"}, file : Files]]
      BY <2>2 DEF StorageTypeOK
    <2> QED
      BY <2>1, <2>2, <2>3, FilesSame
  <1>4. CASE \E f \in Files : BeginRead(r, f)
    <2>1. PICK f \in Files : BeginRead(r, f)
      BY <1>4
    <2>2. readers' \in [Readers -> {Idle} \cup [at : {"checked", "streaming"}, file : Files]]
      BY <2>1 DEF BeginRead, StorageTypeOK
    <2>3. UNCHANGED <<objects, uploads, deletions, overlapped, faults>> /\ permits' \in Nat
      BY <2>1 DEF BeginRead, StorageTypeOK
    <2> QED
      BY <2>2, <2>3, FilesSame
  <1> QED
    BY <1>2, <1>3, <1>4

LEMMA CrashKeepsInv ==
  ASSUME StorageTypeOK, \A g \in Files : FileInv(g), Crash, UNCHANGED <<artifacts, attachmentVars>>
  PROVE  StorageTypeOK' /\ \A g \in Files : FileInv(g)'
  <1>1. /\ StepOfRows /\ UNCHANGED <<objects, overlapped>> /\ permits' \in Nat
        /\ deletions' = [d \in Deletes |-> Idle] /\ readers' = [r \in Readers |-> Idle]
        /\ faults' \in Nat /\ faults' # 0
    BY ObjectStoreAssumption, FaultCounts DEF Crash, StepOfRows, attachmentVars, StorageTypeOK
  <1>2. ASSUME NEW f \in Files
        PROVE  /\ uploads'[f] \in [at : UploadPlaces] \cup AttachedUploads
               /\ f \in Attached /\ uploads'[f].at # "idle" => uploads'[f] \in AttachedUploads
               /\ uploads'[f].at = IF uploads[f].at = "idle" THEN "idle" ELSE "ended"
    <2>1. uploads'[f] = IF uploads[f] = Idle THEN Idle ELSE [uploads[f] EXCEPT !.at = "ended"]
      BY DEF Crash
    <2>2. CASE uploads[f].at = "idle"
      BY <2>1, <2>2, IdleUpload, IdleIs, UploadFields
    <2>3. CASE uploads[f].at # "idle"
      <3>1. PICK u : u = [uploads[f] EXCEPT !.at = "ended"]
        OBVIOUS
      <3>2. /\ u.at = "ended" /\ u \in [at : UploadPlaces] \cup AttachedUploads
            /\ f \in Attached => u \in AttachedUploads
        BY <2>3, <3>1, UploadFields DEF AttachedUploads, UploadPlaces, StorageTypeOK, UploadsOK
      <3>3. uploads'[f] = u
        BY <2>1, <2>3, <3>1, IdleIs
      <3> QED
        BY <2>3, <3>2, <3>3
    <2> QED
      BY <2>2, <2>3
  <1>3. UploadsOK'
    <2>1. uploads' = [f \in Files |-> uploads'[f]]
      BY DEF Crash
    <2> QED
      BY <1>2, <2>1 DEF UploadsOK, Attached
  <1>4. StorageTypeOK'
    BY <1>1, <1>3 DEF StorageTypeOK, StepOfRows
  <1>5. ASSUME NEW f \in Files
        PROVE  FileInv(f)'
    <2>1. FileInv(f) /\ HasRow(f)' = HasRow(f) /\ Moving(f)' = {}
      BY <1>1, RowsSame DEF Moving
    <2>2. RowAfterObject(f)'
      BY <1>1, <1>2, <2>1 DEF FileInv, RowAfterObject, BeforeRow, StepOfRows
    <2>3. MovesAreSafe(f)' /\ FilesMatch(f)'
      BY <1>1, <2>1 DEF MovesAreSafe, FilesMatch
    <2> QED
      BY <2>2, <2>3 DEF FileInv
  <1> QED
    BY <1>4, <1>5

\* The row of an isolated file is marked as deleted, or the file goes back.
CommitsOn(d, f, new) ==
  /\ f = deletions[d].file /\ deletions[d].at = "commit"
  /\ UNCHANGED <<objects, uploads, unsure, readers, permits, overlapped>>
  /\ deletions' = [deletions EXCEPT ![d] = new]
  /\ rows' \in [Attached -> RowRecords]
  /\ artifacts' \in [Artifacts -> ArtifactStatuses]
  /\ \A g \in Files \ {f} : /\ g \in Attached => rows'[g] = rows[g]
                            /\ g \in Artifacts => artifacts'[g] = artifacts[g]
  /\ \/ new = Idle /\ Status(f)' = "deleted" /\ UNCHANGED faults
     \/ /\ new \in Moves /\ new # Idle /\ new.file = f /\ new.move = "restore" /\ new.at = "head"
        /\ \/ Status(f)' = Status(f) /\ UNCHANGED faults
           \/ Status(f)' \in {"live", "deleted"} /\ Fault

LEMMA CommitStep ==
  ASSUME StorageTypeOK, \A g \in Files : FileInv(g), NEW d \in Deletes, deletions[d] # Idle,
         deletions[d].move # "discard", NEW f, NEW new, CommitsOn(d, f, new)
  PROVE  StorageTypeOK' /\ \A g \in Files : FileInv(g)'
  <1> USE DEF CommitsOn
  <1>1. /\ f \in Files /\ d \in Moving(f) /\ HasRow(f)
        /\ f \notin unsure \cup overlapped => objects[f] \cap {"original", "isolated"} # {}
        /\ faults = 0 /\ f \notin overlapped =>
             Status(f) = "live" /\ Placed(objects[f], deletions[d].move, "commit")
    BY MoveNow
  <1>2. HasRow(f)'
    BY <1>1 DEF HasRow
  <1>3. faults' \in {faults, faults + 1} /\ (faults' = 0 => faults = 0 /\ faults' = faults /\ ~Fault)
    BY FaultCounts DEF StorageTypeOK
  <1>4. f \notin unsure \cup overlapped /\ faults' = 0 =>
          IF new = Idle THEN objects[f] = IF Status(f)' = "live" THEN {"original"} ELSE {"isolated"}
          ELSE Status(f)' = "live" /\ Placed(objects[f], new.move, new.at)
    <2> SUFFICES ASSUME f \notin unsure \cup overlapped, faults' = 0
                 PROVE  IF new = Idle THEN objects[f] = IF Status(f)' = "live" THEN {"original"} ELSE {"isolated"}
                        ELSE Status(f)' = "live" /\ Placed(objects[f], new.move, new.at)
      OBVIOUS
    <2>1. objects[f] = {"isolated"} /\ Status(f) = "live"
      BY <1>1, <1>3 DEF Placed
    <2> QED
      BY <1>3, <2>1 DEF Placed, Source
  <1>5. permits' \in Nat /\ objects[f] \in SUBSET {"parts", "original", "isolated"}
        /\ objects' = [objects EXCEPT ![f] = objects[f]]
    BY <1>1, ObjectsOf DEF StorageTypeOK
  <1>6. new \in {Idle} \cup Moves /\ (new # Idle => new.file = f /\ new.at = "head")
    OBVIOUS
  <1>7. /\ UNCHANGED <<uploads, unsure, readers, overlapped>>
        /\ deletions' = [deletions EXCEPT ![d] = new]
        /\ rows' \in [Attached -> RowRecords]
        /\ artifacts' \in [Artifacts -> ArtifactStatuses]
        /\ \A g \in Files \ {f} : /\ g \in Attached => rows'[g] = rows[g]
                                  /\ g \in Artifacts => artifacts'[g] = artifacts[g]
    OBVIOUS
  <1>8. f \notin unsure \cup overlapped =>
          /\ objects[f] \cap {"original", "isolated"} # {}
          /\ new # Idle =>
               /\ new.at \in {"copy", "verify", "undo", "drop"} => Source(new.move) \in objects[f]
               /\ new.at = "drop" => Copied(new.move) \in objects[f]
    BY <1>1, <1>6
  <1> HIDE DEF CommitsOn
  <1> QED
    BY <1>1, <1>2, <1>3, <1>4, <1>5, <1>6, <1>7, <1>8, MoveStep

LEMMA CommitDeleteKeepsInv ==
  ASSUME StorageTypeOK, \A g \in Files : FileInv(g), NEW d \in Deletes,
         CommitDelete(d), UNCHANGED artifacts
  PROVE  StorageTypeOK' /\ \A g \in Files : FileInv(g)'
  <1>1. PICK f : f = deletions[d].file
    OBVIOUS
  <1>2. /\ deletions[d].at = "commit" /\ f \in Attached
        /\ UNCHANGED <<objects, uploads, readers, permits, unsure, overlapped>>
    BY <1>1 DEF CommitDelete
  <1>3. deletions[d] # Idle /\ deletions[d].move # "discard" /\ f \in Files /\ f \notin Artifacts
    BY <1>1, <1>2, IdleIs, DeletionFields DEF Attached
  <1>4. HasRow(f) /\ Status(f) = rows[f].status
    BY <1>1, <1>3, MoveNow DEF Status
  <1>5. PICK deleted : deleted = [rows EXCEPT ![f].status = "deleted"]
    OBVIOUS
  <1>6. /\ deleted \in [Attached -> RowRecords] /\ deleted[f].status = "deleted"
        /\ \A g \in Attached \ {f} : deleted[g] = rows[g]
    <2>1. PICK row : row = [rows[f] EXCEPT !.status = "deleted"]
      OBVIOUS
    <2>2. rows[f] \in [status : {"live", "deleted"}, target : Targets, comment : Comments \cup {"none"}]
      BY <1>2, <1>4 DEF StorageTypeOK, RowRecords, HasRow, NoRow
    <2>3. row \in RowRecords /\ row.status = "deleted"
      BY <2>1, <2>2 DEF RowRecords
    <2>4. deleted = [rows EXCEPT ![f] = row]
      BY <1>5, <2>1
    <2> QED
      BY <1>2, <2>3, <2>4 DEF StorageTypeOK
  <1>7. rows \in [Attached -> RowRecords]
        /\ artifacts' \in [Artifacts -> ArtifactStatuses]
    BY DEF StorageTypeOK
  <1>8. \/ deletions' = [deletions EXCEPT ![d] = Idle] /\ rows' = deleted /\ UNCHANGED faults
        \/ Restore(d) /\ UNCHANGED <<rows, faults>>
        \/ Restore(d) /\ Fault /\ rows' \in {rows, deleted}
    BY <1>1, <1>5 DEF CommitDelete
  <1>9. CASE deletions' = [deletions EXCEPT ![d] = Idle] /\ rows' = deleted /\ UNCHANGED faults
    <2>1. Status(f)' = "deleted"
      BY <1>3, <1>6, <1>9 DEF Status
    <2>2. CommitsOn(d, f, Idle)
      BY <1>1, <1>2, <1>3, <1>6, <1>7, <1>9, <2>1 DEF CommitsOn, Attached
    <2> QED
      BY <1>3, <2>2, CommitStep
  <1>10. CASE Restore(d) /\ (UNCHANGED <<rows, faults>> \/ (Fault /\ rows' \in {rows, deleted}))
    <2>1. PICK new \in Moves : /\ new # Idle /\ new.file = f
                               /\ new.move = "restore" /\ new.at = "head"
                               /\ deletions' = [deletions EXCEPT ![d] = new]
      BY <1>1, <1>3, <1>10, RestoredRecord
    <2>2. Status(f)' = rows'[f].status
      BY <1>3 DEF Status
    <2>3. \/ Status(f)' = Status(f) /\ UNCHANGED faults
          \/ Status(f)' \in {"live", "deleted"} /\ Fault
      BY <1>4, <1>6, <1>10, <2>2 DEF HasRow
    <2>4. rows' \in [Attached -> RowRecords] /\ \A g \in Attached \ {f} : rows'[g] = rows[g]
      BY <1>6, <1>7, <1>10
    <2>5. CommitsOn(d, f, new)
      BY <1>1, <1>2, <1>7, <2>1, <2>3, <2>4 DEF CommitsOn, Attached
    <2> QED
      BY <1>3, <2>5, CommitStep
  <1> QED
    BY <1>8, <1>9, <1>10

LEMMA MarkDeletedKeepsInv ==
  ASSUME StorageTypeOK, \A g \in Files : FileInv(g), NEW d \in Deletes, MarkDeleted(d)
  PROVE  StorageTypeOK' /\ \A g \in Files : FileInv(g)'
  <1>1. PICK f : f = deletions[d].file
    OBVIOUS
  <1>2. /\ deletions[d].at = "commit" /\ f \in Artifacts /\ f \in Files /\ f \notin Attached
        /\ UNCHANGED <<rows, unsure, objects, uploads, readers, permits, overlapped>>
        /\ deletions[d] # Idle
    BY <1>1, IdleIs, ObjectStoreAssumption DEF MarkDeleted, attachmentVars, Attached
  <1>3. \A status \in {"deleted", "cleared"} :
          Mark(f, status) =>
            /\ artifacts' \in [Artifacts -> ArtifactStatuses]
            /\ artifacts'[f] = status /\ \A g \in Artifacts \ {f} : artifacts'[g] = artifacts[g]
    BY <1>2 DEF Mark, StorageTypeOK
  <1>4. rows \in [Attached -> RowRecords]
        /\ artifacts \in [Artifacts -> ArtifactStatuses]
    BY DEF StorageTypeOK
  <1>5. CASE deletions[d].move # "discard"
    <2>1. HasRow(f) /\ artifacts[f] \in {"ready", "deleted"}
          /\ deletions[d].move \in {"isolate", "restore"}
      BY <1>1, <1>2, <1>5, MoveNow DEF HasRow, Status
    <2>2. \/ /\ deletions' = [deletions EXCEPT ![d] = Idle] /\ UNCHANGED faults
             /\ Mark(f, "deleted") \/ (artifacts[f] = "deleted" /\ UNCHANGED artifacts)
          \/ Restore(d) /\ Fault /\ (UNCHANGED artifacts \/ Mark(f, "deleted"))
      <3>1. \E kept, taken \in {"ready", "deleted", "failed", "cleared"} :
              /\ IF deletions[d].move = "isolate" THEN kept = "ready" /\ taken = "deleted"
                 ELSE kept = "failed" /\ taken = "cleared"
              /\ \/ /\ artifacts[f] = kept /\ Mark(f, taken)
                    /\ deletions' = [deletions EXCEPT ![d] = Idle] /\ UNCHANGED faults
                 \/ /\ artifacts[f] = taken /\ UNCHANGED <<artifacts, faults>>
                    /\ deletions' = [deletions EXCEPT ![d] = Idle]
                 \/ /\ artifacts[f] \in {kept, taken} /\ Fault
                    /\ deletions[d].move = "isolate" => Restore(d)
                    /\ UNCHANGED artifacts \/ Mark(f, taken)
        <4>1. CASE deletions[d].move = "isolate"
          BY <1>1, <4>1 DEF MarkDeleted
        <4>2. CASE deletions[d].move # "isolate"
          BY <1>1, <4>2 DEF MarkDeleted
        <4> QED
          BY <4>1, <4>2
      <3> QED
        BY <2>1, <3>1
    <2>3. CASE /\ deletions' = [deletions EXCEPT ![d] = Idle] /\ UNCHANGED faults
               /\ Mark(f, "deleted") \/ (artifacts[f] = "deleted" /\ UNCHANGED artifacts)
      <3>1. /\ Status(f)' = "deleted"
            /\ artifacts' \in [Artifacts -> ArtifactStatuses]
            /\ \A g \in Artifacts \ {f} : artifacts'[g] = artifacts[g]
        BY <1>2, <1>3, <1>4, <2>3 DEF Status
      <3>2. CommitsOn(d, f, Idle)
        BY <1>1, <1>2, <1>4, <2>3, <3>1 DEF CommitsOn
      <3> QED
        BY <1>2, <1>5, <3>2, CommitStep
    <2>4. CASE Restore(d) /\ Fault /\ (UNCHANGED artifacts \/ Mark(f, "deleted"))
      <3>1. PICK new \in Moves : /\ new # Idle /\ new.file = f
                                 /\ new.move = "restore" /\ new.at = "head"
                                 /\ deletions' = [deletions EXCEPT ![d] = new]
        BY <1>1, <1>2, <1>5, <2>4, RestoredRecord
      <3>2. /\ Status(f)' \in {"live", "deleted"}
            /\ artifacts' \in [Artifacts -> ArtifactStatuses]
            /\ \A g \in Artifacts \ {f} : artifacts'[g] = artifacts[g]
        BY <1>2, <1>3, <1>4, <2>1, <2>4 DEF Status
      <3>3. CommitsOn(d, f, new)
        BY <1>1, <1>2, <1>4, <2>4, <3>1, <3>2 DEF CommitsOn
      <3> QED
        BY <1>2, <1>5, <3>3, CommitStep
    <2> QED
      BY <2>2, <2>3, <2>4
  <1>6. CASE deletions[d].move = "discard"
    <2>1. d \in Moving(f) /\ artifacts[f] \in {"failed", "cleared"}
      <3>1. d \in Moving(f)
        BY <1>1, <1>2 DEF Moving
      <3> QED
        BY <1>2, <1>6, <3>1 DEF FileInv, MovesAreSafe
    <2>2. /\ deletions' = [deletions EXCEPT ![d] = Idle] /\ (UNCHANGED faults \/ Fault)
          /\ UNCHANGED artifacts \/ Mark(f, "cleared")
      BY <1>1, <1>6 DEF MarkDeleted
    <2>3. /\ artifacts' \in [Artifacts -> ArtifactStatuses]
          /\ artifacts'[f] \in {"failed", "cleared"} /\ \A g \in Artifacts \ {f} : artifacts'[g] = artifacts[g]
      BY <1>3, <1>4, <2>1, <2>2
    <2>4. DeletionFrame(f, d, Idle, objects[f])
      <3>1. faults' \in {faults, faults + 1} /\ permits' \in Nat
        BY <1>2, <2>2, FaultCounts DEF StorageTypeOK
      <3> QED
        BY <1>1, <1>2, <1>4, <2>2, <2>3, <3>1, ObjectsOf DEF DeletionFrame
    <2>5. DiscardsOn(d, f, Idle, objects[f])
      BY <1>2, <2>1, <2>3, <2>4 DEF DiscardsOn
    <2> QED
      BY <2>5, DiscardStep
  <1> QED
    BY <1>5, <1>6

LEMMA DiscardFailedKeepsInv ==
  ASSUME StorageTypeOK, \A g \in Files : FileInv(g), NEW d \in Deletes, DiscardFailed(d)
  PROVE  StorageTypeOK' /\ \A g \in Files : FileInv(g)'
  <1>1. PICK f : f = deletions[d].file
    OBVIOUS
  <1>2. /\ deletions[d].at = "discard" /\ deletions[d] # Idle
        /\ UNCHANGED <<rows, artifacts, unsure, uploads, readers, permits, overlapped>>
    BY IdleIs DEF DiscardFailed, attachmentVars
  <1>3. deletions[d] \in Discards /\ f \in Artifacts /\ f \in Files /\ deletions[d].move = "discard"
    BY <1>1, <1>2, DeletionFields DEF MovePlaces
  <1>4. d \in Moving(f) /\ artifacts[f] \in {"failed", "cleared"}
    <2>1. d \in Moving(f)
      BY <1>1, <1>2 DEF Moving
    <2> QED
      BY <1>3, <2>1 DEF FileInv, MovesAreSafe
  <1>5. PICK new : new = [deletions[d] EXCEPT !.at = "commit"]
    OBVIOUS
  <1>6. new \in Discards /\ new.file = f
    BY <1>1, <1>3, <1>5 DEF Discards
  <1>7. PICK left : left = [objects EXCEPT ![f] = @ \ {"original"}]
    OBVIOUS
  <1>8. left = [objects EXCEPT ![f] = objects[f] \ {"original"}]
    BY <1>7
  <1>9. PICK next \in {Idle, new} :
          /\ deletions' = [deletions EXCEPT ![d] = next]
          /\ objects' \in {objects, left} /\ (UNCHANGED faults \/ Fault)
    <2>1. DeletionAt(d, "commit") => deletions' = [deletions EXCEPT ![d] = new]
      BY <1>5 DEF DeletionAt
    <2> QED
      BY <1>1, <1>7, <2>1 DEF DiscardFailed
  <1>10. PICK held \in {objects[f], objects[f] \ {"original"}} :
           objects' = [objects EXCEPT ![f] = held]
    BY <1>3, <1>8, <1>9, ObjectsOf
  <1>11. held \subseteq objects[f] /\ held \in SUBSET {"parts", "original", "isolated"}
    BY <1>3, <1>10, ObjectsOf
  <1>12. DeletionFrame(f, d, next, held)
    <2>1. faults' \in {faults, faults + 1} /\ permits' \in Nat
      BY <1>2, <1>9, FaultCounts DEF StorageTypeOK
    <2>2. rows' \in [Attached -> RowRecords]
          /\ artifacts' \in [Artifacts -> ArtifactStatuses]
      BY <1>2 DEF StorageTypeOK
    <2> QED
      BY <1>1, <1>2, <1>6, <1>9, <1>10, <1>11, <2>1, <2>2 DEF DeletionFrame
  <1>13. DiscardsOn(d, f, next, held)
    BY <1>2, <1>3, <1>4, <1>6, <1>9, <1>11, <1>12 DEF DiscardsOn
  <1> QED
    BY <1>13, DiscardStep

LEMMA BeginDeleteArtifactKeepsInv ==
  ASSUME StorageTypeOK, \A g \in Files : FileInv(g), NEW d \in Deletes, NEW f \in Artifacts,
         BeginDeleteArtifact(d, f)
  PROVE  StorageTypeOK' /\ \A g \in Files : FileInv(g)'
  <1>1. f \in Files /\ UNCHANGED <<artifacts, attachmentVars>>
    BY ObjectStoreAssumption DEF BeginDeleteArtifact
  <1>2. CASE artifacts[f] = "ready" /\ Isolate(d, f)
    <2>1. Status(f) = "live"
      BY <1>2 DEF Status
    <2> QED
      BY <1>1, <1>2, <2>1, IsolateKeepsInv
  <1>3. CASE /\ artifacts[f] = "failed" /\ deletions[d] = Idle
             /\ deletions' = [deletions EXCEPT ![d] = [file |-> f, move |-> "discard", at |-> "discard"]]
             /\ UNCHANGED <<objects, uploads, readers, permits, overlapped, faults>>
    <2>1. PICK new : new = [file |-> f, move |-> "discard", at |-> "discard"]
      OBVIOUS
    <2>2. new \in Discards /\ new.file = f /\ deletions' = [deletions EXCEPT ![d] = new]
      BY <1>3, <2>1 DEF Discards
    <2>3. UNCHANGED <<rows, unsure>> /\ permits' \in Nat /\ faults' \in {faults, faults + 1}
          /\ rows' \in [Attached -> RowRecords]
          /\ artifacts' \in [Artifacts -> ArtifactStatuses]
      BY <1>1, <1>3 DEF StorageTypeOK, attachmentVars
    <2>4. DeletionFrame(f, d, new, objects[f])
      BY <1>1, <1>3, <2>2, <2>3, ObjectsOf DEF DeletionFrame
    <2>5. DiscardsOn(d, f, new, objects[f])
      BY <1>1, <1>3, <2>2, <2>4 DEF DiscardsOn
    <2> QED
      BY <2>5, DiscardStep
  <1> QED
    BY <1>2, <1>3 DEF BeginDeleteArtifact

-----------------------------------------------------------------------------
(* Every step, of the rows and objects.                                    *)

LEMMA UploadsKeepInv ==
  ASSUME StorageTypeOK, \A g \in Files : FileInv(g), NEW f \in Files,
         Stage(f) \/ CreateMultipart(f) \/ CompleteMultipart(f) \/ VerifyUpload(f) \/ Cleanup(f),
         UNCHANGED <<artifacts, attachmentVars>>
  PROVE  StorageTypeOK' /\ \A g \in Files : FileInv(g)'
  <1>1. objects[f] \in SUBSET {"parts", "original", "isolated"}
    BY ObjectsOf
  <1>2. PICK all : all = SUBSET {"parts", "original", "isolated"}
    OBVIOUS
  <1>3. /\ objects[f] \in all /\ objects[f] \cup {"parts"} \in all
        /\ (objects[f] \ {"parts"}) \cup {"original"} \in all
    BY <1>1, <1>2
  <1>4. CASE CreateMultipart(f)
    BY <1>2, <1>3, <1>4, UploadRequestKeepsInv DEF CreateMultipart
  <1>5. CASE CompleteMultipart(f)
    BY <1>2, <1>3, <1>5, UploadRequestKeepsInv DEF CompleteMultipart
  <1>6. CASE VerifyUpload(f)
    BY <1>2, <1>3, <1>6, UploadRequestKeepsInv DEF VerifyUpload
  <1> QED
    BY <1>4, <1>5, <1>6, StageKeepsInv, CleanupKeepsInv

LEMMA StoreKeepsInv ==
  ASSUME StorageTypeOK, \A g \in Files : FileInv(g), StoreNext, UNCHANGED <<artifacts, attachmentVars>>
  PROVE  StorageTypeOK' /\ \A g \in Files : FileInv(g)'
  <1>1. ASSUME NEW f \in Files,
               Stage(f) \/ CreateMultipart(f) \/ CompleteMultipart(f) \/ VerifyUpload(f) \/ Cleanup(f)
        PROVE  StorageTypeOK' /\ \A g \in Files : FileInv(g)'
    BY <1>1, UploadsKeepInv
  <1>2. ASSUME NEW d \in Deletes,
               MoveFile(d) \/ HeadSource(d) \/ CopyObject(d) \/ VerifyCopy(d) \/ UndoCopy(d) \/ DropSource(d)
        PROVE  StorageTypeOK' /\ \A g \in Files : FileInv(g)'
    BY <1>2, MoveFileKeepsInv, HeadSourceKeepsInv, CopyObjectKeepsInv, VerifyCopyKeepsInv,
       UndoCopyKeepsInv, DropSourceKeepsInv
  <1>3. ASSUME NEW r \in Readers, OpenContent(r) \/ CloseContent(r)
        PROVE  StorageTypeOK' /\ \A g \in Files : FileInv(g)'
    BY <1>3, ReadersKeepInv DEF attachmentVars
  <1> QED
    BY <1>1, <1>2, <1>3, CrashKeepsInv DEF StoreNext

LEMMA AttachmentsKeepInv ==
  ASSUME StorageTypeOK, \A g \in Files : FileInv(g), AttachmentsNext, UNCHANGED artifacts
  PROVE  StorageTypeOK' /\ \A g \in Files : FileInv(g)'
  <1>1. CASE UNCHANGED <<rows, unsure, storeVars>>
    BY <1>1, FilesSame DEF storeVars, StorageTypeOK
  <1>2. ASSUME NEW t \in Targets, NEW status, TargetChanges(t, status)
        PROVE  UNCHANGED <<rows, unsure, storeVars>>
    BY <1>2 DEF TargetChanges
  <1>3. ASSUME NEW t, NEW k, NEW parent, CreateComment(k, t, parent) \/ EditComment(k) \/ DeleteComment(k)
        PROVE  UNCHANGED <<rows, unsure, storeVars>>
    BY <1>3 DEF CreateComment, EditComment, DeleteComment, CommentStep
  <1>4. ASSUME NEW t \in Targets, NEW f \in Attached, NEW k \in Comments \cup {"none"}, BeginUpload(f, t, k)
        PROVE  StorageTypeOK' /\ \A g \in Files : FileInv(g)'
    BY <1>4, BeginUploadKeepsInv
  <1>5. ASSUME NEW d \in Deletes, NEW f \in Attached, BeginDelete(d, f)
        PROVE  StorageTypeOK' /\ \A g \in Files : FileInv(g)'
    <2>1. f \in Files /\ Status(f) = "live" /\ Isolate(d, f) /\ UNCHANGED attachmentVars
      BY <1>5 DEF BeginDelete, Attached, Status
    <2> QED
      BY <2>1, IsolateKeepsInv
  <1>6. ASSUME NEW r \in Readers, NEW f \in Attached, CheckRow(r, f)
        PROVE  StorageTypeOK' /\ \A g \in Files : FileInv(g)'
    <2>1. f \in Files /\ BeginRead(r, f) /\ UNCHANGED <<rows, unsure>>
      BY <1>6 DEF CheckRow, Attached, attachmentVars
    <2> QED
      BY <2>1, ReadersKeepInv
  <1> QED
    BY <1>1, <1>2, <1>3, <1>4, <1>5, <1>6, InsertRowKeepsInv, CommitDeleteKeepsInv DEF AttachmentsNext

LEMMA StorageNextInv ==
  ASSUME StorageTypeOK, \A g \in Files : FileInv(g), [ArtifactsNext]_artifactVars
  PROVE  StorageTypeOK' /\ \A g \in Files : FileInv(g)'
  <1>1. CASE UNCHANGED artifactVars
    BY <1>1, FilesSame DEF artifactVars, storeVars, attachmentVars, StorageTypeOK
  <1>2. CASE ArtifactsNext
    <2>1. ASSUME NEW r \in Readers, NEW f \in Artifacts, CheckArtifact(r, f)
          PROVE  StorageTypeOK' /\ \A g \in Files : FileInv(g)'
      <3>1. f \in Files /\ BeginRead(r, f) /\ UNCHANGED <<rows, artifacts, unsure>>
        BY <2>1, ObjectStoreAssumption DEF CheckArtifact, attachmentVars
      <3> QED
        BY <3>1, ReadersKeepInv
    <2> QED
      BY <1>2, <2>1, StoreKeepsInv, AttachmentsKeepInv, CreatePendingKeepsInv, FinalizeReadyKeepsInv,
         MarkFailedKeepsInv, BeginDeleteArtifactKeepsInv, DiscardFailedKeepsInv, MarkDeletedKeepsInv
      DEF ArtifactsNext
  <1> QED
    BY <1>1, <1>2

\* The invariant of the storage and the tables, for any number of files,
\* requests and faults.
THEOREM StorageInvariance == ArtifactsSpec => [](StorageTypeOK /\ \A f \in Files : FileInv(f))
  <1>1. (StorageTypeOK /\ \A f \in Files : FileInv(f)) /\ [ArtifactsNext]_artifactVars
          => (StorageTypeOK /\ \A f \in Files : FileInv(f))'
    BY StorageNextInv
  <1> QED
    BY <1>1, StorageInitInv, PTL DEF ArtifactsSpec

\* The content of a row is at one of its two places, whatever fails: save and
\* delete of the storages, and what AttachmentService and ArtifactService do
\* when a row cannot be written.
THEOREM ContentKept == ArtifactsSpec => []ContentIsKept
  <1>1. StorageTypeOK /\ (\A f \in Files : FileInv(f)) => ContentIsKept
    BY DEF FileInv, RowAfterObject, HasRow, ContentIsKept
  <1> QED
    BY <1>1, StorageInvariance, PTL

\* Without faults the storage holds what the tables say, once nothing moves.
THEOREM StorageMatches == ArtifactsSpec => []StorageMatchesRows
  <1>1. ASSUME StorageTypeOK, \A f \in Files : FileInv(f)
        PROVE  StorageMatchesRows
    <2> SUFFICES ASSUME NEW f \in Files \ overlapped, faults = 0, Moving(f) = {},
                        uploads[f].at \in {"idle", "ended"}
                 PROVE  /\ Status(f) # "pending"
                        /\ objects[f] = IF Status(f) = "live" THEN {"original"}
                                        ELSE IF Status(f) = "deleted" THEN {"isolated"} ELSE {}
      BY DEF StorageMatchesRows
    <2>1. f \notin unsure /\ Uploaded(f) /\ RowAfterObject(f)
      BY <1>1, UploadedNow DEF FileInv
    <2>2. Status(f) # "pending"
      <3>1. CASE f \in Artifacts
        BY <2>1, <3>1 DEF Uploaded, Status
      <3>2. CASE f \notin Artifacts
        BY <1>1, <3>2 DEF Status, StorageTypeOK, RowRecords, Attached, NoRow
      <3> QED
        BY <3>1, <3>2
    <2>3. CASE HasRow(f)
      BY <1>1, <2>2, <2>3 DEF FileInv, FilesMatch, HasRow
    <2>4. CASE ~HasRow(f)
      BY <2>1, <2>2, <2>4 DEF Uploaded, HasRow
    <2> QED
      BY <2>2, <2>3, <2>4
  <1> QED
    BY <1>1, StorageInvariance, PTL

\* A row is written under the lock while its target and comment allow it, and
\* a deleted row is final: _validate_create_target after the upload, and the
\* deletion that finds its row deleted.
THEOREM RowsLinkedWhenAllowed == ArtifactsSpec => LinkedWhenAllowed
  <1>1. ASSUME StorageTypeOK, \A g \in Files : FileInv(g), [ArtifactsNext]_artifactVars,
               NEW f \in Attached
        PROVE  /\ rows[f].status = "absent" /\ rows'[f].status # "absent" =>
                    /\ targets[rows'[f].target] = "active"
                    /\ rows'[f].comment \in Comments =>
                         comments[rows'[f].comment].status # "deleted"
               /\ rows[f].status = "deleted" => rows'[f] = rows[f]
    <2>0. f \in Files /\ f \notin Artifacts /\ rows \in [Attached -> RowRecords]
      BY <1>1 DEF Attached, StorageTypeOK
    <2>1. CASE rows' = rows
      BY <2>1
    <2>2. ASSUME NEW g \in Attached, InsertRow(g), rows' # rows
          PROVE  f # g => rows'[f] = rows[f]
      BY <2>0, <2>2 DEF InsertRow
    <2>3. ASSUME InsertRow(f), rows' # rows
          PROVE  /\ targets[rows'[f].target] = "active" /\ rows[f].status = "absent"
                 /\ rows'[f].comment \in Comments => comments[rows'[f].comment].status # "deleted"
      <3>1. /\ rows' = [rows EXCEPT ![f] = [status |-> "live", target |-> uploads[f].target,
                                            comment |-> uploads[f].comment]]
            /\ MayAttach(uploads[f].target, uploads[f].comment) /\ uploads[f].at = "stored"
        BY <2>3 DEF InsertRow
      <3>2. rows'[f].target = uploads[f].target /\ rows'[f].comment = uploads[f].comment
        BY <2>0, <3>1
      <3>3. ~HasRow(f)
        <4>1. FileInv(f) /\ f \notin unsure
          BY <1>1, <2>0, <3>1 DEF FileInv, RowAfterObject, BeforeRow
        <4> QED
          BY <2>0, <3>1, <4>1, UploadingFile
      <3>4. rows[f].status = "absent"
        BY <2>0, <3>3 DEF HasRow, Status, RowRecords, NoRow
      <3> QED
        BY <3>1, <3>2, <3>4 DEF MayAttach
    <2>4. ASSUME NEW d \in Deletes, CommitDelete(d), rows' # rows
          PROVE  \/ rows[f].status # "absent" /\ (rows[f].status = "deleted" => rows'[f] = rows[f])
                 \/ rows'[f] = rows[f]
      <3>1. PICK g : g = deletions[d].file
        OBVIOUS
      <3>2. /\ deletions[d].at = "commit" /\ g \in Attached
            /\ rows' = [rows EXCEPT ![g].status = "deleted"]
        BY <2>4, <3>1 DEF CommitDelete
      <3>3. deletions[d] # Idle /\ deletions[d].move # "discard" /\ g \in Files /\ g \notin Artifacts
        BY <1>1, <3>1, <3>2, IdleIs, DeletionFields DEF Attached
      <3>4. rows[g].status \in {"live", "deleted"}
        BY <1>1, <3>1, <3>3, MoveNow DEF HasRow, Status
      <3>5. rows[g] \in [status : {"live", "deleted"}, target : Targets, comment : Comments \cup {"none"}]
        BY <2>0, <3>2, <3>4 DEF RowRecords, NoRow
      <3>6. PICK row : row = [rows[g] EXCEPT !.status = "deleted"]
        OBVIOUS
      <3>7. rows' = [rows EXCEPT ![g] = row] /\ (rows[g].status = "deleted" => row = rows[g])
        BY <3>2, <3>5, <3>6
      <3> QED
        BY <2>0, <3>2, <3>4, <3>7
    <2>5. \/ rows' = rows
          \/ \E g \in Attached : InsertRow(g)
          \/ \E d \in Deletes : CommitDelete(d)
      <3>1. ASSUME ArtifactsNext, rows' # rows
            PROVE  AttachmentsNext
        BY <3>1
        DEF ArtifactsNext, attachmentVars, CreatePending, FinalizeReady, MarkFailed, BeginDeleteArtifact,
            DiscardFailed, MarkDeleted, CheckArtifact
      <3>2. ASSUME AttachmentsNext, rows' # rows
            PROVE  (\E g \in Attached : InsertRow(g)) \/ (\E d \in Deletes : CommitDelete(d))
        BY <3>2
        DEF AttachmentsNext, attachmentVars, TargetChanges, CreateComment, EditComment, DeleteComment,
            CommentStep, BeginUpload, BeginDelete, CheckRow
      <3> QED
        BY <1>1, <3>1, <3>2 DEF artifactVars, attachmentVars
    <2> QED
      BY <2>1, <2>2, <2>3, <2>4, <2>5
  <1>2. (StorageTypeOK /\ \A f \in Files : FileInv(f)) /\ [ArtifactsNext]_artifactVars =>
          [\A f \in Attached :
             /\ rows[f].status = "absent" /\ rows'[f].status # "absent" =>
                  /\ targets[rows'[f].target] = "active"
                  /\ rows'[f].comment \in Comments =>
                       comments[rows'[f].comment].status # "deleted"
             /\ rows[f].status = "deleted" => rows'[f] = rows[f]]_<<attachmentVars, storeVars>>
    BY <1>1
  <1> QED
    BY <1>2, StorageInvariance, PTL DEF ArtifactsSpec, LinkedWhenAllowed

-----------------------------------------------------------------------------
(* Permits.  That every permit is free or held is counted over the holders *)
(* of permits; that these are finitely many is part of the invariant.      *)

Sending == {"sending", "completed"}
Copying == {"copy", "verify", "undo", "drop"}

SendingFiles == {f \in Files : uploads[f].at \in Sending}
CopyingDeletions == {d \in Deletes : deletions[d].at \in Copying}
HoldsPermit(reader) == reader.at = "streaming" /\ Backend[reader.file] = "s3"
StreamingReaders == {r \in Readers : HoldsPermit(readers[r])}

PermitInv ==
  /\ IsFiniteSet(SendingFiles) /\ IsFiniteSet(CopyingDeletions) /\ IsFiniteSet(StreamingReaders)
  /\ permits + Cardinality(SendingFiles) + Cardinality(CopyingDeletions)
             + Cardinality(StreamingReaders) = Permits

Count(held) == IF held THEN 1 ELSE 0

\* A set that differs in one element at most.
LEMMA OneDiffers ==
  ASSUME NEW S, IsFiniteSet(S), NEW T, NEW x, \A y : y # x => (y \in T <=> y \in S)
  PROVE  /\ IsFiniteSet(T) /\ Cardinality(S) \in Nat /\ Cardinality(T) \in Nat
         /\ Cardinality(T) + Count(x \in S) = Cardinality(S) + Count(x \in T)
  <1>1. CASE x \in S <=> x \in T
    <2>1. S = T
      BY <1>1
    <2> QED
      BY <2>1, FS_CardinalityType
  <1>2. CASE x \in S /\ x \notin T
    <2>1. T = S \ {x}
      BY <1>2
    <2>2. IsFiniteSet(T) /\ Cardinality(T) = Cardinality(S) - 1 /\ Cardinality(S) \in Nat
      BY <1>2, <2>1, FS_RemoveElement, FS_CardinalityType
    <2> QED
      BY <1>2, <2>2, FS_CardinalityType DEF Count
  <1>3. CASE x \notin S /\ x \in T
    <2>1. T = S \cup {x}
      BY <1>3
    <2>2. IsFiniteSet(T) /\ Cardinality(T) = Cardinality(S) + 1 /\ Cardinality(S) \in Nat
      BY <1>3, <2>1, FS_AddElement, FS_CardinalityType
    <2> QED
      BY <1>3, <2>2, FS_CardinalityType DEF Count
  <1> QED
    BY <1>1, <1>2, <1>3

LEMMA UploadPermit ==
  ASSUME PermitInv, permits \in Nat, permits' \in Nat, NEW f \in Files,
         \A g \in Files : g # f => uploads'[g] = uploads[g],
         UNCHANGED <<deletions, readers>>,
         permits' + Count(uploads'[f].at \in Sending) = permits + Count(uploads[f].at \in Sending)
  PROVE  PermitInv'
  <1>1. \A g : g # f => (g \in SendingFiles' <=> g \in SendingFiles)
    BY DEF SendingFiles
  <1>2. f \in SendingFiles' <=> uploads'[f].at \in Sending
    BY DEF SendingFiles
  <1>3. f \in SendingFiles <=> uploads[f].at \in Sending
    BY DEF SendingFiles
  <1>4. CopyingDeletions' = CopyingDeletions /\ StreamingReaders' = StreamingReaders
    BY DEF CopyingDeletions, StreamingReaders
  <1>5. PICK new : new = SendingFiles'
    OBVIOUS
  <1>6. /\ IsFiniteSet(new) /\ Cardinality(SendingFiles) \in Nat /\ Cardinality(new) \in Nat
        /\ Cardinality(new) + Count(f \in SendingFiles) = Cardinality(SendingFiles) + Count(f \in new)
    BY <1>1, <1>5, OneDiffers DEF PermitInv
  <1>7. Cardinality(CopyingDeletions) \in Nat /\ Cardinality(StreamingReaders) \in Nat
    BY FS_CardinalityType DEF PermitInv
  <1>8. /\ permits' + Count(f \in new) = permits + Count(f \in SendingFiles)
        /\ Count(f \in new) \in Nat /\ Count(f \in SendingFiles) \in Nat
    BY <1>2, <1>3, <1>5 DEF Count
  <1>9. permits' + Cardinality(new) + Cardinality(CopyingDeletions) + Cardinality(StreamingReaders) = Permits
    BY <1>6, <1>7, <1>8, ObjectStoreAssumption DEF PermitInv
  <1> QED
    BY <1>4, <1>5, <1>6, <1>9 DEF PermitInv

LEMMA DeletionPermit ==
  ASSUME PermitInv, StorageTypeOK, permits' \in Nat, NEW d \in Deletes, NEW new,
         deletions' = [deletions EXCEPT ![d] = new],
         UNCHANGED <<uploads, readers>>,
         permits' + Count(new.at \in Copying) = permits + Count(deletions[d].at \in Copying)
  PROVE  PermitInv'
  <1>0. deletions'[d] = new /\ (\A c \in Deletes : c # d => deletions'[c] = deletions[c]) /\ permits \in Nat
    BY DEF StorageTypeOK
  <1>1. \A c : c # d => (c \in CopyingDeletions' <=> c \in CopyingDeletions)
    BY <1>0 DEF CopyingDeletions
  <1>2. d \in CopyingDeletions' <=> new.at \in Copying
    BY <1>0 DEF CopyingDeletions
  <1>3. d \in CopyingDeletions <=> deletions[d].at \in Copying
    BY DEF CopyingDeletions
  <1>4. SendingFiles' = SendingFiles /\ StreamingReaders' = StreamingReaders
    BY DEF SendingFiles, StreamingReaders
  <1>5. PICK after : after = CopyingDeletions'
    OBVIOUS
  <1>6. /\ IsFiniteSet(after) /\ Cardinality(CopyingDeletions) \in Nat /\ Cardinality(after) \in Nat
        /\ Cardinality(after) + Count(d \in CopyingDeletions) = Cardinality(CopyingDeletions) + Count(d \in after)
    BY <1>1, <1>5, OneDiffers DEF PermitInv
  <1>7. Cardinality(SendingFiles) \in Nat /\ Cardinality(StreamingReaders) \in Nat
    BY FS_CardinalityType DEF PermitInv
  <1>8. /\ permits' + Count(d \in after) = permits + Count(d \in CopyingDeletions)
        /\ Count(d \in after) \in Nat /\ Count(d \in CopyingDeletions) \in Nat
    BY <1>2, <1>3, <1>5 DEF Count
  <1>9. permits' + Cardinality(SendingFiles) + Cardinality(after) + Cardinality(StreamingReaders) = Permits
    BY <1>0, <1>6, <1>7, <1>8, ObjectStoreAssumption DEF PermitInv
  <1> QED
    BY <1>4, <1>5, <1>6, <1>9 DEF PermitInv

LEMMA ReaderPermit ==
  ASSUME PermitInv, StorageTypeOK, permits' \in Nat, NEW r \in Readers, NEW new,
         readers' = [readers EXCEPT ![r] = new],
         UNCHANGED <<uploads, deletions>>,
         permits' + Count(HoldsPermit(new)) = permits + Count(HoldsPermit(readers[r]))
  PROVE  PermitInv'
  <1>0. readers'[r] = new /\ (\A c \in Readers : c # r => readers'[c] = readers[c]) /\ permits \in Nat
    BY DEF StorageTypeOK
  <1>1. \A c : c # r => (c \in StreamingReaders' <=> c \in StreamingReaders)
    BY <1>0 DEF StreamingReaders, HoldsPermit
  <1>2. r \in StreamingReaders' <=> HoldsPermit(new)
    BY <1>0 DEF StreamingReaders, HoldsPermit
  <1>3. r \in StreamingReaders <=> HoldsPermit(readers[r])
    BY DEF StreamingReaders
  <1>4. SendingFiles' = SendingFiles /\ CopyingDeletions' = CopyingDeletions
    BY DEF SendingFiles, CopyingDeletions
  <1>5. PICK after : after = StreamingReaders'
    OBVIOUS
  <1>6. /\ IsFiniteSet(after) /\ Cardinality(StreamingReaders) \in Nat /\ Cardinality(after) \in Nat
        /\ Cardinality(after) + Count(r \in StreamingReaders) = Cardinality(StreamingReaders) + Count(r \in after)
    BY <1>1, <1>5, OneDiffers DEF PermitInv
  <1>7. Cardinality(SendingFiles) \in Nat /\ Cardinality(CopyingDeletions) \in Nat
    BY FS_CardinalityType DEF PermitInv
  <1>8. /\ permits' + Count(r \in after) = permits + Count(r \in StreamingReaders)
        /\ Count(r \in after) \in Nat /\ Count(r \in StreamingReaders) \in Nat
    BY <1>2, <1>3, <1>5 DEF Count
  <1>9. permits' + Cardinality(SendingFiles) + Cardinality(CopyingDeletions) + Cardinality(after) = Permits
    BY <1>0, <1>6, <1>7, <1>8, ObjectStoreAssumption DEF PermitInv
  <1> QED
    BY <1>4, <1>5, <1>6, <1>9 DEF PermitInv

LEMMA PermitSame ==
  ASSUME PermitInv, UNCHANGED <<uploads, deletions, readers, permits>>
  PROVE  PermitInv'
  BY DEF PermitInv, SendingFiles, CopyingDeletions, StreamingReaders, HoldsPermit

\* An upload goes on without taking or releasing a permit.
LEMMA UploadPermitSame ==
  ASSUME PermitInv, StorageTypeOK, StorageTypeOK', NEW f \in Files, uploads[f].at # "idle",
         NEW at \in UploadPlaces \ {"idle"}, UploadAt(f, at),
         uploads[f].at \in Sending <=> at \in Sending,
         UNCHANGED <<deletions, readers, permits>>
  PROVE  PermitInv'
  <1>1. uploads'[f].at = at /\ \A g \in Files : g # f => uploads'[g] = uploads[g]
    BY UploadGoesOn
  <1>2. permits' + Count(uploads'[f].at \in Sending) = permits + Count(uploads[f].at \in Sending)
    BY <1>1 DEF Count
  <1> QED
    BY <1>1, <1>2, UploadPermit DEF StorageTypeOK

LEMMA UploadRequestPermits ==
  ASSUME PermitInv, StorageTypeOK, StorageTypeOK', NEW f \in Files, NEW at, NEW next, NEW effect,
         UploadRequest(f, at, next, effect),
         \/ at = "staged" /\ next = "sending"
         \/ at = "sending" /\ next = "completed"
         \/ at = "completed" /\ next = "stored"
  PROVE  PermitInv'
  <1>1. permits \in Nat /\ permits' \in Nat /\ uploads[f].at = at /\ UNCHANGED <<deletions, readers>>
    BY DEF StorageTypeOK, UploadRequest
  <1>2. Count(at \in Sending) = IF at = "staged" THEN 0 ELSE 1
    BY DEF Count, Sending
  <1>3. CASE /\ UploadAt(f, next)
             /\ permits' = CASE at = "staged" -> permits - 1 [] next = "stored" -> permits + 1 [] OTHER -> permits
    <2>1. uploads'[f].at = next /\ \A g \in Files : g # f => uploads'[g] = uploads[g]
      BY <1>1, <1>3, UploadGoesOn DEF UploadPlaces, BeforeRow
    <2>2. Count(next \in Sending) = IF next = "stored" THEN 0 ELSE 1
      BY DEF Count, Sending
    <2>3. permits' + Count(next \in Sending) = permits + Count(at \in Sending)
      BY <1>1, <1>2, <1>3, <2>2
    <2> QED
      BY <1>1, <2>1, <2>3, UploadPermit
  <1>4. CASE /\ UploadAt(f, IF at = "staged" THEN AfterFailedSave(f) ELSE "aborting")
             /\ permits' = IF at = "staged" THEN permits ELSE permits + 1
    <2>1. PICK place : place = IF at = "staged" THEN AfterFailedSave(f) ELSE "aborting"
      OBVIOUS
    <2>2. place \in UploadPlaces \ {"idle"} /\ place \notin Sending /\ UploadAt(f, place)
      BY <1>4, <2>1, AfterFailedSaveIs DEF UploadPlaces, BeforeRow, Sending
    <2>3. uploads'[f].at = place /\ \A g \in Files : g # f => uploads'[g] = uploads[g]
      BY <1>1, <2>2, UploadGoesOn
    <2>4. Count(place \in Sending) = 0
      BY <2>2 DEF Count
    <2>5. permits' + Count(place \in Sending) = permits + Count(at \in Sending)
      BY <1>1, <1>2, <1>4, <2>4
    <2> QED
      BY <1>1, <2>3, <2>5, UploadPermit
  <1> QED
    BY <1>3, <1>4 DEF UploadRequest

LEMMA UploadsKeepPermits ==
  ASSUME PermitInv, StorageTypeOK, StorageTypeOK', NEW f \in Files,
         Stage(f) \/ CreateMultipart(f) \/ CompleteMultipart(f) \/ VerifyUpload(f) \/ Cleanup(f)
  PROVE  PermitInv'
  <1>1. CASE CreateMultipart(f) \/ CompleteMultipart(f) \/ VerifyUpload(f)
    BY <1>1, UploadRequestPermits DEF CreateMultipart, CompleteMultipart, VerifyUpload
  <1>2. ASSUME UNCHANGED <<deletions, readers, permits>>, uploads[f].at \notin Sending \cup {"idle"},
               NEW at \in UploadPlaces \ (Sending \cup {"idle"}), UploadAt(f, at)
        PROVE  PermitInv'
    BY <1>2, UploadPermitSame
  <1>3. /\ AfterFailedSave(f) \in UploadPlaces \ (Sending \cup {"idle"})
        /\ AfterDiscard(f) \in UploadPlaces \ (Sending \cup {"idle"})
        /\ {"staged", "stored"} \subseteq UploadPlaces \ (Sending \cup {"idle"})
    BY AfterFailedSaveIs DEF BeforeRow, Sending, UploadPlaces
  <1>4. CASE Stage(f)
    <2>1. UNCHANGED <<deletions, readers, permits>> /\ uploads[f].at \notin Sending \cup {"idle"}
      BY <1>4 DEF Stage, Sending
    <2>2. UploadAt(f, AfterFailedSave(f)) \/ UploadAt(f, "staged") \/ UploadAt(f, "stored")
      BY <1>4 DEF Stage
    <2> QED
      BY <1>2, <1>3, <2>1, <2>2
  <1>5. CASE Cleanup(f)
    <2>1. UNCHANGED <<deletions, readers, permits>> /\ uploads[f].at \notin Sending \cup {"idle"}
      BY <1>5 DEF Cleanup, Sending
    <2>2. UploadAt(f, AfterFailedSave(f)) \/ UploadAt(f, AfterDiscard(f))
      BY <1>5 DEF Cleanup
    <2> QED
      BY <1>2, <1>3, <2>1, <2>2
  <1> QED
    BY <1>1, <1>4, <1>5

\* Nothing but a copy holds a permit of a deletion.
LEMMA MovesKeepPermits ==
  ASSUME PermitInv, StorageTypeOK, StorageTypeOK', NEW d \in Deletes,
         MoveFile(d) \/ HeadSource(d) \/ CopyObject(d) \/ VerifyCopy(d) \/ UndoCopy(d) \/ DropSource(d)
  PROVE  PermitInv'
  <1>1. /\ UNCHANGED <<uploads, readers>> /\ permits \in Nat /\ permits' \in Nat
        /\ deletions[d].at \in {"head", "copy", "verify", "undo", "drop"}
    BY DEF MoveFile, HeadSource, CopyObject, VerifyCopy, UndoCopy, DropSource, StorageTypeOK
  <1>2. deletions[d] # Idle /\ deletions[d].move # "discard"
    BY <1>1, AtMovePlace
  <1>3. ASSUME NEW new, deletions' = [deletions EXCEPT ![d] = new],
               permits' + Count(new.at \in Copying) = permits + Count(deletions[d].at \in Copying)
        PROVE  PermitInv'
    BY <1>1, <1>3, DeletionPermit
  <1>4. ASSUME NEW at \in MovePlaces, DeletionAt(d, at),
               permits' + Count(at \in Copying) = permits + Count(deletions[d].at \in Copying)
        PROVE  PermitInv'
    BY <1>2, <1>3, <1>4, MoveAt
  <1>5. ASSUME deletions' = [deletions EXCEPT ![d] = Idle] \/ Moved(d),
               permits' = permits + Count(deletions[d].at \in Copying)
        PROVE  PermitInv'
    <2>1. PICK new : deletions' = [deletions EXCEPT ![d] = new] /\ new.at \in {"idle", "commit"}
      BY <1>2, <1>5, IdleIs, MovedRecord
    <2>2. Count(new.at \in Copying) = 0
      BY <2>1 DEF Count, Copying
    <2>3. permits' + Count(new.at \in Copying) = permits + Count(deletions[d].at \in Copying)
      BY <1>1, <1>5, <2>2
    <2> QED
      BY <1>3, <2>1, <2>3
  <1>6. /\ \A at \in Copying : at \in MovePlaces /\ Count(at \in Copying) = 1
        /\ Count("head" \in Copying) = 0
    BY DEF Count, Copying, MovePlaces
  <1>7. CASE MoveFile(d)
    <2>1. deletions[d].at = "head" /\ permits' = permits
          /\ (deletions' = [deletions EXCEPT ![d] = Idle] \/ Moved(d))
      BY <1>7 DEF MoveFile
    <2> QED
      BY <1>1, <1>5, <1>6, <2>1
  <1>8. CASE HeadSource(d)
    <2>1. /\ deletions[d].at = "head"
          /\ \/ DeletionAt(d, "copy") /\ permits' = permits - 1
             \/ deletions' = [deletions EXCEPT ![d] = Idle] /\ permits' = permits
      BY <1>8 DEF HeadSource
    <2>2. "copy" \in Copying
      BY DEF Copying
    <2> QED
      BY <1>1, <1>4, <1>5, <1>6, <2>1, <2>2
  <1>9. CASE CopyObject(d) \/ VerifyCopy(d)
    <2>1. /\ deletions[d].at \in Copying /\ permits' = permits
          /\ \E at \in Copying : DeletionAt(d, at)
      BY <1>9 DEF CopyObject, VerifyCopy, Copying
    <2> QED
      BY <1>1, <1>4, <1>6, <2>1
  <1>10. CASE UndoCopy(d) \/ DropSource(d)
    <2>1. /\ deletions[d].at \in Copying /\ permits' = permits + 1
          /\ (deletions' = [deletions EXCEPT ![d] = Idle] \/ Moved(d))
      BY <1>10 DEF UndoCopy, DropSource, Copying
    <2> QED
      BY <1>1, <1>5, <1>6, <2>1
  <1> QED
    BY <1>7, <1>8, <1>9, <1>10

LEMMA ReadersKeepPermits ==
  ASSUME PermitInv, StorageTypeOK, StorageTypeOK', NEW r \in Readers,
         OpenContent(r) \/ CloseContent(r) \/ \E f \in Files : BeginRead(r, f)
  PROVE  PermitInv'
  <1>1. /\ UNCHANGED <<uploads, deletions>> /\ permits \in Nat /\ permits' \in Nat
    BY DEF OpenContent, CloseContent, BeginRead, StorageTypeOK
  <1>2. ~HoldsPermit(Idle)
    BY IdleIs DEF HoldsPermit
  <1>3. readers[r] \in {Idle} \cup [at : {"checked", "streaming"}, file : Files]
    BY DEF StorageTypeOK
  <1>4. CASE OpenContent(r)
    <2>1. readers[r].at = "checked" /\ ~HoldsPermit(readers[r])
      BY <1>4 DEF OpenContent, HoldsPermit
    <2>2. CASE /\ readers' = [readers EXCEPT ![r].at = "streaming"]
               /\ permits' = IF Backend[readers[r].file] = "s3" THEN permits - 1 ELSE permits
      <3>1. PICK new : new = [readers[r] EXCEPT !.at = "streaming"]
        OBVIOUS
      <3>2. new.at = "streaming" /\ new.file = readers[r].file
        BY <1>3, <2>1, <3>1, IdleIs
      <3>3. readers' = [readers EXCEPT ![r] = new]
        BY <2>2, <3>1
      <3>4. permits' + Count(HoldsPermit(new)) = permits + Count(HoldsPermit(readers[r]))
        BY <1>1, <2>1, <2>2, <3>2 DEF HoldsPermit, Count
      <3> QED
        BY <1>1, <3>3, <3>4, ReaderPermit
    <2>3. CASE readers' = [readers EXCEPT ![r] = Idle] /\ permits' = permits
      <3>1. permits' + Count(HoldsPermit(Idle)) = permits + Count(HoldsPermit(readers[r]))
        BY <1>1, <1>2, <2>1, <2>3 DEF Count
      <3> QED
        BY <1>1, <2>3, <3>1, ReaderPermit
    <2> QED
      BY <1>4, <2>2, <2>3 DEF OpenContent
  <1>5. CASE CloseContent(r)
    <2>1. /\ readers[r].at = "streaming" /\ readers' = [readers EXCEPT ![r] = Idle]
          /\ permits' = IF Backend[readers[r].file] = "s3" THEN permits + 1 ELSE permits
      BY <1>5 DEF CloseContent
    <2>2. permits' + Count(HoldsPermit(Idle)) = permits + Count(HoldsPermit(readers[r]))
      BY <1>1, <1>2, <2>1 DEF HoldsPermit, Count
    <2> QED
      BY <1>1, <2>1, <2>2, ReaderPermit
  <1>6. CASE \E f \in Files : BeginRead(r, f)
    <2>1. PICK f \in Files : BeginRead(r, f)
      BY <1>6
    <2>2. PICK new : new = [at |-> "checked", file |-> f]
      OBVIOUS
    <2>3. readers' = [readers EXCEPT ![r] = new] /\ permits' = permits /\ readers[r] = Idle /\ new.at = "checked"
      BY <2>1, <2>2 DEF BeginRead
    <2>4. permits' + Count(HoldsPermit(new)) = permits + Count(HoldsPermit(readers[r]))
      BY <1>1, <1>2, <2>3 DEF HoldsPermit, Count
    <2> QED
      BY <1>1, <2>3, <2>4, ReaderPermit
  <1> QED
    BY <1>4, <1>5, <1>6

\* No request outlives its process, and a new one has every permit.
LEMMA CrashFreesPermits ==
  ASSUME StorageTypeOK, Crash
  PROVE  PermitInv'
  <1>1. \A f \in Files : uploads'[f].at \notin Sending
    <2> TAKE f \in Files
    <2>1. uploads'[f] = IF uploads[f] = Idle THEN Idle ELSE [uploads[f] EXCEPT !.at = "ended"]
      BY DEF Crash
    <2>2. CASE uploads[f] = Idle
      BY <2>1, <2>2, IdleIs DEF Sending
    <2>3. CASE uploads[f] # Idle
      <3>1. PICK u : u = [uploads[f] EXCEPT !.at = "ended"]
        OBVIOUS
      <3>2. u.at = "ended"
        BY <3>1, UploadFields DEF AttachedUploads
      <3> QED
        BY <2>1, <2>3, <3>1, <3>2 DEF Sending
    <2> QED
      BY <2>2, <2>3
  <1>2. deletions' = [d \in Deletes |-> Idle] /\ readers' = [r \in Readers |-> Idle] /\ permits' = Permits
    BY DEF Crash
  <1>3. SendingFiles' = {} /\ CopyingDeletions' = {} /\ StreamingReaders' = {}
    BY <1>1, <1>2, IdleIs DEF SendingFiles, CopyingDeletions, Copying, StreamingReaders, HoldsPermit
  <1> QED
    BY <1>2, <1>3, FS_EmptySet, ObjectStoreAssumption DEF PermitInv

LEMMA BeginUploadPermits ==
  ASSUME PermitInv, StorageTypeOK, StorageTypeOK', NEW f \in Files, uploads[f].at = "idle",
         NEW new, new.at = "staging", uploads' = [uploads EXCEPT ![f] = new],
         UNCHANGED <<deletions, readers, permits>>
  PROVE  PermitInv'
  <1>1. uploads'[f] = new /\ \A g \in Files : g # f => uploads'[g] = uploads[g]
    BY DEF StorageTypeOK, UploadsOK
  <1>2. Count(uploads'[f].at \in Sending) = 0 /\ Count(uploads[f].at \in Sending) = 0
    BY <1>1 DEF Count, Sending
  <1>3. permits \in Nat /\ permits' \in Nat /\ permits' = permits
    BY DEF StorageTypeOK
  <1> QED
    BY <1>1, <1>2, <1>3, UploadPermit

\* A deletion begins, is committed or goes back without a permit.
LEMMA DeletionPermitSame ==
  ASSUME PermitInv, StorageTypeOK, StorageTypeOK', NEW d \in Deletes,
         deletions[d].at \notin Copying, UNCHANGED <<uploads, readers, permits>>,
         NEW new, deletions' = [deletions EXCEPT ![d] = new], new.at \notin Copying
  PROVE  PermitInv'
  <1>1. Count(new.at \in Copying) = 0 /\ Count(deletions[d].at \in Copying) = 0
    BY DEF Count
  <1> QED
    BY <1>1, DeletionPermit DEF StorageTypeOK

LEMMA DeletionsKeepPermits ==
  ASSUME PermitInv, StorageTypeOK, StorageTypeOK', NEW d \in Deletes,
         \/ CommitDelete(d) \/ MarkDeleted(d) \/ DiscardFailed(d)
         \/ \E f \in Files : Isolate(d, f)
         \/ \E f \in Artifacts : BeginDeleteArtifact(d, f)
  PROVE  PermitInv'
  <1>1. UNCHANGED <<uploads, readers, permits>>
    BY DEF CommitDelete, MarkDeleted, DiscardFailed, Isolate, BeginDeleteArtifact
  <1>2. deletions[d].at \notin Copying
    BY IdleIs DEF CommitDelete, MarkDeleted, DiscardFailed, Isolate, BeginDeleteArtifact, Copying
  <1>3. ASSUME NEW new, deletions' = [deletions EXCEPT ![d] = new], new.at \notin Copying
        PROVE  PermitInv'
    BY <1>1, <1>2, <1>3, DeletionPermitSame
  <1>4. CASE deletions' = [deletions EXCEPT ![d] = Idle]
    BY <1>3, <1>4, IdleIs DEF Copying
  <1>5. \A f, move, at : [file |-> f, move |-> move, at |-> at].at = at
    OBVIOUS
  <1>6. CASE \E f, move, at : /\ at \in {"head", "discard"}
                              /\ deletions' = [deletions EXCEPT ![d] = [file |-> f, move |-> move, at |-> at]]
    <2>1. PICK f, move, at : /\ at \in {"head", "discard"}
                             /\ deletions' = [deletions EXCEPT ![d] = [file |-> f, move |-> move, at |-> at]]
      BY <1>6
    <2>2. PICK new : new = [file |-> f, move |-> move, at |-> at]
      OBVIOUS
    <2>3. new.at = at /\ deletions' = [deletions EXCEPT ![d] = new] /\ at \notin Copying
      BY <2>1, <2>2 DEF Copying
    <2> QED
      BY <1>3, <2>3
  <1>7. CASE deletions[d].at \in {"commit", "discard"} /\ (Restore(d) \/ DeletionAt(d, "commit"))
    <2>1. deletions[d] \in Moves \cup Discards /\ DOMAIN deletions = Deletes
      BY <1>7, IdleIs DEF StorageTypeOK
    <2>2. CASE Restore(d)
      <3>1. PICK new : new = [deletions[d] EXCEPT !.move = "restore", !.at = "head"]
        OBVIOUS
      <3>2. new.at = "head" /\ deletions' = [deletions EXCEPT ![d] = new]
        BY <2>1, <2>2, <3>1 DEF Restore, Moves, Discards
      <3> QED
        BY <1>3, <3>2 DEF Copying
    <2>3. CASE DeletionAt(d, "commit")
      <3>1. PICK new : new = [deletions[d] EXCEPT !.at = "commit"]
        OBVIOUS
      <3>2. new.at = "commit" /\ deletions' = [deletions EXCEPT ![d] = new]
        BY <2>1, <2>3, <3>1 DEF DeletionAt, Moves, Discards
      <3> QED
        BY <1>3, <3>2 DEF Copying
    <2> QED
      BY <1>7, <2>2, <2>3
  <1>8. CASE CommitDelete(d) \/ MarkDeleted(d)
    <2>1. deletions[d].at = "commit" /\ (deletions' = [deletions EXCEPT ![d] = Idle] \/ Restore(d))
      BY <1>8 DEF CommitDelete, MarkDeleted
    <2> QED
      BY <1>4, <1>7, <2>1
  <1>9. CASE DiscardFailed(d)
    <2>1. /\ deletions[d].at = "discard"
          /\ deletions' = [deletions EXCEPT ![d] = Idle] \/ DeletionAt(d, "commit")
      BY <1>9 DEF DiscardFailed
    <2> QED
      BY <1>4, <1>7, <2>1
  <1>10. CASE (\E f \in Files : Isolate(d, f)) \/ (\E f \in Artifacts : BeginDeleteArtifact(d, f))
    BY <1>6, <1>10 DEF Isolate, BeginDeleteArtifact
  <1> QED
    BY <1>8, <1>9, <1>10

LEMMA PermitNextInv ==
  ASSUME PermitInv, StorageTypeOK, StorageTypeOK', \A g \in Files : FileInv(g), [ArtifactsNext]_artifactVars
  PROVE  PermitInv'
  <1>1. CASE UNCHANGED <<uploads, deletions, readers, permits>>
    BY <1>1, PermitSame
  <1>2. CASE StoreNext
    BY <1>2, UploadsKeepPermits, MovesKeepPermits, ReadersKeepPermits, CrashFreesPermits DEF StoreNext
  <1>3. CASE AttachmentsNext
    <2>1. ASSUME NEW t \in Targets, NEW f \in Attached, NEW k \in Comments \cup {"none"}, BeginUpload(f, t, k)
          PROVE  PermitInv'
      <3>1. PICK new : new = [at |-> "staging", target |-> t, comment |-> k]
        OBVIOUS
      <3>2. /\ f \in Files /\ uploads[f].at = "idle" /\ new.at = "staging"
            /\ uploads' = [uploads EXCEPT ![f] = new] /\ UNCHANGED <<deletions, readers, permits>>
        BY <2>1, <3>1, IdleIs DEF BeginUpload, Attached
      <3> QED
        BY <3>2, BeginUploadPermits
    <2>2. ASSUME NEW f \in Attached, InsertRow(f)
          PROVE  PermitInv'
      <3>1. f \in Files /\ uploads[f].at = "stored" /\ UNCHANGED <<deletions, readers, permits>>
        BY <2>2 DEF InsertRow, Attached
      <3>2. \E at \in {"ended", "discarding"} : UploadAt(f, at)
        BY <2>2 DEF InsertRow
      <3> QED
        BY <3>1, <3>2, UploadPermitSame DEF UploadPlaces, Sending
    <2>3. ASSUME NEW d \in Deletes, NEW f \in Attached, BeginDelete(d, f)
          PROVE  PermitInv'
      BY <2>3, DeletionsKeepPermits DEF BeginDelete, Attached
    <2>4. ASSUME NEW r \in Readers, NEW f \in Attached, CheckRow(r, f)
          PROVE  PermitInv'
      BY <2>4, ReadersKeepPermits DEF CheckRow, Attached
    <2>5. ASSUME NEW t, NEW k, NEW parent, NEW status,
                 TargetChanges(t, status) \/ CreateComment(k, t, parent) \/ EditComment(k) \/ DeleteComment(k)
          PROVE  UNCHANGED <<uploads, deletions, readers, permits>>
      BY <2>5 DEF TargetChanges, CreateComment, EditComment, DeleteComment, CommentStep, storeVars
    <2> QED
      BY <1>1, <1>3, <2>1, <2>2, <2>3, <2>4, <2>5, DeletionsKeepPermits DEF AttachmentsNext
  <1>4. ASSUME NEW f \in Artifacts, CreatePending(f) \/ FinalizeReady(f) \/ MarkFailed(f)
        PROVE  PermitInv'
    <2>1. f \in Files /\ UNCHANGED <<deletions, readers, permits>>
      BY <1>4, ObjectStoreAssumption DEF CreatePending, FinalizeReady, MarkFailed
    <2>2. CASE CreatePending(f)
      <3>1. PICK new : new = [at |-> "staging"]
        OBVIOUS
      <3>2. uploads[f].at = "idle"
        BY <2>1, <2>2 DEF CreatePending, FileInv, RowAfterObject
      <3>3. uploads' = [uploads EXCEPT ![f] = new] /\ new.at = "staging"
        BY <2>2, <3>1 DEF CreatePending
      <3> QED
        BY <2>1, <3>2, <3>3, BeginUploadPermits
    <2>3. CASE FinalizeReady(f) \/ MarkFailed(f)
      <3>1. /\ uploads[f].at \in {"stored", "failing"}
            /\ \E at \in {"ended", "discarding"} : UploadAt(f, at)
        BY <2>3 DEF FinalizeReady, MarkFailed
      <3> QED
        BY <2>1, <3>1, UploadPermitSame DEF UploadPlaces, Sending
    <2> QED
      BY <1>4, <2>2, <2>3
  <1>5. ASSUME NEW r \in Readers, NEW f \in Artifacts, CheckArtifact(r, f)
        PROVE  PermitInv'
    BY <1>5, ReadersKeepPermits, ObjectStoreAssumption DEF CheckArtifact
  <1>6. CASE ArtifactsNext
    BY <1>2, <1>3, <1>4, <1>5, <1>6, DeletionsKeepPermits DEF ArtifactsNext
  <1> QED
    BY <1>1, <1>6 DEF artifactVars, storeVars

\* Whatever fails, every permit of the semaphore is free or held by a request
\* or a stream: max_concurrency of the S3 storage, the abort of a multipart
\* upload, the copy that is undone, the lease of a download.
THEOREM PermitsConserved == ArtifactsSpec => []PermitsAreConserved
  <1>1. ArtifactsInit => PermitInv
    <2> SUFFICES ASSUME ArtifactsInit PROVE PermitInv
      OBVIOUS
    <2>1. SendingFiles = {} /\ CopyingDeletions = {} /\ StreamingReaders = {} /\ permits = Permits
      BY IdleIs
      DEF ArtifactsInit, AttachmentsInit, StoreInit, SendingFiles, CopyingDeletions, StreamingReaders,
          HoldsPermit, Sending, Copying
    <2> QED
      BY <2>1, FS_EmptySet, ObjectStoreAssumption DEF PermitInv
  <1>2. (StorageTypeOK /\ \A f \in Files : FileInv(f)) /\ PermitInv /\ [ArtifactsNext]_artifactVars
          => PermitInv'
    BY StorageNextInv, PermitNextInv
  <1>3. PermitInv => PermitsAreConserved
    BY DEF PermitInv, PermitsAreConserved, SendingFiles, CopyingDeletions, StreamingReaders, HoldsPermit,
           Sending, Copying
  <1>4. ArtifactsSpec => []PermitInv
    BY <1>1, <1>2, StorageInvariance, PTL DEF ArtifactsSpec
  <1> QED
    BY <1>3, <1>4, PTL

-----------------------------------------------------------------------------
(* The project cache.                                                      *)

Requests ==
  [at : Positions, key : Keys, loaded : ProjectTables \cup Versions \cup {NoEntry}]

CacheTypeOK ==
  /\ project_rows \in ProjectTables
  /\ DOMAIN cache = Keys
  /\ clients \in [Clients -> Requests]

\* Only the holder of the lock has a request under way.
LockIsHeld == \A c \in Clients : clients[c].at # "idle" => holder = c

\* What a read has loaded is what the table holds.
LoadedIsCurrent ==
  \A c \in Clients :
    clients[c].at = "fill" => clients[c].loaded = Truth(project_rows, clients[c].key)

\* A writer names a project.
WritersNameAProject ==
  \A c \in Clients : clients[c].at \in {"write", "invalidate"} => clients[c].key \in ProjectIds

CacheInv ==
  /\ CacheTypeOK
  /\ LockIsHeld
  /\ LoadedIsCurrent
  /\ WritersNameAProject
  /\ CacheIsCurrent

-----------------------------------------------------------------------------
\* A write changes the truth of its own key and of the list only.
LEMMA WriteIsLocal ==
  ASSUME NEW p \in ProjectIds, NEW key \in Keys, key \notin {p, All},
         NEW version, project_rows \in ProjectTables,
         project_rows' = [project_rows EXCEPT ![p] = version]
  PROVE  Truth(project_rows, key)' = Truth(project_rows, key)
  BY DEF Truth, Keys, ProjectTables

LEMMA CacheInitInv == CacheInit => CacheInv
  BY DEF CacheInit, CacheInv, CacheTypeOK, LockIsHeld, LoadedIsCurrent, WritersNameAProject,
     CacheIsCurrent, ProjectTables, Requests, Nowhere, Positions, Keys

\* The truth about a key is a table, a version or nothing.
LEMMA TruthType ==
  ASSUME NEW table \in ProjectTables, NEW key \in Keys
  PROVE  Truth(table, key) \in ProjectTables \cup Versions \cup {NoEntry}
  BY DEF Truth, Keys, ProjectTables

-----------------------------------------------------------------------------
(* Every step preserves the invariant.                                     *)

\* A request begins when nobody holds the lock, so that no other is under way.
LEMMA BeginKeepsInv ==
  ASSUME CacheInv, NEW c \in Clients, NEW at \in {"lookup", "write"}, NEW key \in Keys,
         at = "write" => key \in ProjectIds, Begin(c, at, key)
  PROVE  CacheInv'
  <1> USE DEF CacheInv, Begin, MayBegin
  <1>1. \A d \in Clients : clients[d].at = "idle"
    BY ProjectCacheAssumption DEF LockIsHeld
  <1>2. CacheTypeOK'
    BY DEF CacheTypeOK, Requests, Positions, Keys
  <1>3. \A d \in Clients : clients'[d] = IF d = c THEN [at |-> at, key |-> key, loaded |-> NoEntry]
                                       ELSE clients[d]
    BY DEF CacheTypeOK
  <1>4. LockIsHeld' /\ LoadedIsCurrent' /\ WritersNameAProject'
    BY <1>1, <1>3 DEF LockIsHeld, LoadedIsCurrent, WritersNameAProject
  <1>5. CacheIsCurrent'
    BY <1>1, <1>3 DEF CacheIsCurrent, BeingWritten, Truth
  <1> QED
    BY <1>2, <1>4, <1>5

\* A request that ends releases the lock; no other is under way.
LEMMA FinishIsQuiet ==
  ASSUME CacheInv, NEW c \in Clients, clients[c].at # "idle", Finish(c)
  PROVE  /\ \A d \in Clients : clients'[d].at = "idle"
         /\ clients' \in [Clients -> Requests]
         /\ LockIsHeld' /\ LoadedIsCurrent' /\ WritersNameAProject'
  <1>1. \A d \in Clients : d # c => clients[d].at = "idle"
    BY DEF CacheInv, LockIsHeld
  <1>2. Nowhere \in Requests /\ Nowhere.at = "idle"
    BY DEF Nowhere, Requests, Positions, Keys
  <1>3. clients' \in [Clients -> Requests] /\ \A d \in Clients : clients'[d].at = "idle"
    BY <1>1, <1>2 DEF CacheInv, CacheTypeOK, Finish
  <1> QED
    BY <1>3 DEF LockIsHeld, LoadedIsCurrent, WritersNameAProject

\* While c, which is not deleting entries, is under way, nobody is.
LEMMA NobodyInvalidates ==
  ASSUME CacheInv, NEW c \in Clients, clients[c].at \notin {"idle", "invalidate"}
  PROVE  \A key \in Keys : ~BeingWritten(key)
  BY DEF CacheInv, LockIsHeld, BeingWritten

LEMMA LookupKeepsInv ==
  ASSUME CacheInv, NEW c \in Clients, Lookup(c)
  PROVE  CacheInv'
  <1> USE DEF CacheInv, Lookup
  <1>0. \A key \in Keys : cache[key] = NoEntry \/ cache[key] = Truth(project_rows, key) \/ key \in spoiled
    BY NobodyInvalidates DEF CacheIsCurrent
  <1>1. CacheIsCurrent'
    BY <1>0 DEF CacheIsCurrent, Truth
  <1>2. CASE Finish(c)
    BY <1>1, <1>2, FinishIsQuiet DEF CacheTypeOK
  <1>3. CASE clients' = [clients EXCEPT ![c].at = "load"] /\ UNCHANGED holder
    <2>1. clients' \in [Clients -> Requests]
      BY <1>3 DEF CacheTypeOK, Requests, Positions
    <2>2. \A d \in Clients : d # c => clients'[d] = clients[d]
      BY <1>3 DEF CacheTypeOK
    <2>3. clients'[c].at = "load"
      BY <1>3 DEF CacheTypeOK, Requests
    <2>4. LockIsHeld' /\ LoadedIsCurrent' /\ WritersNameAProject'
      BY <1>3, <2>2, <2>3 DEF LockIsHeld, LoadedIsCurrent, WritersNameAProject, Truth
    <2> QED
      BY <1>1, <2>1, <2>4 DEF CacheTypeOK
  <1> QED
    BY <1>2, <1>3

\* What is loaded is the truth of the moment.
LEMMA LoadKeepsInv ==
  ASSUME CacheInv, NEW c \in Clients, Load(c)
  PROVE  CacheInv'
  <1> USE DEF CacheInv, Load
  <1> DEFINE found == Truth(project_rows, clients[c].key)
  <1>0. \A key \in Keys : cache[key] = NoEntry \/ cache[key] = Truth(project_rows, key) \/ key \in spoiled
    BY NobodyInvalidates DEF CacheIsCurrent
  <1>1. CacheIsCurrent'
    BY <1>0 DEF CacheIsCurrent, Truth
  <1>2. CASE Finish(c)
    BY <1>1, <1>2, FinishIsQuiet DEF CacheTypeOK
  <1>3. CASE clients' = [clients EXCEPT ![c] = [@ EXCEPT !.at = "fill", !.loaded = found]] /\ UNCHANGED holder
    <2>0. clients[c] \in Requests /\ clients[c].key \in Keys
      BY DEF CacheTypeOK, Requests
    <2>1. found \in ProjectTables \cup Versions \cup {NoEntry}
      BY <2>0, TruthType DEF CacheTypeOK
    <2>2. clients' = [clients EXCEPT ![c] = [clients[c] EXCEPT !.at = "fill", !.loaded = found]]
      BY <1>3
    <2>3. clients' \in [Clients -> Requests]
      BY <2>0, <2>1, <2>2 DEF CacheTypeOK, Requests, Positions
    <2>4. \A d \in Clients : d # c => clients'[d] = clients[d]
      BY <1>3 DEF CacheTypeOK
    <2>5. clients'[c].at = "fill" /\ clients'[c].key = clients[c].key /\ clients'[c].loaded = found
      BY <2>0, <2>2 DEF CacheTypeOK, Requests
    <2>6. LockIsHeld' /\ LoadedIsCurrent' /\ WritersNameAProject'
      BY <1>3, <2>4, <2>5 DEF LockIsHeld, LoadedIsCurrent, WritersNameAProject, Truth
    <2> QED
      BY <1>1, <2>3, <2>6 DEF CacheTypeOK
  <1> QED
    BY <1>2, <1>3

\* The table has not changed since the load, because its writers wait for the
\* lock: what is filled in is the truth.
LEMMA FillKeepsInv ==
  ASSUME CacheInv, NEW c \in Clients, Fill(c)
  PROVE  CacheInv'
  <1> USE DEF CacheInv, Fill
  <1>1. \A key \in Keys : cache[key] = NoEntry \/ cache[key] = Truth(project_rows, key) \/ key \in spoiled
    BY NobodyInvalidates DEF CacheIsCurrent
  <1>2. clients[c].loaded = Truth(project_rows, clients[c].key)
    BY DEF LoadedIsCurrent
  <1>3. CASE /\ cache' = [cache EXCEPT ![clients[c].key] = clients[c].loaded]
             /\ spoiled' = spoiled \ {clients[c].key}
    <2>1. CacheIsCurrent'
      BY <1>1, <1>2, <1>3 DEF CacheIsCurrent, Truth, CacheTypeOK
    <2> QED
      BY <1>3, <2>1, FinishIsQuiet DEF CacheTypeOK
  <1>4. CASE UNCHANGED <<cache, spoiled>>
    <2>1. CacheIsCurrent'
      BY <1>1, <1>4 DEF CacheIsCurrent, Truth
    <2> QED
      BY <1>4, <2>1, FinishIsQuiet DEF CacheTypeOK
  <1> QED
    BY <1>3, <1>4

\* A write makes its own entry and the list old, and says so.
LEMMA WriteKeepsInv ==
  ASSUME CacheInv, NEW c \in Clients, NEW version \in Versions \cup {NoEntry}, Write(c, version)
  PROVE  CacheInv'
  <1> USE DEF CacheInv, Write
  <1> DEFINE p == clients[c].key
  <1>1. p \in ProjectIds
    BY DEF WritersNameAProject
  <1>2. clients[c] \in Requests
    BY DEF CacheTypeOK
  <1>3. clients' \in [Clients -> Requests] /\ clients'[c].at = "invalidate" /\ clients'[c].key = p
    BY <1>2 DEF CacheTypeOK, Requests, Positions
  <1>4. \A d \in Clients : d # c => clients'[d] = clients[d] /\ clients[d].at = "idle"
    BY DEF CacheTypeOK, LockIsHeld
  <1>5. CacheTypeOK'
    BY <1>1, <1>3 DEF CacheTypeOK, ProjectTables
  <1>6. LockIsHeld' /\ LoadedIsCurrent' /\ WritersNameAProject'
    BY <1>1, <1>3, <1>4 DEF LockIsHeld, LoadedIsCurrent, WritersNameAProject
  <1>7. CacheIsCurrent'
    <2> SUFFICES ASSUME NEW key \in Keys
                 PROVE  \/ cache[key] = NoEntry \/ cache[key] = Truth(project_rows, key)'
                        \/ key \in spoiled \/ BeingWritten(key)'
      BY DEF CacheIsCurrent
    <2>1. CASE key \in {p, All}
      BY <1>3, <2>1 DEF BeingWritten
    <2>2. CASE key \notin {p, All}
      <3>1. Truth(project_rows, key)' = Truth(project_rows, key)
        BY <1>1, <2>2, WriteIsLocal DEF CacheTypeOK
      <3>2. cache[key] = NoEntry \/ cache[key] = Truth(project_rows, key) \/ key \in spoiled
        BY NobodyInvalidates DEF CacheIsCurrent
      <3> QED
        BY <3>1, <3>2
    <2> QED
      BY <2>1, <2>2
  <1> QED
    BY <1>5, <1>6, <1>7

\* The deletion removes what the write made old, or leaves it for all to see.
LEMMA InvalidateKeepsInv ==
  ASSUME CacheInv, NEW c \in Clients, Invalidate(c)
  PROVE  CacheInv'
  <1> USE DEF CacheInv, Invalidate
  <1>1. \A key \in Keys :
          \/ cache[key] = NoEntry \/ cache[key] = Truth(project_rows, key)
          \/ key \in spoiled \/ key \in {clients[c].key, All}
    BY DEF CacheIsCurrent, BeingWritten, LockIsHeld
  <1>2. CASE /\ cache' = [key \in Keys |-> IF key \in Deleted(clients[c].key) THEN NoEntry ELSE cache[key]]
             /\ spoiled' = spoiled \ Deleted(clients[c].key)
    <2>1. CacheIsCurrent'
      BY <1>1, <1>2 DEF CacheIsCurrent, Deleted, Truth
    <2> QED
      BY <1>2, <2>1, FinishIsQuiet DEF CacheTypeOK
  <1>3. CASE UNCHANGED cache /\ spoiled' = spoiled \cup {clients[c].key, All}
    <2>1. CacheIsCurrent'
      BY <1>1, <1>3 DEF CacheIsCurrent, Truth
    <2> QED
      BY <1>3, <2>1, FinishIsQuiet DEF CacheTypeOK
  <1> QED
    BY <1>2, <1>3

\* A request that is cut off leaves no entry old without a trace.
LEMMA AbortKeepsInv ==
  ASSUME CacheInv, NEW c \in Clients, Abort(c)
  PROVE  CacheInv'
  <1> USE DEF CacheInv, Abort
  <1>1. CacheIsCurrent'
    <2>1. CASE clients[c].at = "invalidate"
      BY <2>1 DEF CacheIsCurrent, BeingWritten, LockIsHeld, Truth
    <2>2. CASE clients[c].at # "invalidate"
      BY <2>2, NobodyInvalidates DEF CacheIsCurrent, Truth
    <2> QED
      BY <2>1, <2>2
  <1> QED
    BY <1>1, FinishIsQuiet DEF CacheTypeOK

LEMMA ExpireKeepsInv ==
  ASSUME CacheInv, NEW key \in Keys, Expire(key)
  PROVE  CacheInv'
  BY DEF CacheInv, Expire, CacheTypeOK, LockIsHeld, LoadedIsCurrent, WritersNameAProject,
     CacheIsCurrent, BeingWritten, Truth

LEMMA CacheStepKeepsInv == CacheInv /\ [CacheNext]_cacheVars => CacheInv'
  <1> SUFFICES ASSUME CacheInv, [CacheNext]_cacheVars PROVE CacheInv'
    OBVIOUS
  <1>1. ASSUME NEW c \in Clients, NEW key \in Keys, Begin(c, "lookup", key) PROVE CacheInv'
    BY <1>1, BeginKeepsInv
  <1>2. ASSUME NEW c \in Clients, NEW p \in ProjectIds, Begin(c, "write", p) PROVE CacheInv'
    BY <1>2, BeginKeepsInv DEF Keys
  <1>3. ASSUME NEW c \in Clients, Lookup(c) \/ Load(c) \/ Fill(c) \/ Invalidate(c) \/ Abort(c)
        PROVE  CacheInv'
    BY <1>3, LookupKeepsInv, LoadKeepsInv, FillKeepsInv, InvalidateKeepsInv, AbortKeepsInv
  <1>4. CASE UNCHANGED cacheVars
    BY <1>4 DEF cacheVars, CacheInv, CacheTypeOK, LockIsHeld, LoadedIsCurrent,
       WritersNameAProject, CacheIsCurrent, BeingWritten, Truth
  <1> QED
    BY <1>1, <1>2, <1>3, <1>4, WriteKeepsInv, ExpireKeepsInv DEF CacheNext

-----------------------------------------------------------------------------
(* The theorem.                                                            *)

\* No read fills in what a write has replaced (CachedProjectRepository.get and
\* list under the business lock of ProjectService): an entry differs from the
\* table only between a write and its deletion, or when that deletion failed.
THEOREM CacheStaysCurrent == CacheSpec => []CacheIsCurrent
  <1>1. CacheInv => CacheIsCurrent
    BY DEF CacheInv
  <1> QED
    BY CacheInitInv, CacheStepKeepsInv, <1>1, PTL DEF CacheSpec

-----------------------------------------------------------------------------
(***************************************************************************)
(* Row locks.  Deadlock is excluded by an order of the rows: a transaction *)
(* waits only for a row that comes after all it has locked.  The order has *)
(* one blemish.  The dispatcher locks an intent before its run, and a      *)
(* cancellation the run before its intent, so that intents have one of two *)
(* places in the order, and a group that waits in a circle has             *)
(* transactions of both kinds.                                             *)
(***************************************************************************)
LockableRows ==
  {TaskRow(t) : t \in TaskRows} \cup {DeviceRow(d) : d \in DeviceRows}
    \cup {LeaseRow(l) : l \in DOMAIN LeaseGraph}
    \cup {Schedule, Wakeup, ProviderConnection, WebhookEvent, ProviderRun, TriggerIntent}

IntentFirst == 6
RunFirst == 8

Level(row, intent) ==
  CASE row[1] = "schedule" -> 0
    [] row[1] = "task" -> 1
    [] row[1] = "device" -> 2
    [] row[1] = "lease" -> 3
    [] row[1] = "wakeup" -> 4
    [] row[1] = "connection" -> 5
    [] row[1] = "run" -> 7
    [] row[1] = "event" -> 9
    [] OTHER -> intent

Before(intent, a, b) ==
  \/ Level(a, intent) < Level(b, intent)
  \/ a[1] = "task" /\ b[1] = "task" /\ a[2] < b[2]

\* All that a transaction has yet to wait for comes after what it holds by then.
Ordered(intent, transaction) ==
  \A i \in DOMAIN transaction.todo :
    ~transaction.todo[i].skip =>
      \A row \in transaction.todo[i].rows :
        /\ \A first \in transaction.held : Before(intent, first, row)
        /\ \A j \in 1..(i - 1) : \A first \in transaction.todo[j].rows : Before(intent, first, row)

LockRequests == [rows : SUBSET LockableRows, skip : BOOLEAN, needed : BOOLEAN]
LockNames ==
  {"none", "task", "claim task", "device", "lease", "acquire", "claim schedule", "schedule",
   "finish schedule", "claim wake-up", "wake-up", "claim intent", "intent", "cancel", "run",
   "webhook", "connection"}
LockTransactions == [name : LockNames, todo : Seq(LockRequests), held : SUBSET LockableRows]

TransactionInv(transaction) ==
  /\ transaction \in LockTransactions
  /\ transaction.name # "cancel" => Ordered(IntentFirst, transaction)
  /\ transaction.name \notin {"claim intent", "intent"} => Ordered(RunFirst, transaction)

LocksInv ==
  /\ in_flight = [x \in DbSessions |-> in_flight[x]]
  /\ \A x \in DbSessions : TransactionInv(in_flight[x])

LEMMA LevelsOfRows ==
  ASSUME NEW k
  PROVE  /\ Level(Schedule, k) = 0 /\ Level(Wakeup, k) = 4 /\ Level(ProviderConnection, k) = 5
         /\ Level(TriggerIntent, k) = k /\ Level(ProviderRun, k) = 7 /\ Level(WebhookEvent, k) = 9
         /\ \A t : Level(TaskRow(t), k) = 1 /\ TaskRow(t)[1] = "task" /\ TaskRow(t)[2] = t
         /\ \A d : Level(DeviceRow(d), k) = 2
         /\ \A l : Level(LeaseRow(l), k) = 3
  <1>1. Level(Schedule, k) = 0 /\ Level(Wakeup, k) = 4 /\ Level(ProviderConnection, k) = 5
    BY DEF Level, Schedule, Wakeup, ProviderConnection
  <1>2. Level(TriggerIntent, k) = k /\ Level(ProviderRun, k) = 7 /\ Level(WebhookEvent, k) = 9
    BY DEF Level, TriggerIntent, ProviderRun, WebhookEvent
  <1>3. \A t : Level(TaskRow(t), k) = 1 /\ TaskRow(t)[1] = "task" /\ TaskRow(t)[2] = t
    BY DEF Level, TaskRow
  <1>4. \A d : Level(DeviceRow(d), k) = 2
    BY DEF Level, DeviceRow
  <1>5. \A l : Level(LeaseRow(l), k) = 3
    BY DEF Level, LeaseRow
  <1>6. QED
    BY <1>1, <1>2, <1>3, <1>4, <1>5

LEMMA RowsHaveLevels ==
  ASSUME NEW k \in {IntentFirst, RunFirst}, NEW a \in LockableRows
  PROVE  Level(a, k) \in Nat /\ (a[1] = "task" => a[2] \in Nat)
  <1>1. Level(a, k) \in Nat
    BY DEF Level, IntentFirst, RunFirst
  <1>2. a[1] = "task" => a[2] \in Nat
    BY RowLocksAssumption
    DEF LockableRows, TaskRow, DeviceRow, LeaseRow, Schedule, Wakeup, ProviderConnection,
        WebhookEvent, ProviderRun, TriggerIntent
  <1>3. QED
    BY <1>1, <1>2

LEMMA BeforeIsAnOrder ==
  ASSUME NEW k \in {IntentFirst, RunFirst},
         NEW a \in LockableRows, NEW b \in LockableRows, NEW c \in LockableRows
  PROVE  /\ ~Before(k, a, a)
         /\ Before(k, a, b) /\ Before(k, b, c) => Before(k, a, c)
  <1>1. /\ Level(a, k) \in Nat /\ Level(b, k) \in Nat /\ Level(c, k) \in Nat
        /\ a[1] = "task" => a[2] \in Nat /\ Level(a, k) = 1
        /\ b[1] = "task" => b[2] \in Nat /\ Level(b, k) = 1
        /\ c[1] = "task" => c[2] \in Nat /\ Level(c, k) = 1
    BY RowsHaveLevels DEF Level
  <1>2. QED
    BY <1>1 DEF Before

(***************************************************************************)
(* A finite set of rows has one that no other of them comes after: in a    *)
(* smallest set without one, taking a row away leaves a set that has one,  *)
(* and either this row or the one taken away is last in the whole set.     *)
(***************************************************************************)
LEMMA LastRow ==
  ASSUME NEW k \in {IntentFirst, RunFirst},
         NEW table \in SUBSET LockableRows, IsFiniteSet(table), table # {}
  PROVE  \E m \in table : \A b \in table : ~Before(k, m, b)
  <1> DEFINE HasLast(T) == \E m \in T : \A b \in T : ~Before(k, m, b)
             Bad == {T \in FiniteSubsetsOf(table) : T # {} /\ ~HasLast(T)}
  <1>1. SUFFICES ASSUME Bad # {} PROVE FALSE
    <2>1. table \in FiniteSubsetsOf(table)
      BY DEF FiniteSubsetsOf
    <2>2. QED
      BY <2>1, <1>1
  <1>2. PICK T \in Bad : \A U \in Bad : <<U, T>> \notin StrictSubsetOrdering(table)
    BY <1>1, FS_StrictSubsetOrderingWellFounded, WFMin
  <1>3. T \subseteq table /\ IsFiniteSet(T) /\ T # {} /\ ~HasLast(T)
    BY <1>2 DEF FiniteSubsetsOf
  <1>4. PICK a \in T : TRUE
    BY <1>3
  <1> DEFINE U == T \ {a}
  <1>5. IsFiniteSet(U) /\ U \subseteq table /\ <<U, T>> \in StrictSubsetOrdering(table)
    BY <1>3, <1>4, FS_RemoveElement DEF StrictSubsetOrdering
  <1>6. U # {}
    <2>1. SUFFICES ASSUME U = {} PROVE HasLast(T)
      BY <1>3
    <2>2. T = {a}
      BY <2>1, <1>4
    <2>3. QED
      BY <2>2, <1>3, <1>4, BeforeIsAnOrder
  <1>7. HasLast(U)
    BY <1>2, <1>5, <1>6 DEF FiniteSubsetsOf
  <1>8. PICK m \in U : \A b \in U : ~Before(k, m, b)
    BY <1>7
  <1>9. Before(k, m, a)
    BY <1>3, <1>4, <1>8
  <1>10. PICK b \in T : Before(k, a, b)
    BY <1>3, <1>4
  <1>11. b \in U
    BY <1>3, <1>4, <1>10, BeforeIsAnOrder
  <1>12. QED
    BY <1>3, <1>4, <1>8, <1>9, <1>10, <1>11, BeforeIsAnOrder

-----------------------------------------------------------------------------
(* Every transaction waits in the order of the rows.                       *)

LEMMA RequestsAreTyped ==
  /\ \A row \in LockableRows : Await(row) \in LockRequests
  /\ \A table \in SUBSET LockableRows, needed \in BOOLEAN : SkipLocked(table, needed) \in LockRequests
  /\ \A row : Await(row).rows = {row}
  /\ \A table, needed : SkipLocked(table, needed).rows = table /\ SkipLocked(table, needed).skip
  BY DEF Await, SkipLocked, LockRequests

\* A transaction starts with nothing held: its requests have to be in order.
RequestsInOrder(intent, requests) ==
  \A i, j \in DOMAIN requests :
    j < i /\ ~requests[i].skip =>
      \A row \in requests[i].rows : \A first \in requests[j].rows : Before(intent, first, row)

LEMMA OrderedAtFirst ==
  ASSUME NEW k, NEW requests, requests \in Seq(LockRequests),
         RequestsInOrder(k, requests), NEW name
  PROVE  Ordered(k, Transaction(name, requests))
  <1>1. Transaction(name, requests).todo = requests /\ Transaction(name, requests).held = {}
    BY DEF Transaction
  <1>2. \A i \in DOMAIN requests : \A j \in 1..(i - 1) : j \in DOMAIN requests /\ j < i
    OBVIOUS
  <1>3. QED
    BY <1>1, <1>2 DEF Ordered, RequestsInOrder

LEMMA OneRequest ==
  ASSUME NEW k, NEW q \in LockRequests
  PROVE  <<q>> \in Seq(LockRequests) /\ RequestsInOrder(k, <<q>>)
  BY DEF RequestsInOrder

LEMMA TwoRequests ==
  ASSUME NEW k, NEW p \in LockRequests, NEW q \in LockRequests,
         q.skip \/ \A row \in q.rows : \A first \in p.rows : Before(k, first, row)
  PROVE  <<p, q>> \in Seq(LockRequests) /\ RequestsInOrder(k, <<p, q>>)
  <1> DEFINE s == <<p, q>>
  <1>1. s \in Seq(LockRequests) /\ DOMAIN s = {1, 2} /\ s[1] = p /\ s[2] = q
    OBVIOUS
  <1> HIDE DEF s
  <1>2. RequestsInOrder(k, s)
    BY <1>1 DEF RequestsInOrder
  <1>3. QED
    BY <1>1, <1>2 DEF s

LEMMA ThreeRequests ==
  ASSUME NEW k, NEW p \in LockRequests, NEW q \in LockRequests, NEW o \in LockRequests,
         \A row \in q.rows : \A first \in p.rows : Before(k, first, row),
         \A row \in o.rows : \A first \in p.rows \cup q.rows : Before(k, first, row)
  PROVE  <<p, q, o>> \in Seq(LockRequests) /\ RequestsInOrder(k, <<p, q, o>>)
  <1> DEFINE s == <<p, q, o>>
  <1>1. s \in Seq(LockRequests) /\ DOMAIN s = {1, 2, 3} /\ s[1] = p /\ s[2] = q /\ s[3] = o
    OBVIOUS
  <1> HIDE DEF s
  <1>2. RequestsInOrder(k, s)
    BY <1>1 DEF RequestsInOrder
  <1>3. QED
    BY <1>1, <1>2 DEF s

LEMMA TransactionTyped ==
  ASSUME NEW name \in LockNames, NEW requests \in Seq(LockRequests)
  PROVE  /\ Transaction(name, requests) \in LockTransactions
         /\ Transaction(name, requests).name = name
  BY DEF Transaction, LockTransactions

InOrder(requests) ==
  /\ requests \in Seq(LockRequests)
  /\ \A k \in {IntentFirst, RunFirst} : RequestsInOrder(k, requests)

LEMMA StartsInOrder ==
  ASSUME NEW name \in LockNames, NEW requests \in Seq(LockRequests),
         name # "cancel" => RequestsInOrder(IntentFirst, requests),
         name \notin {"claim intent", "intent"} => RequestsInOrder(RunFirst, requests)
  PROVE  TransactionInv(Transaction(name, requests))
  <1>1. /\ Transaction(name, requests) \in LockTransactions
        /\ Transaction(name, requests).name = name
    BY TransactionTyped
  <1>2. \A k : RequestsInOrder(k, requests) => Ordered(k, Transaction(name, requests))
    BY OrderedAtFirst
  <1>3. QED
    BY <1>1, <1>2 DEF TransactionInv

LEMMA AutomationInOrder ==
  ASSUME NEW transaction \in RuntimeTransactions \ ProviderTransactions
  PROVE  TransactionInv(transaction)
  <1>1. \A t \in TaskRows : InOrder(TaskOperation(t))
    BY RequestsAreTyped, OneRequest DEF InOrder, TaskOperation, LockableRows
  <1>2. InOrder(TaskClaim)
    <2> DEFINE table == {TaskRow(t) : t \in TaskRows}
    <2>1. table \in SUBSET LockableRows
      BY DEF LockableRows
    <2>2. SkipLocked(table, FALSE) \in LockRequests /\ SkipLocked(table, TRUE) \in LockRequests
          /\ SkipLocked(table, TRUE).skip
      BY <2>1, RequestsAreTyped
    <2>3. TaskClaim = <<SkipLocked(table, FALSE), SkipLocked(table, TRUE)>>
      BY DEF TaskClaim
    <2>4. QED
      BY <2>2, <2>3, TwoRequests DEF InOrder
  <1>3. \A d \in DeviceRows : InOrder(DeviceOperation(d))
    BY RequestsAreTyped, OneRequest DEF InOrder, DeviceOperation, LockableRows
  <1>4. ASSUME NEW l \in DOMAIN LeaseGraph PROVE InOrder(LeaseOperation(l))
    <2> DEFINE t == TaskRow(LeaseGraph[l].task)
               d == DeviceRow(LeaseGraph[l].device)
    <2>1. t \in LockableRows /\ d \in LockableRows /\ LeaseRow(l) \in LockableRows
      BY <1>4, RowLocksAssumption DEF LockableRows
    <2>2. LeaseOperation(l) = <<Await(t), Await(d), Await(LeaseRow(l))>>
      BY DEF LeaseOperation
    <2>3. ASSUME NEW k \in {IntentFirst, RunFirst}
          PROVE  Before(k, t, d) /\ Before(k, t, LeaseRow(l)) /\ Before(k, d, LeaseRow(l))
      <3>1. Level(t, k) = 1 /\ Level(d, k) = 2 /\ Level(LeaseRow(l), k) = 3
        BY LevelsOfRows
      <3> HIDE DEF t, d
      <3>2. QED
        BY <3>1 DEF Before
    <2> HIDE DEF t, d
    <2>4. /\ Await(t).rows = {t} /\ Await(d).rows = {d} /\ Await(LeaseRow(l)).rows = {LeaseRow(l)}
          /\ Await(t) \in LockRequests /\ Await(d) \in LockRequests /\ Await(LeaseRow(l)) \in LockRequests
      BY <2>1, RequestsAreTyped
    <2>5. QED
      BY <2>2, <2>3, <2>4, ThreeRequests DEF InOrder
  <1>5. ASSUME NEW t \in TaskRows, NEW l \in DOMAIN LeaseGraph PROVE InOrder(Acquisition(t, l))
    <2> DEFINE table == {DeviceRow(d) : d \in DeviceRows}
    <2>1. table \in SUBSET LockableRows
      BY DEF LockableRows
    <2>2. TaskRow(t) \in LockableRows
      BY DEF LockableRows
    <2>3. Await(TaskRow(t)) \in LockRequests /\ SkipLocked(table, TRUE) \in LockRequests
          /\ SkipLocked(table, TRUE).skip
      BY <2>1, <2>2, RequestsAreTyped
    <2>4. Acquisition(t, l) = <<Await(TaskRow(t)), SkipLocked(table, TRUE)>>
      BY DEF Acquisition
    <2>5. QED
      BY <2>3, <2>4, TwoRequests DEF InOrder
  <1>6. /\ InOrder(ScheduleClaim) /\ InOrder(ScheduleEdit)
        /\ InOrder(WakeupClaim) /\ InOrder(WakeupSettlement)
    <2>1. /\ SkipLocked({Schedule}, TRUE) \in LockRequests /\ Await(Schedule) \in LockRequests
          /\ SkipLocked({Wakeup}, TRUE) \in LockRequests /\ Await(Wakeup) \in LockRequests
      BY RequestsAreTyped DEF LockableRows
    <2>2. QED
      BY <2>1, OneRequest DEF InOrder, ScheduleClaim, ScheduleEdit, WakeupClaim, WakeupSettlement
  <1>7. ASSUME NEW active \in TasksByPrimaryKey PROVE InOrder(ScheduleFinish(active))
    <2> DEFINE s == ScheduleFinish(active)
    <2>1. PICK n \in Nat : active \in [1..n -> TaskRows]
      BY <1>7 DEF TasksByPrimaryKey
    <2>2. /\ \A i \in 1..n : active[i] \in TaskRows
          /\ \A i, j \in 1..n : i < j => active[i] < active[j]
      BY <1>7, <2>1 DEF TasksByPrimaryKey
    <2> DEFINE updates == [i \in DOMAIN active |-> Await(TaskRow(active[i]))]
    <2>3. updates \in Seq(LockRequests) /\ Len(updates) = n
      <3>1. \A i \in 1..n : Await(TaskRow(active[i])) \in LockRequests
        BY <2>2, RequestsAreTyped DEF LockableRows
      <3>2. updates \in [1..n -> LockRequests]
        BY <2>1, <3>1
      <3>3. QED
        BY <3>2
    <2>4. <<Await(Schedule)>> \in Seq(LockRequests) /\ Len(<<Await(Schedule)>>) = 1
      BY RequestsAreTyped DEF LockableRows
    <2>5. s = <<Await(Schedule)>> \o updates
      BY DEF ScheduleFinish
    <2>6. /\ s \in Seq(LockRequests) /\ DOMAIN s = 1..(n + 1)
          /\ s[1] = Await(Schedule)
          /\ \A i \in 2..(n + 1) : s[i] = updates[i - 1]
      <3> HIDE DEF s, updates
      <3>1. QED
        BY <2>3, <2>4, <2>5
    <2>7. /\ s[1].rows = {Schedule}
          /\ \A i \in 2..(n + 1) : s[i].rows = {TaskRow(active[i - 1])}
      <3>1. \A i \in 2..(n + 1) : i - 1 \in 1..n
        OBVIOUS
      <3>2. \A i \in 1..n : updates[i] = Await(TaskRow(active[i]))
        BY <2>1
      <3> HIDE DEF s, updates
      <3>3. QED
        BY <2>6, <3>1, <3>2, RequestsAreTyped
    <2>8. ASSUME NEW k \in {IntentFirst, RunFirst}, NEW i \in 1..(n + 1), NEW j \in 1..(n + 1), j < i,
                 NEW row \in s[i].rows, NEW first \in s[j].rows
          PROVE  Before(k, first, row)
      <3>1. i \in 2..(n + 1) /\ row = TaskRow(active[i - 1]) /\ i - 1 \in 1..n
        BY <2>7, <2>8
      <3>2. CASE j = 1
        BY <3>1, <3>2, <2>7, LevelsOfRows DEF Before
      <3>3. CASE j # 1
        <4>1. first = TaskRow(active[j - 1]) /\ j - 1 \in 1..n /\ j - 1 < i - 1
          BY <2>7, <2>8, <3>3
        <4>2. active[j - 1] < active[i - 1]
          BY <2>2, <3>1, <4>1
        <4>3. QED
          BY <3>1, <4>1, <4>2, LevelsOfRows DEF Before
      <3>4. QED
        BY <3>2, <3>3
    <2> HIDE DEF s
    <2>9. InOrder(s)
      BY <2>6, <2>8 DEF InOrder, RequestsInOrder
    <2>10. QED
      BY <2>9 DEF s
  <1>0. ASSUME NEW name \in LockNames, NEW requests, InOrder(requests)
        PROVE  TransactionInv(Transaction(name, requests))
    BY <1>0, StartsInOrder DEF InOrder
  <1>8. CASE transaction \in TaskTransactions
    BY <1>0, <1>1, <1>2, <1>8 DEF TaskTransactions, LockNames
  <1>9. CASE transaction \in DeviceTransactions
    <2>1. CASE \E d \in DeviceRows : transaction = Transaction("device", DeviceOperation(d))
      BY <1>0, <1>3, <2>1 DEF LockNames
    <2>2. CASE \E l \in DOMAIN LeaseGraph : transaction = Transaction("lease", LeaseOperation(l))
      BY <1>0, <1>4, <2>2 DEF LockNames
    <2>3. CASE \E t \in TaskRows : \E l \in DOMAIN LeaseGraph :
                  transaction = Transaction("acquire", Acquisition(t, l))
      BY <1>0, <1>5, <2>3 DEF LockNames
    <2>4. QED
      BY <1>9, <2>1, <2>2, <2>3 DEF DeviceTransactions
  <1>10. CASE transaction \in ScheduleTransactions
    BY <1>0, <1>6, <1>7, <1>10 DEF ScheduleTransactions, LockNames
  <1>11. CASE transaction \in WakeupTransactions
    BY <1>0, <1>6, <1>11 DEF WakeupTransactions, LockNames
  <1>12. QED
    BY <1>8, <1>9, <1>10, <1>11 DEF RuntimeTransactions

\* The requests of provider transactions, in the order each allows.
LEMMA ProvidersInOrder ==
  ASSUME NEW transaction \in ProviderTransactions
  PROVE  TransactionInv(transaction)
  <1>1. /\ {Await(ProviderConnection), Await(WebhookEvent), Await(ProviderRun), Await(TriggerIntent)}
             \subseteq LockRequests
        /\ SkipLocked({TriggerIntent}, TRUE) \in LockRequests
    <2>1. {ProviderConnection, WebhookEvent, ProviderRun, TriggerIntent} \subseteq LockableRows
      BY DEF LockableRows
    <2>2. ASSUME NEW row \in {ProviderConnection, WebhookEvent, ProviderRun, TriggerIntent}
          PROVE  Await(row) \in LockRequests
      BY <2>1, RequestsAreTyped
    <2>3. SkipLocked({TriggerIntent}, TRUE) \in LockRequests
      BY <2>1, RequestsAreTyped
    <2>4. QED
      BY <2>2, <2>3
  <1>2. \A k \in {IntentFirst, RunFirst} :
          /\ Before(k, ProviderConnection, WebhookEvent)
          /\ Before(k, ProviderConnection, ProviderRun)
          /\ Before(k, ProviderRun, WebhookEvent)
    BY LevelsOfRows DEF Before
  <1>3. Before(IntentFirst, TriggerIntent, ProviderRun) /\ Before(RunFirst, ProviderRun, TriggerIntent)
    BY LevelsOfRows DEF Before, IntentFirst, RunFirst
  <1>4. /\ RequestsInOrder(IntentFirst, IntentClaim) /\ IntentClaim \in Seq(LockRequests)
        /\ RequestsInOrder(IntentFirst, IntentSettlement) /\ IntentSettlement \in Seq(LockRequests)
        /\ RequestsInOrder(RunFirst, CancellationBeforeDispatch)
        /\ CancellationBeforeDispatch \in Seq(LockRequests)
    <2>1. /\ SkipLocked({TriggerIntent}, TRUE).rows = {TriggerIntent}
          /\ Await(TriggerIntent).rows = {TriggerIntent} /\ Await(ProviderRun).rows = {ProviderRun}
      BY RequestsAreTyped
    <2>2. RequestsInOrder(IntentFirst, IntentClaim) /\ IntentClaim \in Seq(LockRequests)
      BY <1>1, <1>3, <2>1, TwoRequests DEF IntentClaim
    <2>3. RequestsInOrder(IntentFirst, IntentSettlement) /\ IntentSettlement \in Seq(LockRequests)
      BY <1>1, <1>3, <2>1, TwoRequests DEF IntentSettlement
    <2>4. /\ RequestsInOrder(RunFirst, CancellationBeforeDispatch)
          /\ CancellationBeforeDispatch \in Seq(LockRequests)
      BY <1>1, <1>3, <2>1, TwoRequests DEF CancellationBeforeDispatch
    <2>5. QED
      BY <2>2, <2>3, <2>4
  <1>5. InOrder(RunRefresh) /\ InOrder(ConnectionEdit)
    BY <1>1, OneRequest DEF InOrder, RunRefresh, ConnectionEdit
  <1>6. InOrder(KnownEvent)
    BY <1>1, <1>2, TwoRequests, RequestsAreTyped DEF InOrder, KnownEvent
  <1>7. InOrder(WebhookDelivery)
    BY <1>1, <1>2, ThreeRequests, RequestsAreTyped DEF InOrder, WebhookDelivery
  <1>8. CASE transaction \in {Transaction("claim intent", IntentClaim),
                              Transaction("intent", IntentSettlement)}
    BY <1>4, <1>8, StartsInOrder DEF LockNames
  <1>9. CASE transaction = Transaction("cancel", CancellationBeforeDispatch)
    BY <1>4, <1>9, StartsInOrder DEF LockNames
  <1>10. CASE transaction \in {Transaction("run", RunRefresh), Transaction("webhook", WebhookDelivery),
                               Transaction("webhook", KnownEvent),
                               Transaction("connection", ConnectionEdit)}
    BY <1>5, <1>6, <1>7, <1>10, StartsInOrder DEF InOrder, LockNames
  <1>11. QED
    BY <1>8, <1>9, <1>10 DEF ProviderTransactions

LEMMA TransactionsInOrder ==
  \A transaction \in RuntimeTransactions : TransactionInv(transaction)
  BY AutomationInOrder, ProvidersInOrder

\* Locking what is at the head of the requests keeps the rest in order.
LEMMA LockingKeepsOrder ==
  ASSUME NEW x \in LockTransactions, x.todo # <<>>, TransactionInv(x),
         NEW found \in SUBSET Head(x.todo).rows,
         NEW y, y = [x EXCEPT !.held = @ \cup found, !.todo = Tail(@)]
  PROVE  TransactionInv(y)
  <1>1. /\ x.todo \in Seq(LockRequests) /\ x.held \in SUBSET LockableRows /\ x.name \in LockNames
        /\ x.todo[1] = Head(x.todo) /\ Head(x.todo) \in LockRequests
    BY DEF LockTransactions
  <1>2. y.name = x.name /\ y.held = x.held \cup found /\ y.todo = Tail(x.todo)
    BY DEF LockTransactions
  <1>3. y \in LockTransactions
    <2>1. y = [name |-> x.name, todo |-> Tail(x.todo), held |-> x.held \cup found]
      BY DEF LockTransactions
    <2>2. Tail(x.todo) \in Seq(LockRequests)
      BY <1>1
    <2>3. x.held \cup found \in SUBSET LockableRows
      BY <1>1 DEF LockRequests
    <2>4. QED
      BY <1>1, <2>1, <2>2, <2>3 DEF LockTransactions
  <1>4. /\ \A i \in DOMAIN y.todo : i + 1 \in DOMAIN x.todo /\ y.todo[i] = x.todo[i + 1]
        /\ 1 \in DOMAIN x.todo
    BY <1>1, <1>2
  <1>5. ASSUME NEW k, Ordered(k, x) PROVE Ordered(k, y)
    <2>1. SUFFICES ASSUME NEW i \in DOMAIN y.todo, ~y.todo[i].skip, NEW row \in y.todo[i].rows
                   PROVE  /\ \A first \in y.held : Before(k, first, row)
                          /\ \A j \in 1..(i - 1) : \A first \in y.todo[j].rows : Before(k, first, row)
      BY DEF Ordered
    <2>2. /\ \A first \in x.held : Before(k, first, row)
          /\ \A j \in 1..i : \A first \in x.todo[j].rows : Before(k, first, row)
      <3>1. i + 1 \in DOMAIN x.todo /\ ~x.todo[i + 1].skip /\ row \in x.todo[i + 1].rows
            /\ i \in Nat
        BY <1>4, <2>1, <1>2, <1>1
      <3>2. (i + 1) - 1 = i
        BY <3>1
      <3>3. QED
        BY <1>5, <3>1, <3>2 DEF Ordered
    <2>3. i \in Nat /\ 1 \in 1..i
      BY <1>1, <1>2, <2>1
    <2>4. \A first \in found : Before(k, first, row)
      BY <1>1, <2>2, <2>3
    <2>5. ASSUME NEW j \in 1..(i - 1) PROVE y.todo[j] = x.todo[j + 1] /\ j + 1 \in 1..i
      BY <1>1, <1>2, <1>4, <2>1
    <2>6. QED
      BY <1>2, <2>2, <2>4, <2>5
  <1>6. QED
    BY <1>2, <1>3, <1>5 DEF TransactionInv

LEMMA LocksInitially == RowLocksInit => LocksInv
  <1>1. ASSUME RowLocksInit PROVE \A x \in DbSessions : TransactionInv(in_flight[x])
    <2>1. Quiet \in LockTransactions
      BY DEF Quiet, LockTransactions, LockNames
    <2>2. \A k : Ordered(k, Quiet)
      BY DEF Ordered, Quiet
    <2>3. QED
      BY <1>1, <2>1, <2>2 DEF RowLocksInit, TransactionInv
  <1>2. QED
    BY <1>1 DEF RowLocksInit, LocksInv

LEMMA LocksNext == LocksInv /\ [RowLocksNext]_in_flight => LocksInv'
  <1> SUFFICES ASSUME LocksInv, [RowLocksNext]_in_flight PROVE LocksInv'
    OBVIOUS
  <1>1. ASSUME NEW x \in DbSessions, NEW new, TransactionInv(new),
               in_flight' = [in_flight EXCEPT ![x] = new]
        PROVE  LocksInv'
    BY <1>1 DEF LocksInv
  <1>2. ASSUME NEW x \in DbSessions PROVE in_flight[x] \in LockTransactions /\ TransactionInv(in_flight[x])
    BY <1>2 DEF LocksInv, TransactionInv
  <1>3. ASSUME NEW x \in DbSessions, BeginTransaction(x) PROVE LocksInv'
    BY <1>1, <1>3, TransactionsInOrder DEF BeginTransaction
  <1>4. ASSUME NEW x \in DbSessions, NEW found, found \in SUBSET Head(in_flight[x].todo).rows,
               in_flight[x].todo # <<>>,
               in_flight' = [in_flight EXCEPT ![x].held = @ \cup found, ![x].todo = Tail(@)]
        PROVE  LocksInv'
    <2> DEFINE old == in_flight[x]
               new == [old EXCEPT !.held = @ \cup found, !.todo = Tail(@)]
    <2>1. TransactionInv(new)
      BY <1>2, <1>4, LockingKeepsOrder
    <2>2. in_flight' = [in_flight EXCEPT ![x] = new]
      BY <1>2, <1>4 DEF LocksInv, LockTransactions
    <2> HIDE DEF new
    <2>3. QED
      BY <1>1, <2>1, <2>2
  <1>5. ASSUME NEW x \in DbSessions, LockRow(x) PROVE LocksInv'
    BY <1>4, <1>5 DEF LockRow
  <1>6. ASSUME NEW x \in DbSessions, LockFreeRows(x) PROVE LocksInv'
    BY <1>4, <1>6 DEF LockFreeRows
  <1>7. ASSUME NEW x \in DbSessions, EndTransaction(x) PROVE LocksInv'
    <2>1. TransactionInv(Quiet)
      BY DEF TransactionInv, Ordered, Quiet, LockTransactions, LockNames
    <2>2. QED
      BY <1>1, <1>7, <2>1 DEF EndTransaction
  <1>8. CASE UNCHANGED in_flight
    BY <1>8 DEF LocksInv
  <1>9. QED
    BY <1>3, <1>5, <1>6, <1>7, <1>8 DEF RowLocksNext

\* In a circle, the row someone waits for comes after the rows it holds, one
\* of which the one before waits for: without end, in a finite set of rows.
LEMMA OrderExcludesCircles ==
  ASSUME LocksInv, NEW k \in {IntentFirst, RunFirst},
         NEW group \in SUBSET DbSessions, Deadlocked(group),
         \A x \in group : Ordered(k, in_flight[x])
  PROVE  FALSE
  <1> DEFINE Wanted(x, row) == /\ in_flight[x].todo # <<>> /\ ~Head(in_flight[x].todo).skip
                               /\ row \in Head(in_flight[x].todo).rows
                               /\ \E y \in group : row \in in_flight[y].held
             wanted == [x \in group |-> CHOOSE row : Wanted(x, row)]
             table == {wanted[x] : x \in group}
  <1>1. \A x \in group : \E row : Wanted(x, row)
    BY DEF Deadlocked, WaitsFor
  <1>2. \A x \in group : Wanted(x, wanted[x])
    BY <1>1
  <1>3. table \in SUBSET LockableRows
    <2>1. ASSUME NEW y \in group PROVE in_flight[y].held \subseteq LockableRows
      BY DEF LocksInv, TransactionInv, LockTransactions
    <2>2. ASSUME NEW x \in group PROVE wanted[x] \in LockableRows
      <3> HIDE DEF wanted
      <3>1. QED
        BY <1>2, <2>1
    <2> HIDE DEF wanted
    <2>3. QED
      BY <2>2
  <1>4. IsFiniteSet(table) /\ table # {}
    <2>1. IsFiniteSet(group) /\ group # {}
      BY RowLocksAssumption, FS_Subset DEF Deadlocked
    <2> HIDE DEF wanted
    <2>2. wanted \in Surjection(group, table)
      BY DEF Surjection, wanted
    <2>3. QED
      BY <2>1, <2>2, FS_Surjection
  <1>5. PICK x \in group : \A y \in group : ~Before(k, wanted[x], wanted[y])
    <2> HIDE DEF wanted, Wanted
    <2>1. \E m \in table : \A b \in table : ~Before(k, m, b)
      <3> HIDE DEF table
      <3>1. QED
        BY <1>3, <1>4, LastRow
    <2>2. QED
      BY <2>1
  <1>6. PICK y \in group : wanted[x] \in in_flight[y].held
    BY <1>2
  <1>7. Before(k, wanted[x], wanted[y])
    <2>1. /\ in_flight[y].todo \in Seq(LockRequests) /\ in_flight[y].todo # <<>>
          /\ ~Head(in_flight[y].todo).skip /\ wanted[y] \in Head(in_flight[y].todo).rows
      BY <1>2 DEF LocksInv, TransactionInv, LockTransactions
    <2> HIDE DEF wanted
    <2>2. 1 \in DOMAIN in_flight[y].todo /\ in_flight[y].todo[1] = Head(in_flight[y].todo)
      BY <2>1
    <2>3. QED
      BY <1>6, <2>1, <2>2 DEF Ordered
  <1>8. QED
    BY <1>5, <1>7

\* OnlyACancellationDeadlocks, for any number of connections, tasks, devices
\* and leases: without a cancellation in the group intents come before their
\* runs, and without a dispatcher runs before their intents.
THEOREM RowsAreLockedInOrder == RowLocksSpec => []OnlyACancellationDeadlocks
  <1>1. LocksInv => OnlyACancellationDeadlocks
    <2>1. SUFFICES ASSUME LocksInv, NEW group \in SUBSET DbSessions, Deadlocked(group)
                   PROVE  /\ \E x \in group : in_flight[x].name = "cancel"
                          /\ \E x \in group : in_flight[x].name \in {"claim intent", "intent"}
      BY DEF OnlyACancellationDeadlocks
    <2>2. ASSUME \A x \in group : in_flight[x].name # "cancel" PROVE FALSE
      BY <2>1, <2>2, OrderExcludesCircles DEF LocksInv, TransactionInv
    <2>3. ASSUME \A x \in group : in_flight[x].name \notin {"claim intent", "intent"} PROVE FALSE
      BY <2>1, <2>3, OrderExcludesCircles DEF LocksInv, TransactionInv
    <2>4. QED
      BY <2>2, <2>3
  <1>2. QED
    BY <1>1, LocksInitially, LocksNext, PTL DEF RowLocksSpec

=============================================================================
