---------------------------- MODULE ObjectStore -----------------------------
(***************************************************************************)
(* The storage of attachments and artifacts: local directories or S3.      *)
(*                                                                         *)
(* A file is staged and saved; a deletion first moves it aside ("isolate") *)
(* and moves it back when its row could not be changed ("restore").  Every *)
(* S3 operation is a sequence of requests under one permit of a semaphore. *)
(* A fault is a request that fails (applied or not), a row write that      *)
(* raises (committed or not), or a crash; a request that has failed is not *)
(* applied later.                                                          *)
(***************************************************************************)
EXTENDS Naturals, FiniteSets, Faults

CONSTANTS
  Files,          \* the uuids of attachments and artifacts
  Artifacts,      \* those of provider run artifacts
  Backend,        \* of each file: "local" or "s3"
  Deletes, Readers,
  Permits         \* the semaphore: max_concurrency

ASSUME ObjectStoreAssumption ==
  /\ Artifacts \subseteq Files
  /\ Backend \in [Files -> {"local", "s3"}]
  /\ Permits \in Nat \ {0}

VARIABLES
  objects,        \* what the storage holds of each file
  uploads, deletions, readers,
  permits,
  overlapped      \* history: files that two deletions moved at once

storeVars == <<objects, uploads, deletions, readers, permits, overlapped, faults>>

Idle == [at |-> "idle"]

StoreInit ==
  /\ objects = [f \in Files |-> {}]
  /\ uploads = [f \in Files |-> Idle]
  /\ deletions = [d \in Deletes |-> Idle]
  /\ readers = [r \in Readers |-> Idle]
  /\ permits = Permits
  /\ overlapped = {} /\ faults = 0

-----------------------------------------------------------------------------
(* Uploads.                                                                *)

UploadAt(f, at) == uploads' = [uploads EXCEPT ![f].at = at]

\* A failed save ends the upload of an attachment; that of an artifact
\* discards its key once more and settles its row.
AfterFailedSave(f) == IF f \in Artifacts THEN "discarding" ELSE "ended"
AfterDiscard(f) == IF f \in Artifacts THEN "failing" ELSE "ended"

\* LocalAttachmentStorage.save, which is also the staging of S3: the part file
\* is unlinked when the upload breaks off or its content is refused.  A save that
\* is cancelled during the final rename fails and leaves the file all the same.
Stage(f) ==
  /\ uploads[f].at = "staging"
  /\ \/ UploadAt(f, AfterFailedSave(f)) /\ UNCHANGED <<objects, faults>>
     \/ Backend[f] = "s3" /\ UploadAt(f, "staged") /\ UNCHANGED <<objects, faults>>
     \/ Backend[f] = "local" /\ objects' = [objects EXCEPT ![f] = {"original"}]
        /\ \/ UploadAt(f, "stored") /\ UNCHANGED faults
           \/ Fault /\ UploadAt(f, AfterFailedSave(f))
  /\ UNCHANGED <<deletions, readers, permits, overlapped>>

\* One request of a multipart upload.  A failure releases the permit, and the
\* cleanup takes one again; without an upload id there is nothing to abort.
UploadRequest(f, at, next, effect) ==
  /\ uploads[f].at = at
  /\ at = "staged" => permits > 0
  /\ \/ /\ UploadAt(f, next) /\ objects' = [objects EXCEPT ![f] = effect]
        /\ permits' = CASE at = "staged" -> permits - 1 [] next = "stored" -> permits + 1 [] OTHER -> permits
        /\ UNCHANGED faults
     \/ /\ Fault
        /\ UploadAt(f, IF at = "staged" THEN AfterFailedSave(f) ELSE "aborting")
        /\ \E result \in {objects[f], effect} : objects' = [objects EXCEPT ![f] = result]
        /\ permits' = IF at = "staged" THEN permits ELSE permits + 1
  /\ UNCHANGED <<deletions, readers, overlapped>>

CreateMultipart(f) == UploadRequest(f, "staged", "sending", objects[f] \cup {"parts"})
CompleteMultipart(f) ==
  UploadRequest(f, "sending", "completed", (objects[f] \ {"parts"}) \cup {"original"})
VerifyUpload(f) == UploadRequest(f, "completed", "stored", objects[f])

\* _shielded_abort_and_delete after a failed request, discard after a failed
\* row write; both give up in silence, also when no permit is to be had.
Cleanup(f) ==
  /\ uploads[f].at \in {"aborting", "discarding"}
  /\ UploadAt(f, IF uploads[f].at = "aborting" THEN AfterFailedSave(f) ELSE AfterDiscard(f))
  /\ LET removed == IF uploads[f].at = "aborting" THEN {"parts", "original"} ELSE {"original"} IN
     \/ /\ Backend[f] = "s3" => permits > 0
        /\ objects' = [objects EXCEPT ![f] = @ \ removed]
        /\ UNCHANGED faults
     \/ Fault /\ \E left \in SUBSET removed : objects' = [objects EXCEPT ![f] = @ \ left]
  /\ UNCHANGED <<deletions, readers, permits, overlapped>>

-----------------------------------------------------------------------------
(* Moves.  Isolating a file and restoring it are the same requests in      *)
(* opposite directions.                                                    *)

Source(move) == IF move = "isolate" THEN "original" ELSE "isolated"
Copied(move) == IF move = "isolate" THEN "isolated" ELSE "original"
Moving(f) == {d \in Deletes : deletions[d] # Idle /\ deletions[d].file = f}

DeletionAt(d, at) == deletions' = [deletions EXCEPT ![d].at = at]

\* Where a deletion goes when its move is complete.
Moved(d) ==
  deletions' = [deletions EXCEPT ![d] =
                  IF @.move = "isolate" THEN [@ EXCEPT !.at = "commit"] ELSE Idle]

Isolate(d, f) ==
  /\ deletions[d] = Idle
  /\ deletions' = [deletions EXCEPT ![d] = [file |-> f, move |-> "isolate", at |-> "head"]]
  /\ overlapped' = IF Moving(f) = {} THEN overlapped ELSE overlapped \cup {f}
  /\ UNCHANGED <<objects, uploads, readers, permits, faults>>

Restore(d) == deletions' = [deletions EXCEPT ![d] = [@ EXCEPT !.move = "restore", !.at = "head"]]

\* Locally one rename, which fails when the file is not there.
MoveFile(d) ==
  LET f == deletions[d].file IN
  LET from == Source(deletions[d].move) IN
  /\ deletions[d].at = "head" /\ Backend[f] = "local"
  /\ \/ /\ from \in objects[f]
        /\ objects' = [objects EXCEPT ![f] = (@ \ {from}) \cup {Copied(deletions[d].move)}]
        /\ Moved(d)
        /\ UNCHANGED faults
     \/ /\ \/ from \notin objects[f] /\ UNCHANGED faults
           \/ Fault
        /\ deletions' = [deletions EXCEPT ![d] = Idle]
        /\ UNCHANGED objects
  /\ UNCHANGED <<uploads, readers, permits, overlapped>>

HeadSource(d) ==
  LET f == deletions[d].file IN
  /\ deletions[d].at = "head" /\ Backend[f] = "s3" /\ permits > 0
  /\ \/ /\ Source(deletions[d].move) \in objects[f]
        /\ DeletionAt(d, "copy") /\ permits' = permits - 1
        /\ UNCHANGED faults
     \/ /\ \/ Source(deletions[d].move) \notin objects[f] /\ UNCHANGED faults
           \/ Fault
        /\ deletions' = [deletions EXCEPT ![d] = Idle]
        /\ UNCHANGED permits
  /\ UNCHANGED <<objects, uploads, readers, overlapped>>

\* A copy that fails is followed by the deletion of what it may have written.
CopyObject(d) ==
  LET f == deletions[d].file
      found == Source(deletions[d].move) \in objects[f]
      copy == [objects EXCEPT ![f] = @ \cup {Copied(deletions[d].move)}]
  IN
  /\ deletions[d].at = "copy"
  /\ \/ found /\ objects' = copy /\ DeletionAt(d, "verify") /\ UNCHANGED faults
     \/ ~found /\ UNCHANGED objects /\ DeletionAt(d, "undo") /\ UNCHANGED faults
     \/ found /\ Fault /\ objects' \in {objects, copy} /\ DeletionAt(d, "undo")
  /\ UNCHANGED <<uploads, readers, permits, overlapped>>

VerifyCopy(d) ==
  LET present == Copied(deletions[d].move) \in objects[deletions[d].file] IN
  /\ deletions[d].at = "verify"
  /\ \/ present /\ DeletionAt(d, "drop") /\ UNCHANGED faults
     \/ ~present /\ DeletionAt(d, "undo") /\ UNCHANGED faults
     \/ Fault /\ DeletionAt(d, "undo")
  /\ UNCHANGED <<objects, uploads, readers, permits, overlapped>>

BestEffortDelete(f, object) ==
  \/ objects' = [objects EXCEPT ![f] = @ \ {object}] /\ UNCHANGED faults
  \/ Fault /\ UNCHANGED objects

\* The move failed: its copy goes, and the operation raises.  A restore has
\* no caller that would do more, and neither has a failed quarantine.
UndoCopy(d) ==
  /\ deletions[d].at = "undo"
  /\ BestEffortDelete(deletions[d].file, Copied(deletions[d].move))
  /\ deletions' = [deletions EXCEPT ![d] = Idle]
  /\ permits' = permits + 1
  /\ UNCHANGED <<uploads, readers, overlapped>>

\* Faulty variant: the source is deleted before it is copied.
DropBeforeCopy(d) ==
  /\ deletions[d].at \in {"copy", "drop"}
  /\ BestEffortDelete(deletions[d].file, Source(deletions[d].move))
  /\ IF deletions[d].at = "copy" THEN DeletionAt(d, "copy") /\ UNCHANGED permits
     ELSE Moved(d) /\ permits' = permits + 1
  /\ UNCHANGED <<uploads, readers, overlapped>>

DropSource(d) ==
  /\ deletions[d].at = "drop"
  /\ BestEffortDelete(deletions[d].file, Source(deletions[d].move))
  /\ Moved(d)
  /\ permits' = permits + 1
  /\ UNCHANGED <<uploads, readers, overlapped>>

-----------------------------------------------------------------------------
(* Downloads: the object is opened after the row was checked, and an S3    *)
(* stream holds its permit until it is closed.                             *)

BeginRead(r, f) ==
  /\ readers[r] = Idle
  /\ readers' = [readers EXCEPT ![r] = [at |-> "checked", file |-> f]]
  /\ UNCHANGED <<objects, uploads, deletions, permits, overlapped, faults>>

OpenContent(r) ==
  LET f == readers[r].file IN
  /\ readers[r].at = "checked"
  /\ Backend[f] = "s3" => permits > 0
  /\ \/ /\ "original" \in objects[f]
        /\ readers' = [readers EXCEPT ![r].at = "streaming"]
        /\ permits' = IF Backend[f] = "s3" THEN permits - 1 ELSE permits
        /\ UNCHANGED faults
     \/ /\ \/ "original" \notin objects[f] /\ UNCHANGED faults
           \/ Fault
        /\ readers' = [readers EXCEPT ![r] = Idle]
        /\ UNCHANGED permits
  /\ UNCHANGED <<objects, uploads, deletions, overlapped>>

\* Faulty variant: a lease that is closed by the end of the stream and again by
\* the response releases twice.
CloseLeaseTwice(r) ==
  /\ readers[r].at = "streaming"
  /\ \E n \in 1..2 : permits' = IF Backend[readers[r].file] = "s3" THEN permits + n ELSE permits
  /\ readers' = [readers EXCEPT ![r] = Idle]
  /\ UNCHANGED <<objects, uploads, deletions, overlapped, faults>>

CloseContent(r) ==
  /\ readers[r].at = "streaming"
  /\ permits' = IF Backend[readers[r].file] = "s3" THEN permits + 1 ELSE permits
  /\ readers' = [readers EXCEPT ![r] = Idle]
  /\ UNCHANGED <<objects, uploads, deletions, overlapped, faults>>

\* The process ends: its requests are gone, the rows and objects stay.
Crash ==
  /\ Fault
  /\ uploads' = [f \in Files |-> IF uploads[f] = Idle THEN Idle ELSE [uploads[f] EXCEPT !.at = "ended"]]
  /\ deletions' = [d \in Deletes |-> Idle]
  /\ readers' = [r \in Readers |-> Idle]
  /\ permits' = Permits
  /\ UNCHANGED <<objects, overlapped>>

StoreNext ==
  \/ \E f \in Files :
       Stage(f) \/ CreateMultipart(f) \/ CompleteMultipart(f) \/ VerifyUpload(f) \/ Cleanup(f)
  \/ \E d \in Deletes :
       MoveFile(d) \/ HeadSource(d) \/ CopyObject(d) \/ VerifyCopy(d) \/ UndoCopy(d) \/ DropSource(d)
  \/ \E r \in Readers : OpenContent(r) \/ CloseContent(r)
  \/ Crash

-----------------------------------------------------------------------------
(* Properties.                                                             *)

\* Every permit of the semaphore is free or held by one request or stream,
\* whatever fails and whatever is closed twice.
PermitsAreConserved ==
  permits + Cardinality({f \in Files : uploads[f].at \in {"sending", "completed"}})
          + Cardinality({d \in Deletes : deletions[d].at \in {"copy", "verify", "undo", "drop"}})
          + Cardinality({r \in Readers : readers[r].at = "streaming" /\ Backend[readers[r].file] = "s3"})
    = Permits

=============================================================================
