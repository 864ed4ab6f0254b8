---------------------------- MODULE RunArtifacts ----------------------------
(***************************************************************************)
(* Artifacts of provider runs, beside the attachments in one storage.      *)
(*                                                                         *)
(* An artifact's row is written first: pending, then ready once the object *)
(* is stored, or failed.  Every row change is a transaction of its own     *)
(* under the business lock.  Provider runs are not deleted.                *)
(***************************************************************************)
EXTENDS Attachments

VARIABLE artifacts   \* the provider_run_artifacts table

artifactVars == <<artifacts, attachmentVars, storeVars>>

ArtifactsInit ==
  /\ AttachmentsInit
  /\ artifacts = [f \in Artifacts |-> "absent"]

Mark(f, status) == artifacts' = [artifacts EXCEPT ![f] = status]

CreatePending(f) ==
  /\ artifacts[f] = "absent"
  /\ Mark(f, "pending")
  /\ uploads' = [uploads EXCEPT ![f] = [at |-> "staging"]]
  /\ UNCHANGED <<attachmentVars, objects, deletions, readers, permits, overlapped, faults>>

\* _finalize_ready.  When it raises the object is discarded, although the row
\* may have been committed; then it is not marked as failed either.
FinalizeReady(f) ==
  /\ uploads[f].at = "stored"
  /\ \/ Mark(f, "ready") /\ UploadAt(f, "ended") /\ UNCHANGED <<unsure, faults>>
     \/ /\ Fault /\ UploadAt(f, "discarding")
        /\ \/ UNCHANGED <<artifacts, unsure>>
           \/ Mark(f, "ready") /\ unsure' = unsure \cup {f}
  /\ UNCHANGED <<targets, comments, rows, objects, deletions, readers, permits, overlapped>>

\* _best_effort_fail
MarkFailed(f) ==
  /\ uploads[f].at = "failing"
  /\ UploadAt(f, "ended")
  /\ \/ artifacts' = [artifacts EXCEPT ![f] = IF @ = "pending" THEN "failed" ELSE @]
        /\ UNCHANGED faults
     \/ Fault /\ UNCHANGED artifacts
  /\ UNCHANGED <<attachmentVars, objects, deletions, readers, permits, overlapped>>

\* delete: a pending artifact may not be deleted, a failed one is discarded
\* (again), a ready one is isolated.
BeginDeleteArtifact(d, f) ==
  /\ \/ artifacts[f] = "ready" /\ Isolate(d, f)
     \/ /\ artifacts[f] = "failed" /\ deletions[d] = Idle
        /\ deletions' = [deletions EXCEPT ![d] = [file |-> f, move |-> "discard", at |-> "discard"]]
        /\ UNCHANGED <<objects, uploads, readers, permits, overlapped, faults>>
  /\ UNCHANGED <<artifacts, attachmentVars>>

DiscardFailed(d) ==
  LET f == deletions[d].file IN
  /\ deletions[d].at = "discard"
  /\ Backend[f] = "s3" => permits > 0
  /\ \/ /\ objects' = [objects EXCEPT ![f] = @ \ {"original"}]
        /\ DeletionAt(d, "commit")
        /\ UNCHANGED faults
     \/ /\ Fault
        /\ objects' \in {objects, [objects EXCEPT ![f] = @ \ {"original"}]}
        /\ deletions' = [deletions EXCEPT ![d] = Idle]
  /\ UNCHANGED <<artifacts, attachmentVars, uploads, readers, permits, overlapped>>

\* _mark_deleted: a status that has changed meanwhile raises, unless somebody
\* else has deleted it.  What was isolated is restored when it raises.
MarkDeleted(d) ==
  LET f == deletions[d].file
      isolated == deletions[d].move = "isolate"
      expected == IF isolated THEN "ready" ELSE "failed"
      deleted == IF isolated THEN "deleted" ELSE "cleared"
      finish == deletions' = [deletions EXCEPT ![d] = Idle]
      raise == IF isolated THEN Restore(d) ELSE finish
  IN
  /\ deletions[d].at = "commit" /\ f \in Artifacts
  /\ \/ artifacts[f] = expected /\ Mark(f, deleted) /\ finish /\ UNCHANGED faults
     \/ artifacts[f] = deleted /\ finish /\ UNCHANGED <<artifacts, faults>>
     \/ /\ artifacts[f] \in {expected, deleted} /\ Fault /\ raise
        /\ UNCHANGED artifacts \/ Mark(f, deleted)
  /\ UNCHANGED <<attachmentVars, objects, uploads, readers, permits, overlapped>>

CheckArtifact(r, f) ==
  /\ artifacts[f] = "ready"
  /\ BeginRead(r, f)
  /\ UNCHANGED <<artifacts, attachmentVars>>

ArtifactsNext ==
  \/ StoreNext /\ UNCHANGED <<artifacts, attachmentVars>>
  \/ AttachmentsNext /\ UNCHANGED artifacts
  \/ \E f \in Artifacts : CreatePending(f) \/ FinalizeReady(f) \/ MarkFailed(f)
  \/ \E d \in Deletes :
       \/ \E f \in Artifacts : BeginDeleteArtifact(d, f)
       \/ DiscardFailed(d) \/ MarkDeleted(d)
  \/ \E r \in Readers, f \in Artifacts : CheckArtifact(r, f)

ArtifactsSpec == ArtifactsInit /\ [][ArtifactsNext]_artifactVars

-----------------------------------------------------------------------------
(* Properties.                                                             *)

\* What a row says of its content: in place, moved aside, or none.
Status(f) ==
  IF f \in Artifacts
  THEN CASE artifacts[f] = "ready" -> "live" [] artifacts[f] = "deleted" -> "deleted"
         [] artifacts[f] = "pending" -> "pending" [] OTHER -> "absent"
  ELSE rows[f].status

\* The content of a row that has some, live or deleted, is kept at one of its
\* two places through failed requests, failed commits and crashes: it is
\* dropped at one only after its copy at the other was verified.  Two
\* exceptions: a row write that was committed and raised, and two deletions
\* at once.
ContentIsKept ==
  \A f \in Files \ (unsure \cup overlapped) :
    Status(f) \in {"live", "deleted"} => objects[f] \cap {"original", "isolated"} # {}

\* Without faults and overlapping deletions the storage and the tables agree
\* when nothing is under way: the object of a live row is in place, that of a
\* deleted one is isolated, nothing else is stored, and no row is pending.
StorageMatchesRows ==
  \A f \in Files \ overlapped :
    faults = 0 /\ Moving(f) = {} /\ uploads[f].at \in {"idle", "ended"} =>
      /\ Status(f) # "pending"
      /\ objects[f] = IF Status(f) = "live" THEN {"original"}
                      ELSE IF Status(f) = "deleted" THEN {"isolated"} ELSE {}

\* The source says of a failed quarantine that removing the partial copy is
\* safe, since the source object has not been deleted yet.
RemovingACopyIsSafe ==
  \A f \in Files \ unsure :
    Status(f) \in {"live", "deleted"} => objects[f] \cap {"original", "isolated"} # {}
=============================================================================
