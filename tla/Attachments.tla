---------------------------- MODULE Attachments -----------------------------
(***************************************************************************)
(* Comments and attachments of a collaboration target.                     *)
(*                                                                         *)
(* The business lock serialises what touches rows, so that each is one     *)
(* action; the storage works outside of the lock, before or after it.      *)
(***************************************************************************)
EXTENDS ObjectStore

CONSTANTS Targets, Comments

VARIABLES
  targets,        \* of each target: its project's status, or "gone"
  comments,
  rows,           \* the attachments table
  unsure          \* history: files whose row write was committed and raised

attachmentVars == <<targets, comments, rows, unsure>>

NoComment == [status |-> "none"]
NoRow == [status |-> "absent"]
Attached == Files \ Artifacts

AttachmentsInit ==
  /\ StoreInit
  /\ targets = [t \in Targets |-> "active"]
  /\ comments = [k \in Comments |-> NoComment]
  /\ rows = [f \in Attached |-> NoRow]
  /\ unsure = {}

-----------------------------------------------------------------------------
(* Targets and comments.                                                   *)

\* The project is archived or activated, or the entity is deleted.
TargetChanges(t, status) ==
  /\ targets[t] \notin {"gone", status}
  /\ targets' = [targets EXCEPT ![t] = status]
  /\ UNCHANGED <<comments, rows, unsure, storeVars>>

CommentStep(k, status, t, parent) ==
  /\ targets[t] = "active"
  /\ comments' = [comments EXCEPT ![k] = [status |-> status, target |-> t, parent |-> parent]]
  /\ UNCHANGED <<targets, rows, unsure, storeVars>>

\* A reply may be given to a comment that was deleted meanwhile.
CreateComment(k, t, parent) ==
  /\ comments[k] = NoComment
  /\ parent \in Comments => comments[parent] # NoComment /\ comments[parent].target = t
  /\ CommentStep(k, "written", t, parent)

EditComment(k) ==
  /\ comments[k].status \in {"written", "edited"}
  /\ CommentStep(k, "edited", comments[k].target, comments[k].parent)

DeleteComment(k) ==
  /\ comments[k].status \in {"written", "edited"}
  /\ CommentStep(k, "deleted", comments[k].target, comments[k].parent)

-----------------------------------------------------------------------------
(* Attachments.                                                            *)

\* Faulty variant: a comment that has been deleted is linked.
MayAttachToAny(t, k) ==
  targets[t] = "active" /\ (k \in Comments => comments[k] # NoComment)

\* _validate_create_target, before the upload and again after it
MayAttach(t, k) ==
  /\ targets[t] = "active"
  /\ k \in Comments =>
       comments[k].status \in {"written", "edited"} /\ comments[k].target = t

BeginUpload(f, t, k) ==
  /\ uploads[f] = Idle
  /\ MayAttach(t, k)
  /\ uploads' = [uploads EXCEPT ![f] = [at |-> "staging", target |-> t, comment |-> k]]
  /\ UNCHANGED <<attachmentVars, objects, deletions, readers, permits, overlapped, faults>>

\* The row is written under the lock when the target still allows it.  An
\* insert that raises discards the object, whether it was committed or not.
InsertRow(f) ==
  LET u == uploads[f]
      row == [status |-> "live", target |-> u.target, comment |-> u.comment]
  IN /\ u.at = "stored"
     /\ \/ /\ MayAttach(u.target, u.comment)
           /\ rows' = [rows EXCEPT ![f] = row]
           /\ UploadAt(f, "ended")
           /\ UNCHANGED <<unsure, faults>>
        \/ /\ ~MayAttach(u.target, u.comment)
           /\ UploadAt(f, "discarding")
           /\ UNCHANGED <<rows, unsure, faults>>
        \/ /\ MayAttach(u.target, u.comment) /\ Fault
           /\ UploadAt(f, "discarding")
           /\ \/ UNCHANGED <<rows, unsure>>
              \/ rows' = [rows EXCEPT ![f] = row] /\ unsure' = unsure \cup {f}
     /\ UNCHANGED <<targets, comments, objects, deletions, readers, permits, overlapped>>

BeginDelete(d, f) ==
  /\ rows[f].status = "live" /\ targets[rows[f].target] = "active"
  /\ Isolate(d, f)
  /\ UNCHANGED attachmentVars

\* Faulty variant: what was isolated stays so when the row may not be changed.
CommitOrGiveUp(d) ==
  LET f == deletions[d].file IN
  /\ deletions[d].at = "commit" /\ f \in Attached
  /\ rows' = IF targets[rows[f].target] = "active" THEN [rows EXCEPT ![f].status = "deleted"] ELSE rows
  /\ deletions' = [deletions EXCEPT ![d] = Idle]
  /\ UNCHANGED <<targets, comments, objects, uploads, readers, permits, unsure, overlapped, faults>>

\* The row is read and judged again under the lock.  When it was deleted
\* meanwhile nothing is restored; when the change is refused or raises
\* (committed or not) the file goes back.
CommitDelete(d) ==
  LET f == deletions[d].file
      allowed == targets[rows[f].target] = "active"
      deleted == [rows EXCEPT ![f].status = "deleted"]
  IN
  /\ deletions[d].at = "commit" /\ f \in Attached
  /\ \/ /\ allowed
        /\ deletions' = [deletions EXCEPT ![d] = Idle]
        /\ rows' = deleted /\ UNCHANGED faults
     \/ ~allowed /\ Restore(d) /\ UNCHANGED <<rows, faults>>
     \/ /\ allowed /\ Fault
        /\ Restore(d) /\ rows' \in {rows, deleted}
  /\ UNCHANGED <<targets, comments, objects, uploads, readers, permits, unsure, overlapped>>

CheckRow(r, f) ==
  /\ rows[f].status = "live" /\ targets[rows[f].target] # "gone"
  /\ BeginRead(r, f)
  /\ UNCHANGED attachmentVars

AttachmentsNext ==
  \/ \E t \in Targets :
       \/ \E status \in {"active", "archived", "gone"} : TargetChanges(t, status)
       \/ \E k \in Comments, parent \in Comments \cup {"none"} : CreateComment(k, t, parent)
       \/ \E f \in Attached, k \in Comments \cup {"none"} : BeginUpload(f, t, k)
  \/ \E k \in Comments : EditComment(k) \/ DeleteComment(k)
  \/ \E f \in Attached : InsertRow(f)
  \/ \E d \in Deletes : CommitDelete(d) \/ \E f \in Attached : BeginDelete(d, f)
  \/ \E r \in Readers, f \in Attached : CheckRow(r, f)

-----------------------------------------------------------------------------
(* Properties.                                                             *)

\* A row is written only while its target is writable and its comment not
\* deleted, however long the upload took; a deleted row stays deleted.
LinkedWhenAllowed ==
  [][\A f \in Attached :
       /\ rows[f].status = "absent" /\ rows'[f].status # "absent" =>
            /\ targets[rows'[f].target] = "active"
            /\ rows'[f].comment \in Comments =>
                 comments[rows'[f].comment].status # "deleted"
       /\ rows[f].status = "deleted" => rows'[f] = rows[f]]_<<attachmentVars, storeVars>>

=============================================================================
