--------------------------- MODULE ServicesProofs ---------------------------
(***************************************************************************)
(* Proofs about the lessons' adapters, about test management and about the *)
(* pipeline simulator, for any number of tasks, devices, suites, cases,    *)
(* plans, import files and runs.  The lessons keep the abstract promise of *)
(* a leased job; the tables of test management stay consistent under every *)
(* operation, alone and while an import writes its rows, and whatever ends *)
(* between two writes; the runs stay whole through callbacks, restarts and *)
(* failed checkpoints.                                                     *)
(***************************************************************************)
EXTENDS TeachingAutomation, DataTransfer, PipelineRuns, FiniteSetTheorems, TLAPS

(***************************************************************************)
(* The queue of the lessons.  Each task is a record, and every operation   *)
(* changes a record in one of a few ways.  An open task has budget left,   *)
(* which is what the recovery and the retries look at.                     *)
(***************************************************************************)
JobStatuses ==
  {"absent", "queued", "running", "retry_wait", "succeeded", "failed", "cancelled", "dead_letter"}
JobRecords ==
  [status : JobStatuses, attempts : 0..JobBudget, cancel : BOOLEAN, delay : Nat, lease : Nat,
   keyed : BOOLEAN, scheduled : BOOLEAN, result : Nat]

\* What the status of a task tells of its other fields.
JobShape(job) ==
  /\ job \in JobRecords
  /\ job.status # "running" => job.lease = 0
  /\ job.status = "absent" => job = NoJob
  /\ job.status \in {"queued", "retry_wait"} => job.attempts < JobBudget

JobsInv == DOMAIN jobs = Jobs /\ (\A t \in Jobs : JobShape(jobs[t]))

LessonStep(t) == [TeachingJob(t)!Next]_(TeachingJob(t)!jobVars)

LEMMA JobPhases ==
  /\ JobPhase("absent") = "absent"
  /\ JobPhase("queued") = "open" /\ JobPhase("retry_wait") = "open"
  /\ JobPhase("running") = "held"
  /\ JobPhase("failed") = "parked"
  /\ \A s \in {"succeeded", "cancelled", "dead_letter"} : JobPhase(s) = "closed"
  BY DEF JobPhase

-----------------------------------------------------------------------------
(* The records that the operations write.                                  *)

\* The ways in which an operation changes the record of a task.
Enters(old, new) ==
  old = NoJob /\ JobShape(new) /\ new.attempts = 0 /\ new.result = 0
  /\ new.status \in {"queued", "cancelled"}
Taken(old, new) ==
  /\ old.status \in {"queued", "retry_wait"} /\ new.status = "running"
  /\ new.attempts = old.attempts + 1 /\ new.lease > 0 /\ new.result = old.result
Succeeds(old, new) ==
  /\ old.status = "running" /\ old.lease > 0
  /\ new.status = "succeeded" /\ new.attempts = old.attempts /\ new.result = old.attempts
  /\ new.lease = 0
FailsForGood(old, new) ==
  /\ old.status = "running" /\ old.lease > 0
  /\ new.status = "failed" /\ new.attempts = old.attempts /\ new.result = old.result
  /\ new.lease = 0
Ends(old, new) ==
  /\ old.status \in {"queued", "retry_wait", "running"}
  /\ new.status \in {"cancelled", "dead_letter"}
  /\ new.attempts = old.attempts /\ new.result = old.result /\ new.lease = 0
Retries(old, new) ==
  /\ old.status = "running" /\ old.attempts < JobBudget
  /\ new.status = "retry_wait" /\ new.attempts = old.attempts /\ new.result = old.result
  /\ new.lease = 0
Goes(old, new) ==
  /\ new.status = old.status /\ new.attempts = old.attempts /\ new.result = old.result
  /\ new.lease > 0 => old.lease > 0

\* A task that was enqueued is still asked to stop, and still scheduled.
Moves(old, new) ==
  /\ JobShape(new)
  /\ new.scheduled = old.scheduled
  /\ old.cancel => new.cancel
  /\ \/ Taken(old, new) \/ Succeeds(old, new) \/ FailsForGood(old, new)
     \/ Ends(old, new) \/ Retries(old, new) \/ Goes(old, new)
Changes(old, new) == Enters(old, new) \/ Moves(old, new)

\* Each of these ways is a step of LeasedJob.
LEMMA ChangeIsALessonStep ==
  ASSUME NEW t \in Jobs, JobShape(jobs[t]), Changes(jobs[t], jobs'[t])
  PROVE  LessonStep(t)
  <1> USE JobPhases
  <1>1. CASE Enters(jobs[t], jobs'[t])
    <2>1. jobs[t].status = "absent" /\ jobs[t].attempts = 0 /\ jobs[t].result = 0 /\ jobs[t].lease = 0
      BY <1>1 DEF Enters, NoJob
    <2>2. jobs'[t].lease = 0
      BY <1>1 DEF Enters, JobShape
    <2>3. CASE jobs'[t].status = "queued"
      BY <1>1, <2>1, <2>2, <2>3
      DEF Enters, LessonStep, TeachingJob!Next, TeachingJob!Submit
    <2>4. CASE jobs'[t].status = "cancelled"
      BY <1>1, <2>1, <2>2, <2>4
      DEF Enters, LessonStep, TeachingJob!Next, TeachingJob!Abandon
    <2> QED
      BY <1>1, <2>3, <2>4 DEF Enters
  <1>2. CASE Taken(jobs[t], jobs'[t])
    <2>1. jobs[t].attempts < JobBudget
      BY <1>2 DEF Taken, JobShape
    <2> QED
      BY <1>2, <2>1 DEF Taken, LessonStep, TeachingJob!Next, TeachingJob!Take
  <1>3. CASE Succeeds(jobs[t], jobs'[t])
    BY <1>3 DEF Succeeds, LessonStep, TeachingJob!Next, TeachingJob!Settle
  <1>4. CASE FailsForGood(jobs[t], jobs'[t])
    BY <1>4 DEF FailsForGood, LessonStep, TeachingJob!Next, TeachingJob!Settle
  <1>5. CASE Ends(jobs[t], jobs'[t])
    BY <1>5 DEF Ends, LessonStep, TeachingJob!Next, TeachingJob!Abandon
  <1>6. CASE Retries(jobs[t], jobs'[t])
    BY <1>6 DEF Retries, LessonStep, TeachingJob!Next, TeachingJob!Reopen
  <1>7. CASE Goes(jobs[t], jobs'[t])
    <2>1. CASE jobs'[t].lease > 0 <=> jobs[t].lease > 0
      BY <1>7, <2>1 DEF Goes, LessonStep, TeachingJob!jobVars
    <2>2. CASE ~(jobs'[t].lease > 0) /\ jobs[t].lease > 0
      <3>1. jobs[t].status = "running"
        BY <2>2 DEF JobShape
      <3> QED
        BY <1>7, <2>2, <3>1 DEF Goes, LessonStep, TeachingJob!Next, TeachingJob!Lapse
    <2> QED
      BY <1>7, <2>1, <2>2 DEF Goes
  <1> QED
    BY <1>1, <1>2, <1>3, <1>4, <1>5, <1>6, <1>7 DEF Changes, Moves

\* Nothing happens to a task that keeps its record.
LEMMA SameRecord ==
  ASSUME NEW job, JobShape(job)
  PROVE  Moves(job, job)
  BY DEF Moves, Goes

LEMMA NewJobChanges ==
  ASSUME NEW job, JobShape(job), job.status = "absent",
         NEW keyed \in BOOLEAN, NEW scheduled \in BOOLEAN, NEW delay \in Nat
  PROVE  /\ Enters(job, NewJob(keyed, scheduled, delay))
         /\ Enters(job, CancelledJob(NewJob(keyed, scheduled, delay)))
         /\ NewJob(keyed, scheduled, delay).status = "queued"
         /\ CancelledJob(NewJob(keyed, scheduled, delay)).status = "cancelled"
         /\ NewJob(keyed, scheduled, delay).scheduled = scheduled
         /\ CancelledJob(NewJob(keyed, scheduled, delay)).scheduled = scheduled
         /\ NewJob(keyed, scheduled, delay).cancel = FALSE
  <1> DEFINE new == NewJob(keyed, scheduled, delay)
  <1>1. 0 \in 0..JobBudget /\ 0 < JobBudget
    BY TeachingQueueAssumption
  <1>2. NoJob \in JobRecords
    BY <1>1 DEF NoJob, JobRecords, JobStatuses
  <1>3. /\ new \in JobRecords /\ new.status = "queued" /\ new.attempts = 0 /\ new.result = 0
        /\ new.lease = 0 /\ new.cancel = FALSE /\ new.scheduled = scheduled
    <2>1. NoJob.attempts = 0 /\ NoJob.result = 0 /\ NoJob.lease = 0 /\ NoJob.cancel = FALSE
      BY DEF NoJob
    <2> QED
      BY <1>2, <2>1 DEF NewJob, JobRecords, JobStatuses
  <1>4. JobShape(new)
    BY <1>1, <1>3 DEF JobShape
  <1>5. CancelledJob(new) = [Settled(new, "cancelled") EXCEPT !.cancel = TRUE]
    BY <1>3 DEF CancelledJob
  <1>6. PICK x : x = Settled(new, "cancelled")
    OBVIOUS
  <1>7. /\ x \in JobRecords /\ x.status = "cancelled" /\ x.attempts = 0 /\ x.result = 0
        /\ x.lease = 0 /\ x.scheduled = scheduled
    BY <1>3, <1>6 DEF Settled, JobRecords, JobStatuses
  <1>8. PICK y : y = CancelledJob(new)
    OBVIOUS
  <1>9. /\ y \in JobRecords /\ y.status = "cancelled" /\ y.attempts = 0 /\ y.result = 0
        /\ y.lease = 0 /\ y.scheduled = scheduled
    BY <1>5, <1>6, <1>7, <1>8 DEF JobRecords
  <1>10. JobShape(y)
    BY <1>9 DEF JobShape
  <1>11. Enters(job, new) /\ Enters(job, y)
    BY <1>3, <1>4, <1>9, <1>10 DEF Enters, JobShape
  <1> QED
    BY <1>3, <1>4, <1>8, <1>9, <1>10, <1>11

\* A task that is settled or sent back.
LEMMA SettledShape ==
  ASSUME NEW job, JobShape(job), NEW s \in {"succeeded", "failed", "cancelled", "dead_letter"},
         NEW delay \in Nat
  PROVE  /\ JobShape(Settled(job, s))
         /\ Settled(job, s).status = s /\ Settled(job, s).attempts = job.attempts
         /\ Settled(job, s).result = job.result /\ Settled(job, s).lease = 0
         /\ Settled(job, s).scheduled = job.scheduled /\ Settled(job, s).cancel = job.cancel
         /\ job.attempts < JobBudget => JobShape(RetryLater(job, delay))
         /\ RetryLater(job, delay).status = "retry_wait" /\ RetryLater(job, delay).lease = 0
         /\ RetryLater(job, delay).attempts = job.attempts
         /\ RetryLater(job, delay).result = job.result
         /\ RetryLater(job, delay).delay = delay
         /\ RetryLater(job, delay).scheduled = job.scheduled
         /\ RetryLater(job, delay).cancel = job.cancel
  <1>1. job \in JobRecords
    BY DEF JobShape
  <1>2. Settled(job, s) \in JobRecords /\ RetryLater(job, delay) \in JobRecords
    BY <1>1 DEF Settled, RetryLater, JobRecords, JobStatuses
  <1>3. /\ Settled(job, s).status = s /\ Settled(job, s).attempts = job.attempts
        /\ Settled(job, s).result = job.result /\ Settled(job, s).lease = 0
        /\ Settled(job, s).scheduled = job.scheduled /\ Settled(job, s).cancel = job.cancel
    BY <1>1 DEF Settled, JobRecords
  <1>4. /\ RetryLater(job, delay).status = "retry_wait" /\ RetryLater(job, delay).lease = 0
        /\ RetryLater(job, delay).attempts = job.attempts
        /\ RetryLater(job, delay).result = job.result
        /\ RetryLater(job, delay).delay = delay
        /\ RetryLater(job, delay).scheduled = job.scheduled
        /\ RetryLater(job, delay).cancel = job.cancel
    BY <1>1 DEF RetryLater, JobRecords
  <1> QED
    BY <1>2, <1>3, <1>4 DEF JobShape

\* The recovery before every claim.  What it sends back has to wait.
LEMMA RecoveredChanges ==
  ASSUME NEW job, JobShape(job), NEW delay \in 1..JobBackoff
  PROVE  /\ Moves(job, RecoveredJob(job, delay))
         /\ ClaimableJob(RecoveredJob(job, delay)) => RecoveredJob(job, delay) = job
  <1>1. CASE ~(job.status = "running" /\ job.lease = 0)
    BY <1>1, SameRecord DEF RecoveredJob
  <1>2. CASE job.status = "running" /\ job.lease = 0
    <2> USE TeachingQueueAssumption
    <2>1. delay \in Nat /\ delay # 0
      OBVIOUS
    <2>2. CASE job.cancel
      <3>1. RecoveredJob(job, delay) = Settled(job, "cancelled")
        BY <1>2, <2>2 DEF RecoveredJob
      <3> QED
        BY <1>2, <2>1, <3>1, SettledShape DEF Moves, Ends, ClaimableJob
    <2>3. CASE ~job.cancel /\ job.attempts < JobBudget
      <3>1. RecoveredJob(job, delay) = RetryLater(job, delay)
        BY <1>2, <2>3 DEF RecoveredJob
      <3> QED
        BY <1>2, <2>1, <2>3, <3>1, SettledShape DEF Moves, Retries, ClaimableJob
    <2>4. CASE ~job.cancel /\ ~(job.attempts < JobBudget)
      <3>1. RecoveredJob(job, delay) = Settled(job, "dead_letter")
        BY <1>2, <2>4 DEF RecoveredJob
      <3> QED
        BY <1>2, <2>1, <3>1, SettledShape DEF Moves, Ends, ClaimableJob
    <2> QED
      BY <2>2, <2>3, <2>4
  <1> QED
    BY <1>1, <1>2

LEMMA CancelledChanges ==
  ASSUME NEW job, JobShape(job)
  PROVE  /\ Moves(job, CancelledJob(job))
         /\ CancelledJob(job).status \in UnfinishedStatuses =>
              CancelledJob(job).cancel /\ job.status \in UnfinishedStatuses
  <1>1. CASE job.status \in {"queued", "retry_wait"}
    <2>1. PICK x : x = Settled(job, "cancelled")
      OBVIOUS
    <2>2. JobShape(x) /\ Ends(job, x) /\ x.scheduled = job.scheduled /\ x.status = "cancelled"
      BY <1>1, <2>1, SettledShape DEF Ends
    <2>3. PICK y : y = [x EXCEPT !.cancel = TRUE]
      OBVIOUS
    <2>4. /\ y \in JobRecords /\ y.status = x.status /\ y.attempts = x.attempts /\ y.lease = x.lease
          /\ y.result = x.result /\ y.scheduled = x.scheduled /\ y.cancel
      BY <2>2, <2>3 DEF JobShape, JobRecords
    <2>5. JobShape(y) /\ Ends(job, y)
      BY <2>2, <2>4 DEF JobShape, Ends
    <2>6. CancelledJob(job) = y
      BY <1>1, <2>1, <2>3 DEF CancelledJob
    <2> QED
      BY <1>1, <2>2, <2>4, <2>5, <2>6 DEF Moves, UnfinishedStatuses
  <1>2. CASE job.status = "running"
    <2>1. PICK y : y = [job EXCEPT !.cancel = TRUE]
      OBVIOUS
    <2>2. /\ y \in JobRecords /\ y.status = job.status /\ y.attempts = job.attempts
          /\ y.lease = job.lease /\ y.result = job.result /\ y.scheduled = job.scheduled /\ y.cancel
      BY <2>1 DEF JobShape, JobRecords
    <2>3. JobShape(y) /\ Goes(job, y)
      BY <1>2, <2>2 DEF JobShape, Goes
    <2>4. CancelledJob(job) = y
      BY <1>2, <2>1 DEF CancelledJob
    <2> QED
      BY <1>2, <2>2, <2>3, <2>4 DEF Moves, UnfinishedStatuses
  <1>3. CASE job.status \notin UnfinishedStatuses
    BY <1>3, SameRecord DEF CancelledJob, UnfinishedStatuses
  <1> QED
    BY <1>1, <1>2, <1>3 DEF UnfinishedStatuses

LEMMA TimeChanges ==
  ASSUME NEW job, JobShape(job)
  PROVE  LET new == [job EXCEPT !.lease = Sooner(@), !.delay = Sooner(@)]
         IN  Moves(job, new)
  <1> DEFINE new == [job EXCEPT !.lease = Sooner(@), !.delay = Sooner(@)]
  <1>1. job \in JobRecords
    BY DEF JobShape
  <1>2. PICK n \in Nat : n = Sooner(job.lease)
    BY <1>1 DEF JobRecords, Sooner
  <1>3. PICK m \in Nat : m = Sooner(job.delay)
    BY <1>1 DEF JobRecords, Sooner
  <1>4. new = [job EXCEPT !.lease = n, !.delay = m]
    BY <1>2, <1>3
  <1>5. /\ new \in JobRecords /\ new.status = job.status /\ new.attempts = job.attempts
        /\ new.result = job.result /\ new.scheduled = job.scheduled /\ new.lease = n
        /\ new.cancel = job.cancel
    BY <1>1, <1>4 DEF JobRecords
  <1>6. n > 0 => job.lease > 0
    BY <1>1, <1>2 DEF JobRecords, Sooner
  <1>7. job.lease = 0 => n = 0
    BY <1>2 DEF Sooner
  <1>8. job = NoJob => new = NoJob
    <2>1. ASSUME job = NoJob PROVE new = job
      <3>1. job.lease = 0 /\ job.delay = 0
        BY <2>1 DEF NoJob
      <3>2. n = job.lease /\ m = job.delay
        BY <1>2, <1>3, <3>1 DEF Sooner
      <3> QED
        BY <1>1, <1>4, <3>2 DEF JobRecords
    <2> QED
      BY <2>1
  <1>9. JobShape(new)
    BY <1>5, <1>7, <1>8 DEF JobShape
  <1> QED
    BY <1>5, <1>6, <1>9 DEF Moves, Goes

\* The records that a client writes.
LEMMA ClaimedMoves ==
  ASSUME NEW job, JobShape(job), ClaimableJob(job), NEW seconds \in 1..JobLease,
         NEW n, n = job.attempts + 1, NEW new,
         new = [job EXCEPT !.status = "running", !.attempts = n, !.lease = seconds]
  PROVE  Moves(job, new)
  <1>1. job \in JobRecords /\ job.attempts \in 0..JobBudget /\ job.attempts < JobBudget
    BY DEF JobShape, JobRecords, ClaimableJob
  <1>2. n \in 0..JobBudget
    BY <1>1, TeachingQueueAssumption
  <1>4. seconds \in Nat /\ seconds > 0
    BY TeachingQueueAssumption
  <1>5. /\ new \in JobRecords /\ new.status = "running" /\ new.attempts = n
        /\ new.lease = seconds /\ new.result = job.result /\ new.scheduled = job.scheduled
        /\ new.cancel = job.cancel
    BY <1>1, <1>2, <1>4 DEF JobRecords, JobStatuses
  <1>6. JobShape(new) /\ Taken(job, new)
    BY <1>2, <1>4, <1>5 DEF JobShape, Taken, ClaimableJob
  <1> QED
    BY <1>5, <1>6 DEF Moves

LEMMA HeartbeatMoves ==
  ASSUME NEW job, JobShape(job), job.status = "running", job.lease > 0,
         NEW seconds \in 1..JobLease
  PROVE  Moves(job, [job EXCEPT !.lease = seconds])
  <1>1. PICK new : new = [job EXCEPT !.lease = seconds]
    OBVIOUS
  <1>2. seconds \in Nat /\ seconds > 0
    BY TeachingQueueAssumption
  <1>3. /\ new \in JobRecords /\ new.status = job.status /\ new.attempts = job.attempts
        /\ new.result = job.result /\ new.scheduled = job.scheduled /\ new.cancel = job.cancel
    BY <1>1, <1>2 DEF JobShape, JobRecords
  <1> QED
    BY <1>1, <1>3 DEF JobShape, Moves, Goes

LEMMA SettledMoves ==
  ASSUME NEW job, JobShape(job), job.status = "running", job.lease > 0
  PROVE  /\ Moves(job, Settled(job, "cancelled"))
         /\ Moves(job, Settled(job, "failed"))
         /\ Moves(job, Settled(job, "dead_letter"))
         /\ Moves(job, [Settled(job, "succeeded") EXCEPT !.result = job.attempts])
         /\ job.attempts < JobBudget => \A delay \in Nat : Moves(job, RetryLater(job, delay))
  <1>1. Moves(job, Settled(job, "cancelled")) /\ Moves(job, Settled(job, "dead_letter"))
    BY SettledShape, 0 \in Nat DEF Moves, Ends
  <1>2. Moves(job, Settled(job, "failed"))
    BY SettledShape, 0 \in Nat DEF Moves, FailsForGood
  <1>3. job.attempts < JobBudget => \A delay \in Nat : Moves(job, RetryLater(job, delay))
    BY SettledShape DEF Moves, Retries
  <1>4. Moves(job, [Settled(job, "succeeded") EXCEPT !.result = job.attempts])
    <2>1. PICK x : x = Settled(job, "succeeded")
      OBVIOUS
    <2>2. /\ JobShape(x) /\ x.status = "succeeded" /\ x.attempts = job.attempts /\ x.lease = 0
          /\ x.scheduled = job.scheduled /\ x.cancel = job.cancel
      BY <2>1, SettledShape, 0 \in Nat
    <2>3. PICK y : y = [x EXCEPT !.result = job.attempts]
      OBVIOUS
    <2>4. job.attempts \in Nat
      BY TeachingQueueAssumption DEF JobShape, JobRecords
    <2>5. /\ y \in JobRecords /\ y.status = x.status /\ y.attempts = x.attempts /\ y.lease = x.lease
          /\ y.scheduled = x.scheduled /\ y.cancel = x.cancel /\ y.result = job.attempts
      BY <2>2, <2>3, <2>4 DEF JobShape, JobRecords
    <2>6. JobShape(y) /\ Succeeds(job, y)
      BY <2>2, <2>5 DEF JobShape, Succeeds
    <2> QED
      BY <2>1, <2>2, <2>3, <2>5, <2>6 DEF Moves
  <1> QED
    BY <1>1, <1>2, <1>3, <1>4

\* A step of the queue that changes one record.
LEMMA OneJobMoves ==
  ASSUME JobsInv, NEW t \in Jobs, NEW new, Moves(jobs[t], new), jobs' = [jobs EXCEPT ![t] = new]
  PROVE  DOMAIN jobs' = Jobs /\ \A u \in Jobs : Moves(jobs[u], jobs'[u])
  <1>1. DOMAIN jobs' = Jobs /\ jobs'[t] = new /\ \A u \in Jobs \ {t} : jobs'[u] = jobs[u]
    BY DEF JobsInv
  <1> QED
    BY <1>1, SameRecord DEF JobsInv

LEMMA QueueMoves ==
  ASSUME JobsInv, JobStep \/ JobTimePasses
  PROVE  DOMAIN jobs' = Jobs /\ \A u \in Jobs : Moves(jobs[u], jobs'[u])
  <1> DEFINE AllMove == DOMAIN jobs' = Jobs /\ \A u \in Jobs : Moves(jobs[u], jobs'[u])
  <1>1. ASSUME NEW t \in Jobs, ClaimJob(t) PROVE AllMove
    <2>1. PICK delay \in 1..JobBackoff, seconds \in 1..JobLease :
            /\ ClaimableJob(RecoveredJobs(delay)[t])
            /\ jobs' = [RecoveredJobs(delay) EXCEPT
                          ![t].status = "running", ![t].attempts = @ + 1, ![t].lease = seconds]
      BY <1>1 DEF ClaimJob
    <2>2. \A u \in Jobs : RecoveredJobs(delay)[u] = RecoveredJob(jobs[u], delay)
      BY DEF RecoveredJobs
    <2>3. RecoveredJobs(delay)[t] = jobs[t] /\ ClaimableJob(jobs[t])
      BY <2>1, <2>2, RecoveredChanges DEF JobsInv
    <2> DEFINE n == jobs[t].attempts + 1
    <2>4. /\ DOMAIN jobs' = Jobs
          /\ jobs'[t] = [jobs[t] EXCEPT !.status = "running", !.attempts = n, !.lease = seconds]
          /\ \A u \in Jobs \ {t} : jobs'[u] = RecoveredJob(jobs[u], delay)
      BY <2>1, <2>2, <2>3 DEF RecoveredJobs
    <2>5. Moves(jobs[t], jobs'[t])
      <3>1. JobShape(jobs[t])
        BY DEF JobsInv
      <3> QED
        BY <2>3, <2>4, <3>1, ClaimedMoves
    <2>6. \A u \in Jobs \ {t} : Moves(jobs[u], jobs'[u])
      BY <2>4, RecoveredChanges DEF JobsInv
    <2> QED
      BY <2>4, <2>5, <2>6
  <1>2. ASSUME NEW t \in Jobs, RequestCancel(t) PROVE AllMove
    BY <1>2, OneJobMoves, CancelledChanges DEF RequestCancel, JobsInv
  <1>3. ASSUME NEW t \in Jobs, NEW claim, HeartbeatJob(t, claim) PROVE AllMove
    <2>1. PICK seconds \in 1..JobLease : jobs' = [jobs EXCEPT ![t].lease = seconds]
      BY <1>3 DEF HeartbeatJob
    <2>2. Moves(jobs[t], [jobs[t] EXCEPT !.lease = seconds])
      BY <1>3, HeartbeatMoves DEF HeartbeatJob, ValidJobLease, JobsInv
    <2> QED
      BY <2>1, <2>2, OneJobMoves
  <1>4. ASSUME NEW t \in Jobs, NEW claim, CompleteJob(t, claim) PROVE AllMove
    <2>1. /\ jobs[t].status = "running" /\ jobs[t].lease > 0 /\ jobs[t].attempts = claim
          /\ JobShape(jobs[t])
      BY <1>4 DEF CompleteJob, ValidJobLease, JobsInv
    <2>2. PICK new : new = IF jobs[t].cancel THEN Settled(jobs[t], "cancelled")
                           ELSE [Settled(jobs[t], "succeeded") EXCEPT !.result = claim]
      OBVIOUS
    <2>3. Moves(jobs[t], new)
      BY <2>1, <2>2, SettledMoves
    <2>4. jobs' = [jobs EXCEPT ![t] = new]
      BY <1>4, <2>2 DEF CompleteJob
    <2> QED
      BY <2>3, <2>4, OneJobMoves
  <1>5. ASSUME NEW t \in Jobs, NEW claim, NEW retryable \in BOOLEAN, FailJob(t, claim, retryable)
        PROVE  AllMove
    <2>1. jobs[t].status = "running" /\ jobs[t].lease > 0 /\ JobShape(jobs[t])
      BY <1>5 DEF FailJob, ValidJobLease, JobsInv
    <2>2. PICK delay \in 1..JobBackoff : jobs' = [jobs EXCEPT ![t] =
            IF @.cancel THEN Settled(@, "cancelled")
            ELSE IF ~retryable THEN Settled(@, "failed")
            ELSE IF @.attempts < JobBudget THEN RetryLater(@, delay)
            ELSE Settled(@, "dead_letter")]
      BY <1>5 DEF FailJob
    <2>3. PICK new : new = IF jobs[t].cancel THEN Settled(jobs[t], "cancelled")
                           ELSE IF ~retryable THEN Settled(jobs[t], "failed")
                           ELSE IF jobs[t].attempts < JobBudget THEN RetryLater(jobs[t], delay)
                           ELSE Settled(jobs[t], "dead_letter")
      OBVIOUS
    <2>4. delay \in Nat
      BY TeachingQueueAssumption
    <2>5. Moves(jobs[t], new)
      BY <2>1, <2>3, <2>4, SettledMoves
    <2>6. jobs' = [jobs EXCEPT ![t] = new]
      BY <2>2, <2>3
    <2> QED
      BY <2>5, <2>6, OneJobMoves
  <1>6. ASSUME NEW t \in Jobs, NEW claim, AcknowledgeCancel(t, claim) PROVE AllMove
    <2>1. Moves(jobs[t], Settled(jobs[t], "cancelled"))
      BY <1>6, SettledMoves DEF AcknowledgeCancel, ValidJobLease, JobsInv
    <2> QED
      BY <1>6, <2>1, OneJobMoves DEF AcknowledgeCancel
  <1>7. ASSUME RecoverExpiredJobs PROVE AllMove
    <2>1. PICK delay \in 1..JobBackoff : jobs' = RecoveredJobs(delay)
      BY <1>7 DEF RecoverExpiredJobs
    <2> QED
      BY <2>1, RecoveredChanges DEF RecoveredJobs, JobsInv
  <1>8. ASSUME JobTimePasses PROVE AllMove
    <2>1. /\ DOMAIN jobs' = Jobs
          /\ \A u \in Jobs : jobs'[u] = [jobs[u] EXCEPT !.lease = Sooner(@), !.delay = Sooner(@)]
      BY <1>8 DEF JobTimePasses
    <2>2. \A u \in Jobs : Moves(jobs[u], [jobs[u] EXCEPT !.lease = Sooner(@), !.delay = Sooner(@)])
      BY TimeChanges DEF JobsInv
    <2> QED
      BY <2>1, <2>2
  <1> QED
    BY <1>1, <1>2, <1>3, <1>4, <1>5, <1>6, <1>7, <1>8 DEF JobStep

-----------------------------------------------------------------------------
(***************************************************************************)
(* The schedule.  Only a tick enqueues the task of an instant, as one of   *)
(* the schedule, so that the next tick finds it while it is unfinished.    *)
(***************************************************************************)
RuleRecords ==
  [enabled : BOOLEAN, next : 1..(LastInstant + 1),
   misfire : {"skip", "fire_once", "catch_up_limited"}, overlap : {"forbid", "allow", "replace"}]

\* The task of the instant is unfinished, and under "replace" still meant to go on.
Wanted(i) ==
  /\ InstantJob[i] \in Unfinished
  /\ rule.overlap = "replace" => ~jobs[InstantJob[i]].cancel

InstantsInv ==
  /\ rule \in RuleRecords
  /\ instant \in 0..LastInstant
  /\ DOMAIN job_fires = DueInstants
  /\ \A i \in DueInstants : job_fires[i] = "enqueued" <=> jobs[InstantJob[i]].status # "absent"
  /\ \A i \in DueInstants :
       jobs[InstantJob[i]].status # "absent" => jobs[InstantJob[i]].scheduled
  /\ rule.overlap # "allow" => \A i, j \in DueInstants : Wanted(i) /\ Wanted(j) => i = j

LessonsInv == JobsInv /\ InstantsInv

LEMMA InstantJobs ==
  /\ \A i \in DueInstants : InstantJob[i] \in Jobs /\ InstantJob[i] \notin FreeJobs
  /\ \A i, j \in DueInstants : InstantJob[i] = InstantJob[j] => i = j
  BY TeachingScheduleAssumption DEF DueInstants, FreeJobs

\* A task that moves was not absent before, and none becomes unfinished again.
LEMMA MovesKeep ==
  ASSUME NEW old, NEW new, JobShape(old), Moves(old, new)
  PROVE  /\ new.status = "absent" <=> old.status = "absent"
         /\ new.status \in UnfinishedStatuses => old.status \in UnfinishedStatuses
         /\ new.scheduled = old.scheduled
         /\ old.cancel => new.cancel
  BY DEF Moves, Taken, Succeeds, FailsForGood, Ends, Retries, Goes, UnfinishedStatuses

\* An operation that enqueues no task of an instant.
LEMMA InstantsStay ==
  ASSUME LessonsInv, rule' \in RuleRecords, rule'.overlap = rule.overlap,
         instant' \in 0..LastInstant, job_fires' = job_fires,
         \A i \in DueInstants : Moves(jobs[InstantJob[i]], jobs'[InstantJob[i]])
  PROVE  InstantsInv'
  <1>1. \A i \in DueInstants :
          /\ jobs'[InstantJob[i]].status = "absent" <=> jobs[InstantJob[i]].status = "absent"
          /\ jobs'[InstantJob[i]].status \in UnfinishedStatuses =>
               jobs[InstantJob[i]].status \in UnfinishedStatuses
          /\ jobs'[InstantJob[i]].scheduled = jobs[InstantJob[i]].scheduled
          /\ jobs[InstantJob[i]].cancel => jobs'[InstantJob[i]].cancel
    BY InstantJobs, MovesKeep DEF LessonsInv, JobsInv
  <1>2. \A i \in DueInstants : Wanted(i)' => Wanted(i)
    BY <1>1, InstantJobs DEF Wanted, Unfinished
  <1> QED
    BY <1>1, <1>2 DEF LessonsInv, InstantsInv

\* A client or run_now enqueues a task that belongs to no instant.
LEMMA FreeJobEnters ==
  ASSUME LessonsInv, NEW t \in FreeJobs, jobs[t].status = "absent", NEW keyed \in BOOLEAN,
         NEW scheduled \in BOOLEAN, NEW delay \in Nat,
         jobs' = [jobs EXCEPT ![t] = NewJob(keyed, scheduled, delay)]
  PROVE  /\ DOMAIN jobs' = Jobs /\ \A u \in Jobs : Changes(jobs[u], jobs'[u])
         /\ \A i \in DueInstants : Moves(jobs[InstantJob[i]], jobs'[InstantJob[i]])
  <1>1. t \in Jobs /\ DOMAIN jobs = Jobs /\ \A u \in Jobs : JobShape(jobs[u])
    BY DEF FreeJobs, LessonsInv, JobsInv
  <1>2. Enters(jobs[t], NewJob(keyed, scheduled, delay))
    BY <1>1, NewJobChanges
  <1>3. DOMAIN jobs' = Jobs /\ jobs'[t] = NewJob(keyed, scheduled, delay)
    BY <1>1
  <1>4. \A u \in Jobs \ {t} : jobs'[u] = jobs[u]
    BY <1>1
  <1>5. \A u \in Jobs \ {t} : Moves(jobs[u], jobs'[u])
    BY <1>1, <1>4, SameRecord
  <1> QED
    BY <1>2, <1>3, <1>5, InstantJobs DEF Changes

\* What a tick does to each task.
LEMMA TickWrites ==
  ASSUME LessonsInv, NEW firing \in SUBSET NotFired(DueInstants), jobs' = AfterFiring(firing)
  PROVE  /\ DOMAIN jobs' = Jobs
         /\ \A t \in Jobs : Changes(jobs[t], jobs'[t])
         /\ \A i \in DueInstants \ firing : Moves(jobs[InstantJob[i]], jobs'[InstantJob[i]])
         /\ \A i \in firing : jobs'[InstantJob[i]].status # "absent" /\ jobs'[InstantJob[i]].scheduled
         /\ rule.overlap = "replace" =>
              \A i \in firing : jobs'[InstantJob[i]].status \in UnfinishedStatuses => i \in LastOf(firing)
         /\ rule.overlap = "replace" /\ firing # {} =>
              \A i \in DueInstants \ firing :
                jobs'[InstantJob[i]].status \in UnfinishedStatuses => jobs'[InstantJob[i]].cancel
  <1> DEFINE new == {InstantJob[i] : i \in firing}
             kept == {InstantJob[i] : i \in LastOf(firing)}
             replaced == IF rule.overlap = "replace" /\ firing # {}
                         THEN (ScheduledUnfinished \cup new) \ kept ELSE {}
             entered == NewJob(FALSE, TRUE, 0)
  <1>1. DOMAIN jobs = Jobs /\ \A t \in Jobs : JobShape(jobs[t])
    BY DEF LessonsInv, JobsInv
  <1>2. firing \subseteq DueInstants /\ LastOf(firing) \subseteq firing
    BY DEF NotFired, LastOf
  <1>3. \A i \in firing : jobs[InstantJob[i]].status = "absent"
    BY <1>2 DEF NotFired, LessonsInv, InstantsInv
  <1>4. \A i \in DueInstants : InstantJob[i] \in new <=> i \in firing
    BY <1>2, InstantJobs
  <1>5. \A i \in DueInstants : InstantJob[i] \in kept <=> i \in LastOf(firing)
    BY <1>2, InstantJobs
  <1>6. /\ DOMAIN jobs' = Jobs
        /\ \A t \in Jobs : jobs'[t] =
             IF t \in replaced THEN CancelledJob(IF t \in new THEN entered ELSE jobs[t])
             ELSE IF t \in new THEN entered ELSE jobs[t]
    BY DEF AfterFiring
  <1>7. new \subseteq Jobs /\ \A t \in new : jobs[t].status = "absent"
    BY <1>2, <1>3, InstantJobs
  <1> HIDE DEF new, kept, replaced, entered
  <1>8. ASSUME NEW t \in new
        PROVE  /\ Changes(jobs[t], jobs'[t]) /\ jobs'[t].status # "absent" /\ jobs'[t].scheduled
               /\ t \in replaced => jobs'[t].status = "cancelled"
    <2>1. t \in Jobs /\ JobShape(jobs[t]) /\ jobs[t].status = "absent"
      BY <1>1, <1>7, <1>8
    <2>2. /\ Enters(jobs[t], entered) /\ Enters(jobs[t], CancelledJob(entered))
          /\ entered.status = "queued" /\ CancelledJob(entered).status = "cancelled"
          /\ entered.scheduled = TRUE /\ CancelledJob(entered).scheduled = TRUE
      BY <2>1, NewJobChanges, 0 \in Nat DEF entered
    <2>3. jobs'[t] = IF t \in replaced THEN CancelledJob(entered) ELSE entered
      BY <1>6, <1>8, <2>1
    <2> QED
      BY <2>2, <2>3 DEF Changes
  <1>9. ASSUME NEW t \in Jobs \ new
        PROVE  /\ Moves(jobs[t], jobs'[t])
               /\ t \in replaced /\ jobs'[t].status \in UnfinishedStatuses => jobs'[t].cancel
    <2>1. jobs'[t] = IF t \in replaced THEN CancelledJob(jobs[t]) ELSE jobs[t]
      BY <1>6, <1>9
    <2>2. JobShape(jobs[t])
      BY <1>1
    <2> QED
      BY <2>1, <2>2, SameRecord, CancelledChanges
  <1>10. ASSUME rule.overlap = "replace", NEW i \in firing,
                jobs'[InstantJob[i]].status \in UnfinishedStatuses
         PROVE  i \in LastOf(firing)
    <2>1. InstantJob[i] \in new /\ i \in DueInstants
      BY <1>2, <1>4, <1>10
    <2>2. InstantJob[i] \notin replaced
      BY <1>8, <1>10, <2>1 DEF UnfinishedStatuses
    <2>3. InstantJob[i] \in kept
      BY <1>10, <2>1, <2>2 DEF replaced
    <2> QED
      BY <1>5, <2>1, <2>3
  <1>11. ASSUME rule.overlap = "replace", firing # {}, NEW i \in DueInstants \ firing,
                jobs'[InstantJob[i]].status \in UnfinishedStatuses
         PROVE  jobs'[InstantJob[i]].cancel
    <2>1. InstantJob[i] \in Jobs \ new
      BY <1>4, <1>11, InstantJobs
    <2>2. jobs[InstantJob[i]].status \in UnfinishedStatuses
      BY <1>1, <1>9, <1>11, <2>1, MovesKeep
    <2>3. InstantJob[i] \in ScheduledUnfinished
      BY <1>11, <2>1, <2>2 DEF ScheduledUnfinished, Unfinished, UnfinishedStatuses, LessonsInv,
         InstantsInv
    <2>4. InstantJob[i] \notin kept
      BY <1>2, <1>5, <1>11
    <2>5. InstantJob[i] \in replaced
      BY <1>11, <2>3, <2>4 DEF replaced
    <2> QED
      BY <1>9, <1>11, <2>1, <2>5
  <1>12. \A t \in Jobs : Changes(jobs[t], jobs'[t])
    BY <1>8, <1>9 DEF Changes
  <1>13. \A i \in DueInstants \ firing : Moves(jobs[InstantJob[i]], jobs'[InstantJob[i]])
    BY <1>4, <1>9, InstantJobs
  <1>14. \A i \in firing : jobs'[InstantJob[i]].status # "absent" /\ jobs'[InstantJob[i]].scheduled
    BY <1>2, <1>4, <1>8
  <1> QED
    BY <1>6, <1>10, <1>11, <1>12, <1>13, <1>14

LEMMA TickKeepsLessons ==
  ASSUME LessonsInv, Tick
  PROVE  DOMAIN jobs' = Jobs /\ (\A t \in Jobs : Changes(jobs[t], jobs'[t])) /\ InstantsInv'
  <1>1. PICK selected \in SelectedInstants :
          /\ jobs' = AfterFiring(Firing(selected))
          /\ job_fires' = [i \in DueInstants |->
               IF i \notin NotFired(rule.next..instant) THEN job_fires[i]
               ELSE IF i \notin selected THEN "skipped_misfire"
               ELSE IF i \in Firing(selected) THEN "enqueued" ELSE "skipped_overlap"]
    BY DEF Tick
  <1>2. /\ rule \in RuleRecords /\ rule.next \in 1..(LastInstant + 1) /\ instant \in 0..LastInstant
        /\ rule.misfire \in {"skip", "fire_once", "catch_up_limited"}
        /\ rule.overlap \in {"forbid", "allow", "replace"}
        /\ rule.next <= instant /\ LastInstant \in Nat
    BY TeachingScheduleAssumption DEF LessonsInv, InstantsInv, RuleRecords, Tick
  <1>3. selected \subseteq rule.next..instant
    <2>1. CASE rule.misfire = "fire_once"
      BY <1>1, <1>2, <2>1 DEF SelectedInstants
    <2>2. CASE rule.misfire = "catch_up_limited"
      BY <1>1, <1>2, <2>2 DEF SelectedInstants
    <2>3. CASE rule.misfire = "skip"
      <3>1. PICK i \in rule.next..(instant + 1) : selected = i..instant
        BY <1>1, <2>3 DEF SelectedInstants
      <3> QED
        BY <1>2, <3>1
    <2> QED
      BY <1>2, <2>1, <2>2, <2>3
  <1>4. rule.next..instant \subseteq DueInstants
    BY <1>2 DEF DueInstants
  <1>5. PICK firing : firing = Firing(selected)
    OBVIOUS
  <1>6. firing \subseteq NotFired(rule.next..instant) /\ firing \subseteq selected
    BY <1>3, <1>5 DEF Firing, FirstOf, NotFired
  <1>7. firing \in SUBSET NotFired(DueInstants)
    BY <1>4, <1>6 DEF NotFired
  <1>8. /\ DOMAIN jobs' = Jobs
        /\ \A t \in Jobs : Changes(jobs[t], jobs'[t])
        /\ \A i \in DueInstants \ firing : Moves(jobs[InstantJob[i]], jobs'[InstantJob[i]])
        /\ \A i \in firing : jobs'[InstantJob[i]].status # "absent" /\ jobs'[InstantJob[i]].scheduled
        /\ rule.overlap = "replace" =>
             \A i \in firing : jobs'[InstantJob[i]].status \in UnfinishedStatuses => i \in LastOf(firing)
        /\ rule.overlap = "replace" /\ firing # {} =>
             \A i \in DueInstants \ firing :
               jobs'[InstantJob[i]].status \in UnfinishedStatuses => jobs'[InstantJob[i]].cancel
    BY <1>1, <1>5, <1>7, TickWrites
  <1>9. /\ rule' \in RuleRecords /\ rule'.overlap = rule.overlap
        /\ instant' \in 0..LastInstant /\ DOMAIN job_fires' = DueInstants
    <2>1. PICK n \in 1..(LastInstant + 1) : n = instant + 1
      BY <1>2
    <2>2. rule' = [rule EXCEPT !.next = n]
      BY <2>1 DEF Tick
    <2> QED
      BY <1>1, <1>2, <2>2 DEF RuleRecords, Tick
  <1>10. \A i \in DueInstants \ firing :
           /\ jobs'[InstantJob[i]].status = "absent" <=> jobs[InstantJob[i]].status = "absent"
           /\ jobs'[InstantJob[i]].status \in UnfinishedStatuses =>
                jobs[InstantJob[i]].status \in UnfinishedStatuses
           /\ jobs'[InstantJob[i]].scheduled = jobs[InstantJob[i]].scheduled
           /\ jobs[InstantJob[i]].cancel => jobs'[InstantJob[i]].cancel
    BY <1>8, InstantJobs, MovesKeep DEF LessonsInv, JobsInv
  <1>11. \A i \in DueInstants : job_fires'[i] = "enqueued" <=> i \in firing \/ job_fires[i] = "enqueued"
    <2>1. \A i \in DueInstants : i \in NotFired(rule.next..instant) => job_fires[i] = "none"
      BY DEF NotFired
    <2> QED
      BY <1>1, <1>5, <1>6, <2>1
  <1>12. \A i \in DueInstants : job_fires'[i] = "enqueued" <=> jobs'[InstantJob[i]].status # "absent"
    BY <1>8, <1>10, <1>11 DEF LessonsInv, InstantsInv
  <1>13. \A i \in DueInstants :
           jobs'[InstantJob[i]].status # "absent" => jobs'[InstantJob[i]].scheduled
    BY <1>8, <1>10 DEF LessonsInv, InstantsInv
  <1>14. ASSUME rule.overlap # "allow", NEW i \in DueInstants, NEW j \in DueInstants,
                Wanted(i)', Wanted(j)'
         PROVE  i = j
    <2>1. /\ jobs'[InstantJob[i]].status \in UnfinishedStatuses
          /\ jobs'[InstantJob[j]].status \in UnfinishedStatuses
          /\ rule.overlap = "replace" => ~jobs'[InstantJob[i]].cancel /\ ~jobs'[InstantJob[j]].cancel
      BY <1>9, <1>14 DEF Wanted, Unfinished
    <2>2. CASE firing = {}
      <3>1. Wanted(i) /\ Wanted(j)
        BY <1>10, <2>1, <2>2, InstantJobs DEF Wanted, Unfinished
      <3> QED
        BY <1>14, <3>1 DEF LessonsInv, InstantsInv
    <2>3. CASE firing # {} /\ rule.overlap = "replace"
      <3>1. i \in firing /\ j \in firing
        BY <1>8, <2>1, <2>3
      <3>2. i \in LastOf(firing) /\ j \in LastOf(firing)
        BY <1>8, <2>1, <2>3, <3>1
      <3>3. i \in Int /\ j \in Int
        BY DEF DueInstants
      <3> QED
        BY <3>2, <3>3 DEF LastOf
    <2>4. CASE firing # {} /\ rule.overlap = "forbid"
      <3>1. ScheduledUnfinished = {} /\ firing = FirstOf(NotFired(selected))
        BY <1>5, <2>4 DEF Firing
      <3>2. ASSUME NEW k \in DueInstants \ firing, jobs'[InstantJob[k]].status \in UnfinishedStatuses
            PROVE  FALSE
        <4>1. jobs[InstantJob[k]].status \in UnfinishedStatuses
          BY <1>10, <3>2
        <4>2. InstantJob[k] \in ScheduledUnfinished
          BY <4>1, InstantJobs
          DEF ScheduledUnfinished, Unfinished, UnfinishedStatuses, LessonsInv, InstantsInv
        <4> QED
          BY <3>1, <4>2
      <3>3. i \in firing /\ j \in firing
        BY <2>1, <3>2
      <3>4. i \in Int /\ j \in Int
        BY DEF DueInstants
      <3> QED
        BY <3>1, <3>3, <3>4 DEF FirstOf
    <2> QED
      BY <1>2, <1>14, <2>2, <2>3, <2>4
  <1> QED
    BY <1>8, <1>9, <1>12, <1>13, <1>14 DEF InstantsInv

\* Every step of the lessons is a change of each task, and keeps the invariant.
LEMMA LessonsChange ==
  ASSUME LessonsInv, [LessonsNext]_lessonVars
  PROVE  LessonsInv' /\ \A t \in Jobs : LessonStep(t)
  <1> DEFINE Kept == DOMAIN jobs' = Jobs /\ (\A t \in Jobs : Changes(jobs[t], jobs'[t])) /\ InstantsInv'
  <1>1. /\ JobsInv /\ InstantsInv /\ rule \in RuleRecords /\ instant \in 0..LastInstant
        /\ rule.next \in 1..(LastInstant + 1) /\ LastInstant \in Nat
    BY TeachingScheduleAssumption DEF LessonsInv, InstantsInv, RuleRecords
  <1>2. ASSUME (JobStep \/ JobTimePasses), UNCHANGED <<rule, job_fires>>, instant' \in 0..LastInstant
        PROVE  Kept
    <2>1. DOMAIN jobs' = Jobs /\ \A t \in Jobs : Moves(jobs[t], jobs'[t])
      BY <1>1, <1>2, QueueMoves
    <2>2. InstantsInv'
      BY <1>1, <1>2, <2>1, InstantJobs, InstantsStay
    <2> QED
      BY <2>1, <2>2 DEF Changes
  <1>3. ASSUME NEW t \in FreeJobs, NEW keyed \in BOOLEAN, NEW delay \in 0..1,
               EnqueueJob(t, keyed, delay), UNCHANGED <<rule, job_fires, instant>>
        PROVE  Kept
    <2>1. DOMAIN jobs' = Jobs /\ (\A u \in Jobs : Changes(jobs[u], jobs'[u]))
          /\ \A i \in DueInstants : Moves(jobs[InstantJob[i]], jobs'[InstantJob[i]])
      <3>1. delay \in Nat /\ FALSE \in BOOLEAN
        OBVIOUS
      <3> QED
        BY <1>3, <3>1, FreeJobEnters DEF EnqueueJob
    <2>2. InstantsInv'
      BY <1>1, <1>3, <2>1, InstantsStay
    <2> QED
      BY <2>1, <2>2
  <1>4. ASSUME Tick PROVE Kept
    BY <1>4, TickKeepsLessons
  <1>5. ASSUME NEW enabled \in BOOLEAN, SetEnabled(enabled) PROVE Kept
    <2>1. jobs' = jobs /\ \A t \in Jobs : Moves(jobs[t], jobs'[t])
      BY <1>1, <1>5, SameRecord DEF SetEnabled, JobsInv
    <2>2. rule' \in RuleRecords /\ rule'.overlap = rule.overlap
      <3>1. PICK n \in 1..(LastInstant + 1) :
              n = IF enabled /\ rule.next <= instant THEN instant + 1 ELSE rule.next
        BY <1>1
      <3>2. rule' = [rule EXCEPT !.enabled = enabled, !.next = n]
        BY <1>5, <3>1 DEF SetEnabled
      <3> QED
        BY <1>1, <3>2 DEF RuleRecords
    <2>3. InstantsInv'
      BY <1>1, <1>5, <2>1, <2>2, InstantJobs, InstantsStay DEF SetEnabled
    <2> QED
      BY <1>1, <2>1, <2>3 DEF JobsInv, Changes
  <1>6. ASSUME NEW t \in FreeJobs, RunJobNow(t) PROVE Kept
    <2>1. DOMAIN jobs' = Jobs /\ (\A u \in Jobs : Changes(jobs[u], jobs'[u]))
          /\ \A i \in DueInstants : Moves(jobs[InstantJob[i]], jobs'[InstantJob[i]])
      <3>1. 0 \in Nat /\ FALSE \in BOOLEAN /\ TRUE \in BOOLEAN
        OBVIOUS
      <3> QED
        BY <1>6, <3>1, FreeJobEnters DEF RunJobNow
    <2>2. InstantsInv'
      BY <1>1, <1>6, <2>1, InstantsStay DEF RunJobNow
    <2> QED
      BY <2>1, <2>2
  <1>7. ASSUME UNCHANGED lessonVars PROVE Kept
    <2>1. jobs' = jobs /\ \A t \in Jobs : Moves(jobs[t], jobs'[t])
      BY <1>1, <1>7, SameRecord DEF lessonVars, JobsInv
    <2>2. InstantsInv'
      BY <1>1, <1>7, <2>1, InstantJobs, InstantsStay DEF lessonVars
    <2> QED
      BY <1>1, <2>1, <2>2 DEF JobsInv, Changes
  <1>8. ASSUME LessonTimePasses PROVE Kept
    <2>1. instant' \in 0..LastInstant
      BY <1>1, <1>8 DEF LessonTimePasses
    <2> QED
      BY <1>2, <1>8, <2>1 DEF LessonTimePasses
  <1>9. ASSUME JobStep, UNCHANGED <<rule, job_fires, instant>> PROVE Kept
    BY <1>1, <1>2, <1>9
  <1>10. Kept
    BY <1>3, <1>4, <1>5, <1>6, <1>7, <1>8, <1>9 DEF LessonsNext
  <1>11. JobsInv'
    BY <1>10 DEF JobsInv, Changes, Enters, Moves
  <1>12. \A t \in Jobs : LessonStep(t)
    BY <1>1, <1>10, ChangeIsALessonStep DEF JobsInv
  <1> QED
    BY <1>10, <1>11, <1>12 DEF LessonsInv

LEMMA LessonsInitially ==
  ASSUME LessonsInit
  PROVE  LessonsInv /\ \A t \in Jobs : TeachingJob(t)!Init
  <1>1. \A t \in Jobs : jobs[t] = NoJob
    BY DEF LessonsInit, JobsInit
  <1>2. JobShape(NoJob)
    <2>1. 0 \in 0..JobBudget
      BY TeachingQueueAssumption
    <2> QED
      BY <2>1 DEF NoJob, JobShape, JobRecords, JobStatuses
  <1>3. JobsInv
    BY <1>1, <1>2 DEF JobsInv, LessonsInit, JobsInit
  <1>4. NoJob.status = "absent" /\ NoJob.attempts = 0 /\ NoJob.lease = 0 /\ NoJob.result = 0
    BY DEF NoJob
  <1>5. \A t \in Jobs : TeachingJob(t)!Init
    BY <1>1, <1>4, JobPhases DEF TeachingJob!Init
  <1>6. rule \in RuleRecords /\ instant \in 0..LastInstant
    BY TeachingScheduleAssumption DEF LessonsInit, RuleRecords
  <1>7. \A i \in DueInstants : ~Wanted(i) /\ jobs[InstantJob[i]].status = "absent"
    BY <1>1, <1>4, InstantJobs DEF Wanted, Unfinished, UnfinishedStatuses
  <1>8. InstantsInv
    BY <1>6, <1>7 DEF InstantsInv, LessonsInit
  <1> QED
    BY <1>3, <1>5, <1>8 DEF LessonsInv

LEMMA AtMostOne ==
  ASSUME NEW S, \A x, y \in S : x = y
  PROVE  IsFiniteSet(S) /\ Cardinality(S) <= 1
  <1>1. CASE S = {}
    BY <1>1, FS_EmptySet
  <1>2. CASE S # {}
    <2>1. PICK x : S = {x}
      BY <1>2
    <2> QED
      <3>1. IsFiniteSet({x}) /\ Cardinality({x}) = 1
        BY FS_Singleton
      <3> QED
        BY <2>1, <3>1
  <1> QED
    BY <1>1, <1>2

LEMMA PolicyIsKept == LessonsInv => InstantsKeepTheirPolicy
  <1> SUFFICES ASSUME LessonsInv PROVE InstantsKeepTheirPolicy
    OBVIOUS
  <1> DEFINE wanted == {i \in DueInstants :
        InstantJob[i] \in Unfinished /\ (rule.overlap = "replace" => ~jobs[InstantJob[i]].cancel)}
  <1>1. rule.overlap # "allow" => \A i, j \in wanted : i = j
    BY DEF LessonsInv, InstantsInv, Wanted
  <1>2. rule.overlap # "allow" => Cardinality(wanted) <= 1
    BY <1>1, AtMostOne
  <1> QED
    BY <1>2 DEF InstantsKeepTheirPolicy, LessonsInv, InstantsInv

-----------------------------------------------------------------------------
(***************************************************************************)
(* The devices of the lessons.  Every operation that looks at a device     *)
(* first lets go of the leases that expired, so that the invariant speaks  *)
(* of any tables.  A device only names an active lease of its own, even    *)
(* one whose maintenance was ended under a lease.                          *)
(***************************************************************************)
LessonDevices ==
  [status : {"absent", "offline", "idle", "reserved", "busy", "maintenance"}, fresh : Nat,
   lease : LeaseIds \cup {NoLease}]
LessonLeases ==
  {Unused} \cup [status : {"active", "expired", "released"}, device : Devices, left : Nat]

HeldBy(l, d, leases) == leases[l].status = "active" /\ leases[l].device = d

Follows(d, table, leases) ==
  /\ table[d].status \in {"reserved", "busy"} <=> table[d].lease # NoLease
  /\ \A l \in LeaseIds : HeldBy(l, d, leases) => table[d].lease = l

TablesInv(table, leases) ==
  /\ table \in [Devices -> LessonDevices]
  /\ leases \in [LeaseIds -> LessonLeases]
  /\ \A d \in Devices : table[d].lease # NoLease => HeldBy(table[d].lease, d, leases)

LessonDevicesInv ==
  /\ TablesInv(devices, device_leases)
  /\ \A d \in Devices \ opened : Follows(d, devices, device_leases)

LEMMA AvailableStatuses ==
  ASSUME NEW device \in LessonDevices
  PROVE  /\ AvailableStatus(device) \in {"maintenance", "idle", "offline"}
         /\ device.lease # NoLease /\ device.status \in {"reserved", "busy"} =>
              EffectiveStatus(device) # "idle"
  BY DEF AvailableStatus, EffectiveStatus, LessonDevices

LEMMA SweptTables ==
  ASSUME LessonDevicesInv
  PROVE  /\ TablesInv(SweptDevices, SweptLeases)
         /\ \A d \in Devices \ opened : Follows(d, SweptDevices, SweptLeases)
         /\ \A l \in LeaseIds : device_leases[l] = Unused => SweptLeases[l] = Unused
  <1>1. /\ \A d \in Devices : devices[d] \in LessonDevices
        /\ \A l \in LeaseIds : device_leases[l] \in LessonLeases
        /\ \A d \in Devices :
             devices[d].lease # NoLease => HeldBy(devices[d].lease, d, device_leases)
    BY DEF LessonDevicesInv, TablesInv
  <1>2. \A l \in ExpiredLeases : l \in LeaseIds /\ l # NoLease /\ device_leases[l].status = "active"
    BY TeachingDevicesAssumption DEF ExpiredLeases, ActiveLeases
  <1>3. ASSUME NEW l \in LeaseIds
        PROVE  /\ SweptLeases[l] \in LessonLeases
               /\ \A d \in Devices :
                    HeldBy(l, d, SweptLeases) <=> HeldBy(l, d, device_leases) /\ l \notin ExpiredLeases
               /\ device_leases[l] = Unused => SweptLeases[l] = Unused
    <2>1. CASE l \notin ExpiredLeases
      BY <1>1, <1>3, <2>1 DEF SweptLeases, HeldBy
    <2>2. CASE l \in ExpiredLeases
      <3>1. PICK old : old = device_leases[l]
        OBVIOUS
      <3>2. old \in LessonLeases /\ old.status = "active" /\ Unused.status = "unused"
        BY <1>1, <1>2, <2>2, <3>1 DEF Unused
      <3>3. old \in [status : {"active", "expired", "released"}, device : Devices, left : Nat]
        BY <3>2 DEF LessonLeases
      <3>4. SweptLeases[l] = [old EXCEPT !.status = "expired"]
        BY <2>2, <3>1 DEF SweptLeases
      <3>5. /\ [old EXCEPT !.status = "expired"] \in LessonLeases
            /\ [old EXCEPT !.status = "expired"].status = "expired"
        BY <3>3 DEF LessonLeases
      <3> QED
        BY <2>2, <3>1, <3>2, <3>4, <3>5 DEF HeldBy
    <2> QED
      BY <2>1, <2>2
  <1>4. ASSUME NEW d \in Devices
        PROVE  /\ SweptDevices[d] \in LessonDevices
               /\ devices[d].lease \notin ExpiredLeases => SweptDevices[d] = devices[d]
               /\ devices[d].lease \in ExpiredLeases =>
                    /\ SweptDevices[d].lease = NoLease
                    /\ SweptDevices[d].status \notin {"reserved", "busy"}
    <2>1. CASE devices[d].lease \notin ExpiredLeases
      BY <1>1, <2>1 DEF SweptDevices
    <2>2. CASE devices[d].lease \in ExpiredLeases
      <3>1. PICK s : s = AvailableStatus(devices[d])
        OBVIOUS
      <3>2. SweptDevices[d] = [devices[d] EXCEPT !.lease = NoLease, !.status = s]
        BY <2>2, <3>1 DEF SweptDevices
      <3>3. s \in {"maintenance", "idle", "offline"}
        BY <1>1, <3>1, AvailableStatuses
      <3> QED
        BY <1>1, <2>2, <3>2, <3>3 DEF LessonDevices
    <2> QED
      BY <2>1, <2>2
  <1>5. /\ SweptDevices \in [Devices -> LessonDevices]
        /\ SweptLeases \in [LeaseIds -> LessonLeases]
    <2>1. SweptDevices = [d \in Devices |-> SweptDevices[d]]
      BY DEF SweptDevices
    <2>2. SweptLeases = [l \in LeaseIds |-> SweptLeases[l]]
      BY DEF SweptLeases
    <2> QED
      BY <1>3, <1>4, <2>1, <2>2
  <1>6. \A d \in Devices :
          SweptDevices[d].lease # NoLease => HeldBy(SweptDevices[d].lease, d, SweptLeases)
    <2>1. \A d \in Devices : devices[d].lease \in LeaseIds \cup {NoLease}
      BY <1>1 DEF LessonDevices
    <2> QED
      BY <1>1, <1>3, <1>4, <2>1
  <1>7. \A d \in Devices \ opened : Follows(d, SweptDevices, SweptLeases)
    <2>1. \A d \in Devices \ opened : Follows(d, devices, device_leases)
      BY DEF LessonDevicesInv
    <2> QED
      BY <1>3, <1>4, <2>1 DEF Follows
  <1> QED
    BY <1>3, <1>5, <1>6, <1>7 DEF TablesInv

\* An operation on one device that keeps its lease, or whose device is open.
LEMMA DeviceWrites ==
  ASSUME LessonDevicesInv, NEW d \in Devices, NEW new \in LessonDevices,
         new.lease = devices[d].lease, devices' = [devices EXCEPT ![d] = new],
         device_leases' = device_leases, opened \subseteq opened',
         d \in opened' \/ (new.status \in {"reserved", "busy"} <=> new.lease # NoLease)
  PROVE  LessonDevicesInv'
  <1>1. /\ devices \in [Devices -> LessonDevices]
        /\ device_leases \in [LeaseIds -> LessonLeases]
        /\ \A e \in Devices :
             devices[e].lease # NoLease => HeldBy(devices[e].lease, e, device_leases)
        /\ \A e \in Devices \ opened : Follows(e, devices, device_leases)
    BY DEF LessonDevicesInv, TablesInv
  <1>2. devices' \in [Devices -> LessonDevices] /\ devices'[d] = new
        /\ \A e \in Devices \ {d} : devices'[e] = devices[e]
    BY <1>1
  <1>3. \A e \in Devices : devices'[e].lease = devices[e].lease
    BY <1>2
  <1>4. TablesInv(devices, device_leases)'
    BY <1>1, <1>2, <1>3 DEF TablesInv
  <1>5. \A e \in Devices \ opened' : Follows(e, devices', device_leases)
    BY <1>1, <1>2, <1>3 DEF Follows
  <1> QED
    BY <1>4, <1>5 DEF LessonDevicesInv

LEMMA LessonDevicesStep ==
  ASSUME LessonDevicesInv, [DevicesNext]_deviceVars
  PROVE  LessonDevicesInv'
  <1>1. /\ devices \in [Devices -> LessonDevices]
        /\ device_leases \in [LeaseIds -> LessonLeases]
        /\ \A d \in Devices :
             devices[d].lease # NoLease => HeldBy(devices[d].lease, d, device_leases)
        /\ \A d \in Devices \ opened : Follows(d, devices, device_leases)
    BY DEF LessonDevicesInv, TablesInv
  <1>2. ASSUME NEW d \in Devices, RegisterDevice(d) PROVE LessonDevicesInv'
    <2>1. devices[d] \in LessonDevices /\ devices[d].status = "absent"
      BY <1>1, <1>2 DEF RegisterDevice, Registered
    <2>2. PICK new : new = [devices[d] EXCEPT !.status = "offline"]
      OBVIOUS
    <2>3. new \in LessonDevices /\ new.lease = devices[d].lease /\ new.status = "offline"
      BY <2>1, <2>2 DEF LessonDevices
    <2>4. devices' = [devices EXCEPT ![d] = new] /\ device_leases' = device_leases /\ opened' = opened
      BY <1>2, <2>2 DEF RegisterDevice
    <2>5. d \in opened \/ new.lease = NoLease
      BY <1>1, <2>1, <2>3 DEF Follows
    <2> QED
      BY <2>3, <2>4, <2>5, DeviceWrites
  <1>3. ASSUME NEW d \in Devices, DeviceHeartbeat(d) PROVE LessonDevicesInv'
    <2>1. devices[d] \in LessonDevices
      BY <1>1
    <2>2. PICK s : s = IF devices[d].status # "maintenance" /\ devices[d].lease = NoLease
                       THEN "idle" ELSE devices[d].status
      OBVIOUS
    <2>3. PICK new : new = [devices[d] EXCEPT !.fresh = OfflineAfter, !.status = s]
      OBVIOUS
    <2>4. new \in LessonDevices /\ new.lease = devices[d].lease /\ new.status = s
      BY <2>1, <2>2, <2>3, TeachingDevicesAssumption DEF LessonDevices
    <2>5. devices' = [devices EXCEPT ![d] = new] /\ device_leases' = device_leases /\ opened' = opened
      BY <1>1, <1>3, <2>2, <2>3 DEF DeviceHeartbeat
    <2>6. d \in opened \/ (s \in {"reserved", "busy"} <=> new.lease # NoLease)
      BY <1>1, <2>2, <2>4 DEF Follows
    <2> QED
      BY <2>4, <2>5, <2>6, DeviceWrites
  <1>4. ASSUME NEW d \in Devices, BeginMaintenance(d) PROVE LessonDevicesInv'
    <2>1. devices[d] \in LessonDevices /\ devices[d].lease = NoLease
      BY <1>1, <1>4 DEF BeginMaintenance
    <2>2. PICK new : new = [devices[d] EXCEPT !.status = "maintenance"]
      OBVIOUS
    <2>3. new \in LessonDevices /\ new.lease = devices[d].lease /\ new.status = "maintenance"
      BY <2>1, <2>2 DEF LessonDevices
    <2>4. devices' = [devices EXCEPT ![d] = new] /\ device_leases' = device_leases /\ opened' = opened
      BY <1>4, <2>2 DEF BeginMaintenance
    <2> QED
      BY <2>1, <2>3, <2>4, DeviceWrites
  <1>5. ASSUME NEW d \in Devices, EndMaintenance(d) PROVE LessonDevicesInv'
    <2>1. devices[d] \in LessonDevices
      BY <1>1
    <2>2. PICK s : s = AvailableStatus(devices[d])
      OBVIOUS
    <2>3. PICK new : new = [devices[d] EXCEPT !.status = s]
      OBVIOUS
    <2>4. s \in {"maintenance", "idle", "offline"}
      BY <2>1, <2>2, AvailableStatuses
    <2>5. new \in LessonDevices /\ new.lease = devices[d].lease /\ new.status = s
      BY <2>1, <2>3, <2>4 DEF LessonDevices
    <2>6. devices' = [devices EXCEPT ![d] = new] /\ device_leases' = device_leases
      BY <1>5, <2>2, <2>3 DEF EndMaintenance
    <2>7. opened \subseteq opened' /\ (d \in opened' \/ new.lease = NoLease)
      BY <1>5, <2>5 DEF EndMaintenance
    <2> QED
      BY <2>4, <2>5, <2>6, <2>7, DeviceWrites
  <1>6. ASSUME NEW d \in Devices, NEW l \in LeaseIds, AcquireDevice(d, l) PROVE LessonDevicesInv'
    <2>1. /\ TablesInv(SweptDevices, SweptLeases)
          /\ \A e \in Devices \ opened : Follows(e, SweptDevices, SweptLeases)
          /\ SweptLeases[l] = Unused
      BY <1>6, SweptTables DEF AcquireDevice
    <2>2. PICK seconds \in 1..DeviceLease : device_leases' = [SweptLeases EXCEPT ![l] =
            [status |-> "active", device |-> d, left |-> seconds]]
      BY <1>6 DEF AcquireDevice
    <2>3. PICK table : table = SweptDevices
      OBVIOUS
    <2>4. PICK leases : leases = SweptLeases
      OBVIOUS
    <2>5. /\ table \in [Devices -> LessonDevices]
          /\ leases \in [LeaseIds -> LessonLeases]
          /\ \A e \in Devices : table[e].lease # NoLease => HeldBy(table[e].lease, e, leases)
          /\ \A e \in Devices \ opened : Follows(e, table, leases)
          /\ leases[l] = Unused
      BY <2>1, <2>3, <2>4 DEF TablesInv
    <2>6. EffectiveStatus(table[d]) = "idle" /\ opened' = opened
      BY <1>6, <2>3 DEF AcquireDevice
    <2>7. d \in opened \/ table[d].lease = NoLease
      BY <2>5, <2>6, AvailableStatuses DEF Follows
    <2>8. PICK row : row = [status |-> "active", device |-> d, left |-> seconds]
      OBVIOUS
    <2>9. row \in LessonLeases /\ row.status = "active" /\ row.device = d
      <3>1. seconds \in Nat
        BY TeachingDevicesAssumption
      <3> QED
        BY <2>8, <3>1 DEF LessonLeases
    <2>10. /\ device_leases' \in [LeaseIds -> LessonLeases] /\ device_leases'[l] = row
           /\ \A k \in LeaseIds \ {l} : device_leases'[k] = leases[k]
      BY <2>2, <2>4, <2>5, <2>8, <2>9
    <2>11. PICK new : new = [table[d] EXCEPT !.lease = l, !.status = "reserved"]
      OBVIOUS
    <2>12. new \in LessonDevices /\ new.lease = l /\ new.status = "reserved"
      BY <2>5, <2>11 DEF LessonDevices
    <2>13. devices' = [table EXCEPT ![d] = new]
      BY <1>6, <2>3, <2>5, <2>11 DEF AcquireDevice
    <2>14. /\ devices' \in [Devices -> LessonDevices] /\ devices'[d] = new
           /\ \A e \in Devices \ {d} : devices'[e] = table[e]
      BY <2>5, <2>12, <2>13
    <2>15. \A e \in Devices : ~HeldBy(l, e, leases)
      BY <2>5 DEF HeldBy, Unused
    <2>16. \A k \in LeaseIds \ {l}, e \in Devices : HeldBy(k, e, device_leases)' <=> HeldBy(k, e, leases)
      BY <2>10 DEF HeldBy
    <2>17. \A e \in Devices : HeldBy(l, e, device_leases)' <=> e = d
      BY <2>9, <2>10 DEF HeldBy
    <2>18. \A e \in Devices : table[e].lease # l
      BY <2>5, <2>15, TeachingDevicesAssumption
    <2>19. \A e \in Devices : devices'[e].lease # NoLease => HeldBy(devices'[e].lease, e, device_leases')
      <3>1. \A e \in Devices : table[e].lease \in LeaseIds \cup {NoLease}
        BY <2>5 DEF LessonDevices
      <3> QED
        BY <2>5, <2>12, <2>14, <2>16, <2>17, <2>18, <3>1
    <2>20. ASSUME NEW e \in Devices \ opened PROVE Follows(e, devices', device_leases')
      <3>1. CASE e # d
        BY <2>5, <2>14, <2>16, <2>17, <2>20, <3>1 DEF Follows
      <3>2. CASE e = d
        <4>1. \A k \in LeaseIds : HeldBy(k, d, device_leases') => k = l
          BY <2>5, <2>7, <2>16, <2>20, <3>2, TeachingDevicesAssumption DEF Follows
        <4> QED
          BY <2>12, <2>14, <3>2, <4>1, TeachingDevicesAssumption DEF Follows
      <3> QED
        BY <3>1, <3>2
    <2> QED
      BY <2>6, <2>10, <2>14, <2>19, <2>20 DEF LessonDevicesInv, TablesInv
  <1>7. ASSUME NEW l \in LeaseIds, StartWork(l) PROVE LessonDevicesInv'
    <2>1. PICK d : d = device_leases[l].device
      OBVIOUS
    <2>2. device_leases[l].status = "active" /\ devices[d].lease = l
      BY <1>7, <2>1 DEF StartWork, UsableLease, ActiveLeases
    <2>3. d \in Devices /\ devices[d] \in LessonDevices
      BY <1>1, <2>1, <2>2 DEF LessonLeases, Unused
    <2>4. PICK new : new = [devices[d] EXCEPT !.status = "busy"]
      OBVIOUS
    <2>5. new \in LessonDevices /\ new.lease = devices[d].lease /\ new.status = "busy"
      BY <2>3, <2>4 DEF LessonDevices
    <2>6. devices' = [devices EXCEPT ![d] = new] /\ device_leases' = device_leases /\ opened' = opened
      BY <1>7, <2>1, <2>4 DEF StartWork
    <2>7. new.lease # NoLease
      BY <2>2, <2>5, TeachingDevicesAssumption
    <2> QED
      BY <2>3, <2>5, <2>6, <2>7, DeviceWrites
  <1>8. ASSUME NEW l \in LeaseIds, RenewLease(l) PROVE LessonDevicesInv'
    <2>1. PICK seconds \in 1..DeviceLease : device_leases' = [device_leases EXCEPT ![l].left = seconds]
      BY <1>8 DEF RenewLease
    <2>2. devices' = devices /\ opened' = opened
      BY <1>8 DEF RenewLease
    <2>3. device_leases[l].status = "active" /\ seconds \in Nat
      BY <1>8, TeachingDevicesAssumption DEF RenewLease, UsableLease, ActiveLeases
    <2>4. device_leases[l] \in [status : {"active", "expired", "released"}, device : Devices, left : Nat]
      BY <1>1, <2>3 DEF LessonLeases, Unused
    <2>5. PICK new : new = [device_leases[l] EXCEPT !.left = seconds]
      OBVIOUS
    <2>6. /\ new \in LessonLeases /\ new.status = device_leases[l].status
          /\ new.device = device_leases[l].device
      BY <2>3, <2>4, <2>5 DEF LessonLeases
    <2>7. device_leases' = [device_leases EXCEPT ![l] = new]
      BY <2>1, <2>5
    <2>8. device_leases' \in [LeaseIds -> LessonLeases]
      BY <1>1, <2>6, <2>7
    <2>9. \A k \in LeaseIds, d \in Devices : HeldBy(k, d, device_leases') <=> HeldBy(k, d, device_leases)
      BY <1>1, <2>6, <2>7 DEF HeldBy
    <2>10. \A d \in Devices : devices[d].lease # NoLease => HeldBy(devices[d].lease, d, device_leases')
      <3>1. \A d \in Devices : devices[d].lease \in LeaseIds \cup {NoLease}
        BY <1>1 DEF LessonDevices
      <3> QED
        BY <1>1, <2>9, <3>1
    <2> QED
      BY <1>1, <2>2, <2>8, <2>9, <2>10 DEF LessonDevicesInv, TablesInv, Follows
  <1>9. ASSUME NEW l \in LeaseIds, ReleaseLease(l) PROVE LessonDevicesInv'
    <2>1. PICK d : d = device_leases[l].device
      OBVIOUS
    <2>2. device_leases[l].status = "active" /\ devices[d].lease = l
      BY <1>9, <2>1 DEF ReleaseLease, UsableLease, ActiveLeases
    <2>3. device_leases[l] \in [status : {"active", "expired", "released"}, device : Devices, left : Nat]
      BY <1>1, <2>2 DEF LessonLeases, Unused
    <2>4. d \in Devices /\ devices[d] \in LessonDevices
      BY <1>1, <2>1, <2>3
    <2>5. PICK row : row = [device_leases[l] EXCEPT !.status = "released"]
      OBVIOUS
    <2>6. row \in LessonLeases /\ row.status = "released"
      BY <2>3, <2>5 DEF LessonLeases
    <2>7. device_leases' = [device_leases EXCEPT ![l] = row] /\ opened' = opened
      BY <1>9, <2>5 DEF ReleaseLease
    <2>8. PICK s : s = AvailableStatus(devices[d])
      OBVIOUS
    <2>9. s \in {"maintenance", "idle", "offline"}
      BY <2>4, <2>8, AvailableStatuses
    <2>10. PICK new : new = [devices[d] EXCEPT !.lease = NoLease, !.status = s]
      OBVIOUS
    <2>11. new \in LessonDevices /\ new.lease = NoLease /\ new.status = s
      BY <2>4, <2>9, <2>10 DEF LessonDevices
    <2>12. devices' = [devices EXCEPT ![d] = new]
      BY <1>9, <2>1, <2>8, <2>10 DEF ReleaseLease
    <2>13. /\ devices' \in [Devices -> LessonDevices] /\ devices'[d] = new
           /\ \A e \in Devices \ {d} : devices'[e] = devices[e]
      BY <1>1, <2>4, <2>11, <2>12
    <2>14. /\ device_leases' \in [LeaseIds -> LessonLeases]
           /\ \A e \in Devices : ~HeldBy(l, e, device_leases')
           /\ \A k \in LeaseIds \ {l}, e \in Devices :
                HeldBy(k, e, device_leases') <=> HeldBy(k, e, device_leases)
      BY <1>1, <2>6, <2>7 DEF HeldBy
    <2>15. \A e \in Devices \ {d} : devices[e].lease # l
      <3>1. \A e \in Devices : HeldBy(l, e, device_leases) => e = d
        BY <2>1 DEF HeldBy
      <3> QED
        BY <1>1, <3>1, TeachingDevicesAssumption
    <2>16. \A e \in Devices : devices'[e].lease # NoLease => HeldBy(devices'[e].lease, e, device_leases')
      <3>1. \A e \in Devices : devices[e].lease \in LeaseIds \cup {NoLease}
        BY <1>1 DEF LessonDevices
      <3> QED
        BY <1>1, <2>11, <2>13, <2>14, <2>15, <3>1
    <2>17. \A e \in Devices \ opened : Follows(e, devices', device_leases')
      <3>1. \A e \in Devices \ (opened \cup {d}) : Follows(e, devices', device_leases')
        BY <1>1, <2>13, <2>14 DEF Follows
      <3>2. d \notin opened => Follows(d, devices', device_leases')
        BY <1>1, <2>2, <2>4, <2>9, <2>11, <2>13, <2>14 DEF Follows
      <3> QED
        BY <3>1, <3>2
    <2> QED
      BY <2>7, <2>13, <2>14, <2>16, <2>17 DEF LessonDevicesInv, TablesInv
  <1>10. CASE SweepLeases
    BY <1>10, SweptTables DEF SweepLeases, LessonDevicesInv
  <1>11. CASE DeviceTimePasses
    <2>1. /\ devices' = [d \in Devices |-> [devices[d] EXCEPT !.fresh = Less(@)]]
          /\ device_leases' = [l \in LeaseIds |->
               IF l \in ActiveLeases THEN [device_leases[l] EXCEPT !.left = Less(@)] ELSE device_leases[l]]
          /\ opened' = opened
      BY <1>11 DEF DeviceTimePasses
    <2>2. \A n \in Nat : Less(n) \in Nat
      BY DEF Less
    <2>3. ASSUME NEW d \in Devices
          PROVE  /\ devices'[d] \in LessonDevices /\ devices'[d].lease = devices[d].lease
                 /\ devices'[d].status = devices[d].status
      <3>1. devices[d] \in LessonDevices
        BY <1>1
      <3>2. PICK n \in Nat : n = Less(devices[d].fresh)
        BY <2>2, <3>1 DEF LessonDevices
      <3>3. devices'[d] = [devices[d] EXCEPT !.fresh = n]
        BY <2>1, <3>2
      <3> QED
        BY <3>1, <3>3 DEF LessonDevices
    <2>4. ASSUME NEW l \in LeaseIds
          PROVE  /\ device_leases'[l] \in LessonLeases
                 /\ \A d \in Devices : HeldBy(l, d, device_leases') <=> HeldBy(l, d, device_leases)
      <3>1. CASE l \notin ActiveLeases
        <4>1. device_leases'[l] = device_leases[l]
          BY <2>1, <3>1
        <4> QED
          BY <1>1, <4>1 DEF HeldBy
      <3>2. CASE l \in ActiveLeases
        <4>1. device_leases[l] \in [status : {"active", "expired", "released"}, device : Devices, left : Nat]
          BY <1>1, <3>2 DEF LessonLeases, Unused, ActiveLeases
        <4>2. PICK n \in Nat : n = Less(device_leases[l].left)
          BY <2>2, <4>1
        <4>3. device_leases'[l] = [device_leases[l] EXCEPT !.left = n]
          BY <2>1, <3>2, <4>2
        <4>4. /\ device_leases'[l] \in LessonLeases
              /\ device_leases'[l].status = device_leases[l].status
              /\ device_leases'[l].device = device_leases[l].device
          BY <4>1, <4>3 DEF LessonLeases
        <4> QED
          BY <4>4 DEF HeldBy
      <3> QED
        BY <3>1, <3>2
    <2>5. devices' \in [Devices -> LessonDevices] /\ device_leases' \in [LeaseIds -> LessonLeases]
      BY <2>1, <2>3, <2>4
    <2>6. \A d \in Devices : devices'[d].lease # NoLease => HeldBy(devices'[d].lease, d, device_leases')
      <3>1. \A d \in Devices : devices[d].lease \in LeaseIds \cup {NoLease}
        BY <1>1 DEF LessonDevices
      <3> QED
        BY <1>1, <2>3, <2>4, <3>1
    <2>7. \A d \in Devices \ opened : Follows(d, devices', device_leases')
      BY <1>1, <2>3, <2>4 DEF Follows
    <2> QED
      BY <2>1, <2>5, <2>6, <2>7 DEF LessonDevicesInv, TablesInv
  <1>12. CASE UNCHANGED deviceVars
    BY <1>12 DEF deviceVars, LessonDevicesInv, TablesInv, Follows, HeldBy
  <1> QED
    BY <1>2, <1>3, <1>4, <1>5, <1>6, <1>7, <1>8, <1>9, <1>10, <1>11, <1>12 DEF DevicesNext

LEMMA LessonDevicesInitially == DevicesInit => LessonDevicesInv
  <1> SUFFICES ASSUME DevicesInit PROVE LessonDevicesInv
    OBVIOUS
  <1>1. Unregistered \in LessonDevices /\ Unregistered.lease = NoLease /\ Unregistered.status = "absent"
    BY DEF Unregistered, LessonDevices
  <1>2. Unused \in LessonLeases /\ Unused.status = "unused"
    BY DEF Unused, LessonLeases
  <1> QED
    BY <1>1, <1>2 DEF DevicesInit, LessonDevicesInv, TablesInv, Follows, HeldBy

LEMMA LeasesAreFollowed == LessonDevicesInv => DevicesFollowLeases
  <1> SUFFICES ASSUME LessonDevicesInv, NEW d \in Devices \ opened
               PROVE  /\ devices[d].status \in {"reserved", "busy"} <=> devices[d].lease # NoLease
                      /\ {l \in ActiveLeases : device_leases[l].device = d} = {devices[d].lease} \ {NoLease}
    BY DEF DevicesFollowLeases
  <1>1. /\ Follows(d, devices, device_leases)
        /\ devices[d].lease # NoLease => HeldBy(devices[d].lease, d, device_leases)
        /\ devices[d].lease \in LeaseIds \cup {NoLease}
    BY DEF LessonDevicesInv, TablesInv, LessonDevices
  <1> QED
    BY <1>1, TeachingDevicesAssumption DEF Follows, HeldBy, ActiveLeases

\* The adapters of the lessons, side by side, keep the promises of the
\* persistent queue to each task, the overlap policy of the schedule, and the
\* devices with the leases.
THEOREM LessonsKeep == LessonsSpec /\ DevicesSpec => LessonsKeepTheirPromise
  <1>1. LessonsSpec => []LessonsInv
    BY LessonsInitially, LessonsChange, PTL DEF LessonsSpec
  <1>2. DevicesSpec => []LessonDevicesInv
    BY LessonDevicesInitially, LessonDevicesStep, PTL DEF DevicesSpec
  <1>3. LessonsSpec => \A t \in Jobs : TeachingJob(t)!Init
    BY LessonsInitially, PTL DEF LessonsSpec
  <1>4. LessonsInv /\ [LessonsNext]_lessonVars => [\A t \in Jobs : LessonStep(t)]_lessonVars
    BY LessonsChange
  <1>5. LessonsSpec => [][\A t \in Jobs : LessonStep(t)]_lessonVars
    BY <1>1, <1>4, PTL DEF LessonsSpec
  <1>6. LessonsSpec /\ DevicesSpec => [](InstantsKeepTheirPolicy /\ DevicesFollowLeases)
    BY <1>1, <1>2, PolicyIsKept, LeasesAreFollowed, PTL
  <1> QED
    BY <1>3, <1>5, <1>6 DEF LessonsKeepTheirPromise, LessonStep

-----------------------------------------------------------------------------
(***************************************************************************)
(* Test management.  The invariant of its tables is split by the tables    *)
(* that each part reads, for an operation writes one or two of them.       *)
(***************************************************************************)
TestRows ==
  /\ projects \in [Projects -> {"absent", "active", "archived"}]
  /\ test_suites \in [Suites -> SuiteRecords \cup {None}]
  /\ test_cases \in [Cases -> CaseRecords \cup {None}]
  /\ test_plans \in [Plans -> PlanRecords \cup {None}]
  /\ executions \in [Executions -> ExecutionRecords \cup {None}]
  /\ defects \in [Defects -> DefectRecords \cup {None}]

SnapshotRecords ==
  [project : Projects, scope : Suites \cup {WholeProject}, version : Nat, cases : SUBSET Cases]
SnapshotRows == snapshots \subseteq SnapshotRecords /\ IsFiniteSet(snapshots)
AuditRows == DOMAIN audited = Suites \cup Defects /\ faults \in 0..MaxFaults

\* The references of each table.
Known(p) == projects[p] # "absent"
SuiteRefs ==
  \A s \in Suites : test_suites[s] # None =>
    /\ Known(test_suites[s].project)
    /\ test_suites[s].parent # Root =>
         test_suites[test_suites[s].parent].project = test_suites[s].project
CaseRefs ==
  \A c \in Cases : test_cases[c] # None =>
    /\ Known(test_cases[c].project)
    /\ test_cases[c].suite # Root => test_suites[test_cases[c].suite].project = test_cases[c].project
PlanRefs ==
  \A l \in Plans : test_plans[l] # None =>
    /\ Known(test_plans[l].project)
    /\ \A c \in test_plans[l].cases : test_cases[c].project = test_plans[l].project
ExecutionRefs ==
  \A x \in Executions : executions[x] # None =>
    /\ test_plans[executions[x].plan].project = executions[x].project
    /\ DOMAIN executions[x].results = test_plans[executions[x].plan].cases
DefectRefs ==
  \A d \in Defects : defects[d] # None =>
    /\ Known(defects[d].project)
    /\ defects[d].case # Nothing => test_cases[defects[d].case].project = defects[d].project
    /\ defects[d].execution # Nothing =>
         executions[defects[d].execution].project = defects[d].project
SnapshotRefs == \A v \in snapshots : Known(v.project)

\* No suite is among the ancestors of its parent.
SuitesAcyclic ==
  \A s \in Suites : test_suites[s] # None => s \notin Chain(test_suites[s].parent)
SiblingsDiffer ==
  \A s \in Suites : test_suites[s] # None =>
    UniqueName(test_suites[s].project, s, test_suites[s].parent, test_suites[s].name)

\* A plan is executed once, and not while it can be edited.
PlansRunOnce ==
  /\ \A x, y \in Executions :
       executions[x] # None /\ executions[y] # None /\ executions[x].plan = executions[y].plan => x = y
  /\ \A x \in Executions : executions[x] # None => test_plans[executions[x].plan].status # "draft"

ActiveCasesHaveSteps == \A c \in Cases : test_cases[c].status = "active" => test_cases[c].steps

\* What an archived project has has ended.
PlansAtRest ==
  \A l \in Plans : test_plans[l] # None /\ projects[test_plans[l].project] = "archived" =>
    test_plans[l].status \in {"completed", "cancelled"}
ExecutionsAtRest ==
  \A x \in Executions : executions[x] # None /\ projects[executions[x].project] = "archived" =>
    executions[x].status \in {"completed", "cancelled"}
DefectsAtRest ==
  \A d \in Defects : defects[d] # None /\ projects[defects[d].project] = "archived" =>
    defects[d].status = "closed"

\* What ended halfway.
LatePlans == {l \in Plans : ~PlanAgrees(l)}
LateSuites == {s \in Suites : audited[s] # test_suites[s].status}
LateDefects == {d \in Defects : audited[d] # defects[d].status}

RecordsInv ==
  /\ TestRows /\ SnapshotRows /\ AuditRows
  /\ SuiteRefs /\ CaseRefs /\ PlanRefs /\ ExecutionRefs /\ DefectRefs /\ SnapshotRefs
  /\ SuitesAcyclic /\ SiblingsDiffer
  /\ PlansRunOnce /\ ActiveCasesHaveSteps /\ DefectFieldsAgree /\ VersionsCount
  /\ PlansAtRest /\ ExecutionsAtRest /\ DefectsAtRest
  /\ HalfDoneIsContained

LEMMA RowFacts ==
  ASSUME TestRows
  PROVE  /\ \A s \in Suites : test_suites[s] # None => test_suites[s] \in SuiteRecords
         /\ \A s \in Suites : test_suites[s].status # "absent" => test_suites[s] \in SuiteRecords
         /\ \A s \in Suites : test_suites[s].project \in Projects => test_suites[s] \in SuiteRecords
         /\ \A c \in Cases : test_cases[c] # None => test_cases[c] \in CaseRecords
         /\ \A c \in Cases : test_cases[c].status # "absent" => test_cases[c] \in CaseRecords
         /\ \A c \in Cases : test_cases[c].project \in Projects => test_cases[c] \in CaseRecords
         /\ \A l \in Plans : test_plans[l] # None => test_plans[l] \in PlanRecords
         /\ \A l \in Plans : test_plans[l].status # "absent" => test_plans[l] \in PlanRecords
         /\ \A l \in Plans : test_plans[l].project \in Projects => test_plans[l] \in PlanRecords
         /\ \A x \in Executions : executions[x] # None => executions[x] \in ExecutionRecords
         /\ \A x \in Executions : executions[x].status # "absent" => executions[x] \in ExecutionRecords
         /\ \A x \in Executions : executions[x].project \in Projects => executions[x] \in ExecutionRecords
         /\ \A d \in Defects : defects[d] # None => defects[d] \in DefectRecords
         /\ \A d \in Defects : defects[d].status # "absent" => defects[d] \in DefectRecords
         /\ \A d \in Defects : defects[d].project \in Projects => defects[d] \in DefectRecords
  <1>1. None.status = "absent" /\ None.project \notin Projects
    BY TestManagementAssumption DEF None
  <1> QED
    BY <1>1 DEF TestRows

\* A row that is there is not None.
LEMMA RecordsAreSome ==
  /\ \A r \in SuiteRecords : r # None /\ r.project \in Projects /\ r.status # "absent"
  /\ \A r \in CaseRecords : r # None /\ r.project \in Projects /\ r.status # "absent"
  /\ \A r \in PlanRecords : r # None /\ r.project \in Projects /\ r.status # "absent"
  /\ \A r \in ExecutionRecords : r # None /\ r.project \in Projects /\ r.status # "absent"
  /\ \A r \in DefectRecords : r # None /\ r.project \in Projects /\ r.status # "absent"
  <1>1. None.status = "absent"
    BY DEF None
  <1>2. \A r \in SuiteRecords : r.project \in Projects /\ r.status # "absent"
    BY DEF SuiteRecords
  <1>3. \A r \in CaseRecords : r.project \in Projects /\ r.status # "absent"
    BY DEF CaseRecords
  <1>4. \A r \in PlanRecords : r.project \in Projects /\ r.status # "absent"
    BY DEF PlanRecords
  <1>5. \A r \in ExecutionRecords : r.project \in Projects /\ r.status # "absent"
    BY DEF ExecutionRecords
  <1>6. \A r \in DefectRecords : r.project \in Projects /\ r.status # "absent"
    BY DEF DefectRecords
  <1> QED
    BY <1>1, <1>2, <1>3, <1>4, <1>5, <1>6

-----------------------------------------------------------------------------
(* The tree of suites.                                                     *)

LEMMA Chains ==
  ASSUME NEW suites, NEW s,
         \A t \in Suites : suites[t] # None => suites[t].parent \in Suites \cup {Root}
  PROVE  /\ ChainIn(suites, s) \subseteq Suites
         /\ s \in Suites => s \in ChainIn(suites, s)
         /\ HasParents(suites, ChainIn(suites, s))
  <1>1. Root \notin Suites
    BY TestManagementAssumption
  <1>2. ASSUME NEW t \in ChainIn(suites, s), suites[t] # None, suites[t].parent # Root
        PROVE  suites[t].parent \in ChainIn(suites, s)
    <2>1. t \in Suites /\ suites[t].parent \in Suites
      BY <1>2 DEF ChainIn
    <2>2. ASSUME NEW C \in SUBSET Suites, s \in C \cup {Root}, HasParents(suites, C)
          PROVE  suites[t].parent \in C
      <3>1. t \in C
        BY <1>2, <2>2 DEF ChainIn
      <3> QED
        BY <1>2, <2>2, <3>1 DEF HasParents
    <2> QED
      BY <2>1, <2>2 DEF ChainIn
  <1>3. HasParents(suites, ChainIn(suites, s))
    BY <1>2 DEF HasParents
  <1> QED
    BY <1>1, <1>3 DEF ChainIn

LEMMA ChainIsLeast ==
  ASSUME NEW suites, NEW s, NEW C, C \subseteq Suites, s \in C \cup {Root}, HasParents(suites, C)
  PROVE  ChainIn(suites, s) \subseteq C
  BY DEF ChainIn

\* The chain of a parent is part of the chain of the child.
LEMMA ChainOfParent ==
  ASSUME NEW suites, NEW s,
         \A t \in Suites : suites[t] # None => suites[t].parent \in Suites \cup {Root},
         NEW t \in ChainIn(suites, s)
  PROVE  ChainIn(suites, t) \subseteq ChainIn(suites, s)
  BY Chains, ChainIsLeast

\* A suite that gets a parent whose chain it is not in: the suite is new,
\* moved, or stays where it was.
LEMMA MoveKeepsTree ==
  ASSUME TestRows, SuitesAcyclic, NEW s \in Suites, NEW row \in SuiteRecords,
         s \notin Chain(row.parent), test_suites' = [test_suites EXCEPT ![s] = row]
  PROVE  SuitesAcyclic'
  <1>1. \A t \in Suites : test_suites[t] # None => test_suites[t].parent \in Suites \cup {Root}
    BY RowFacts DEF SuiteRecords
  <1>2. row.parent \in Suites \cup {Root} /\ row # None
    BY RecordsAreSome DEF SuiteRecords
  <1> PICK table : table = test_suites'
    OBVIOUS
  <1>3. table[s] = row /\ \A t \in Suites \ {s} : table[t] = test_suites[t]
    BY DEF TestRows
  <1>5. PICK up : up = Chain(row.parent)
    OBVIOUS
  <1>6. up \subseteq Suites /\ s \notin up /\ HasParents(test_suites, up) /\ row.parent \in up \cup {Root}
    BY <1>1, <1>2, <1>5, Chains DEF Chain
  <1>7. HasParents(table, up)
    BY <1>3, <1>6 DEF HasParents
  <1>8. SUFFICES ASSUME NEW t \in Suites, table[t] # None,
                        t \in ChainIn(table, table[t].parent)
                 PROVE  FALSE
    BY DEF SuitesAcyclic, Chain
  <1>9. CASE t = s
    <2>1. ChainIn(table, row.parent) \subseteq up
      BY <1>6, <1>7, ChainIsLeast
    <2> QED
      BY <1>3, <1>6, <1>8, <1>9, <2>1
  <1>10. CASE t # s
    <2>1. PICK p : p = test_suites[t].parent
      OBVIOUS
    <2>2. /\ test_suites[t] # None /\ p \in Suites \cup {Root} /\ table[t].parent = p
          /\ t \notin Chain(p)
      BY <1>1, <1>3, <1>8, <1>10, <2>1 DEF SuitesAcyclic
    <2>3. PICK old : old = Chain(p)
      OBVIOUS
    <2>4. old \subseteq Suites /\ HasParents(test_suites, old) /\ p \in old \cup {Root}
      BY <1>1, <2>2, <2>3, Chains DEF Chain
    <2>5. CASE s \notin old
      <3>1. HasParents(table, old)
        BY <1>3, <2>4, <2>5 DEF HasParents
      <3>2. ChainIn(table, p) \subseteq old
        BY <2>4, <3>1, ChainIsLeast
      <3> QED
        BY <1>8, <2>2, <2>3, <3>2
    <2>6. CASE s \in old
      <3>1. HasParents(table, old \cup up)
        BY <1>3, <1>6, <1>7, <2>4 DEF HasParents
      <3>2. ChainIn(table, p) \subseteq old \cup up
        BY <1>6, <2>4, <3>1, ChainIsLeast
      <3>3. t \in up
        BY <1>8, <2>2, <2>3, <3>2
      <3>4. p \in up \cup {Root}
        BY <1>6, <2>1, <2>2, <3>3 DEF HasParents
      <3>5. old \subseteq up
        BY <1>6, <2>3, <3>4, ChainIsLeast DEF Chain
      <3> QED
        BY <1>6, <2>6, <3>5
    <2> QED
      BY <2>5, <2>6
  <1> QED
    BY <1>9, <1>10

LEMMA DeleteKeepsTree ==
  ASSUME TestRows, SuitesAcyclic, NEW s \in Suites, test_suites' = [test_suites EXCEPT ![s] = None]
  PROVE  SuitesAcyclic'
  <1>1. \A t \in Suites : test_suites[t] # None => test_suites[t].parent \in Suites \cup {Root}
    BY RowFacts DEF SuiteRecords
  <1> PICK table : table = test_suites'
    OBVIOUS
  <1>2. table[s] = None /\ \A t \in Suites \ {s} : table[t] = test_suites[t]
    BY DEF TestRows
  <1>4. ASSUME NEW t \in Suites, table[t] # None
        PROVE  t \notin ChainIn(table, table[t].parent)
    <2>1. PICK p : p = test_suites[t].parent
      OBVIOUS
    <2>2. test_suites[t] # None /\ table[t].parent = p /\ p \in Suites \cup {Root}
      BY <1>1, <1>2, <1>4, <2>1
    <2>3. PICK old : old = Chain(p)
      OBVIOUS
    <2>4. t \notin old /\ old \subseteq Suites /\ HasParents(test_suites, old) /\ p \in old \cup {Root}
      BY <1>1, <2>1, <2>2, <2>3, Chains DEF Chain, SuitesAcyclic
    <2>5. HasParents(table, old)
      BY <1>2, <2>4 DEF HasParents
    <2>6. ChainIn(table, p) \subseteq old
      BY <2>4, <2>5, ChainIsLeast
    <2> QED
      BY <2>2, <2>4, <2>6
  <1> QED
    BY <1>4 DEF SuitesAcyclic, Chain

-----------------------------------------------------------------------------
(* What ended halfway is paid for.                                         *)

LEMMA LateStep ==
  ASSUME HalfDoneIsContained, AuditRows, faults' \in Nat,
         NEW A, IsFiniteSet(A), NEW B, IsFiniteSet(B), NEW C, IsFiniteSet(C),
         Cardinality(A) + Cardinality(B) + Cardinality(C) + faults <= faults',
         LatePlans' \subseteq LatePlans \cup A, LateSuites' \subseteq LateSuites \cup B,
         LateDefects' \subseteq LateDefects \cup C
  PROVE  HalfDoneIsContained'
  <1> DEFINE size(S) == Cardinality(S)
  <1>1. IsFiniteSet(LatePlans) /\ IsFiniteSet(LateSuites) /\ IsFiniteSet(LateDefects)
    BY TestManagementAssumption, FS_Subset DEF LatePlans, LateSuites, LateDefects
  <1>2. ASSUME NEW S, IsFiniteSet(S), NEW T, IsFiniteSet(T), NEW U, U \subseteq S \cup T
        PROVE  /\ Cardinality(U) \in Nat /\ Cardinality(S) \in Nat /\ Cardinality(T) \in Nat
               /\ Cardinality(U) <= Cardinality(S) + Cardinality(T)
    <2>1. IsFiniteSet(S \cup T) /\ Cardinality(S \cup T) = Cardinality(S) + Cardinality(T) - Cardinality(S \cap T)
      BY <1>2, FS_Union
    <2>2. IsFiniteSet(S \cap T)
      BY <1>2, FS_Intersection
    <2>3. IsFiniteSet(U) /\ Cardinality(U) <= Cardinality(S \cup T)
      BY <1>2, <2>1, FS_Subset
    <2> QED
      BY <1>2, <2>1, <2>2, <2>3, FS_CardinalityType
  <1>3. /\ size(LatePlans') <= size(LatePlans) + size(A) /\ size(LatePlans') \in Nat
        /\ size(LateSuites') <= size(LateSuites) + size(B) /\ size(LateSuites') \in Nat
        /\ size(LateDefects') <= size(LateDefects) + size(C) /\ size(LateDefects') \in Nat
        /\ size(LatePlans) \in Nat /\ size(LateSuites) \in Nat /\ size(LateDefects) \in Nat
        /\ size(A) \in Nat /\ size(B) \in Nat /\ size(C) \in Nat
    BY <1>1, <1>2
  <1>4. size(LatePlans) + size(LateSuites) + size(LateDefects) <= faults
    BY DEF HalfDoneIsContained, LatePlans, LateSuites, LateDefects
  <1>5. faults \in Nat
    BY FaultsAssumption DEF AuditRows
  <1>6. size(LatePlans') + size(LateSuites') + size(LateDefects') <= faults'
    BY <1>3, <1>4, <1>5
  <1> QED
    BY <1>6 DEF HalfDoneIsContained, LatePlans, LateSuites, LateDefects

\* Nothing more is late.
LEMMA NoneLate ==
  ASSUME HalfDoneIsContained, AuditRows, faults' = faults,
         LatePlans' \subseteq LatePlans, LateSuites' \subseteq LateSuites,
         LateDefects' \subseteq LateDefects
  PROVE  HalfDoneIsContained'
  <1>1. IsFiniteSet({}) /\ Cardinality({}) = 0
    BY FS_EmptySet
  <1>2. faults \in Nat /\ faults' \in Nat
    BY FaultsAssumption DEF AuditRows
  <1> QED
    BY <1>1, <1>2, LateStep

\* One record more is late, and a fault has occurred.
LEMMA OneLate ==
  ASSUME HalfDoneIsContained, AuditRows, Fault, NEW e,
         \/ /\ LatePlans' \subseteq LatePlans \cup {e}
            /\ LateSuites' \subseteq LateSuites /\ LateDefects' \subseteq LateDefects
         \/ /\ LateSuites' \subseteq LateSuites \cup {e}
            /\ LatePlans' \subseteq LatePlans /\ LateDefects' \subseteq LateDefects
         \/ /\ LateDefects' \subseteq LateDefects \cup {e}
            /\ LatePlans' \subseteq LatePlans /\ LateSuites' \subseteq LateSuites
  PROVE  HalfDoneIsContained'
  <1>1. /\ IsFiniteSet({}) /\ Cardinality({}) = 0
        /\ IsFiniteSet({e}) /\ Cardinality({e}) = 1
    BY FS_EmptySet, FS_Singleton
  <1>2. faults \in Nat /\ faults' = faults + 1 /\ faults' \in Nat
    BY FaultsAssumption DEF AuditRows, Fault
  <1>3. CASE /\ LatePlans' \subseteq LatePlans \cup {e}
             /\ LateSuites' \subseteq LateSuites /\ LateDefects' \subseteq LateDefects
    <2>1. Cardinality({e}) + Cardinality({}) + Cardinality({}) + faults <= faults'
      BY <1>1, <1>2
    <2>2. LateSuites' \subseteq LateSuites \cup {} /\ LateDefects' \subseteq LateDefects \cup {}
      BY <1>3
    <2> QED
      BY <1>1, <1>2, <1>3, <2>1, <2>2, LateStep
  <1>4. CASE /\ LateSuites' \subseteq LateSuites \cup {e}
             /\ LatePlans' \subseteq LatePlans /\ LateDefects' \subseteq LateDefects
    <2>1. Cardinality({}) + Cardinality({e}) + Cardinality({}) + faults <= faults'
      BY <1>1, <1>2
    <2>2. LatePlans' \subseteq LatePlans \cup {} /\ LateDefects' \subseteq LateDefects \cup {}
      BY <1>4
    <2> QED
      BY <1>1, <1>2, <1>4, <2>1, <2>2, LateStep
  <1>5. CASE /\ LateDefects' \subseteq LateDefects \cup {e}
             /\ LatePlans' \subseteq LatePlans /\ LateSuites' \subseteq LateSuites
    <2>1. Cardinality({}) + Cardinality({}) + Cardinality({e}) + faults <= faults'
      BY <1>1, <1>2
    <2>2. LatePlans' \subseteq LatePlans \cup {} /\ LateSuites' \subseteq LateSuites \cup {}
      BY <1>5
    <2> QED
      BY <1>1, <1>2, <1>5, <2>1, <2>2, LateStep
  <1> QED
    BY <1>3, <1>4, <1>5

LEMMA AuditStays ==
  ASSUME AuditRows, UNCHANGED audited, UNCHANGED faults \/ Fault
  PROVE  AuditRows'
  BY FaultsAssumption DEF AuditRows, Fault

\* The trail of a suite or a defect: its last event has the status, or it is late.
LEMMA Audited ==
  ASSUME AuditRows, NEW e \in Suites \cup Defects, NEW status, Audit(e, status)
  PROVE  /\ AuditRows'
         /\ \A i \in Suites \cup Defects : i # e => audited'[i] = audited[i]
         /\ Fault \/ (faults' = faults /\ audited'[e] = status)
  BY FaultsAssumption DEF AuditRows, Audit, Fault

\* Whether a plan is late depends on its status and on its executions.
LEMMA PlanStaysAsLate ==
  ASSUME NEW l, test_plans'[l].status = test_plans[l].status,
         \A x \in Executions : (executions'[x] # None /\ executions'[x].plan = l) <=>
                               (executions[x] # None /\ executions[x].plan = l),
         \A x \in ExecutionsOf(l) : executions'[x].status = executions[x].status
  PROVE  PlanAgrees(l)' <=> PlanAgrees(l)
  <1>1. ExecutionsOf(l)' = ExecutionsOf(l)
    BY DEF ExecutionsOf
  <1> QED
    BY <1>1 DEF PlanAgrees

-----------------------------------------------------------------------------
(* Operations on projects and suites.                                      *)

otherThanProjects ==
  <<test_suites, test_cases, test_plans, executions, defects, snapshots, audited, faults>>

\* The status of a project is read by the references and by what is at rest.
LEMMA ProjectWrites ==
  ASSUME RecordsInv, NEW p \in Projects, NEW target \in {"absent", "active", "archived"},
         projects' = [projects EXCEPT ![p] = target], UNCHANGED otherThanProjects,
         SuiteRefs', CaseRefs', PlanRefs', DefectRefs', SnapshotRefs',
         PlansAtRest', ExecutionsAtRest', DefectsAtRest'
  PROVE  RecordsInv'
  <1> USE DEF otherThanProjects
  <1>1. TestRows' /\ SnapshotRows' /\ AuditRows' /\ ExecutionRefs'
    BY DEF RecordsInv, TestRows, SnapshotRows, AuditRows, ExecutionRefs
  <1>2. SuitesAcyclic' /\ SiblingsDiffer' /\ PlansRunOnce' /\ ActiveCasesHaveSteps'
        /\ DefectFieldsAgree' /\ VersionsCount'
    BY DEF RecordsInv, SuitesAcyclic, Chain, SiblingsDiffer, UniqueName, Of, PlansRunOnce,
       ActiveCasesHaveSteps, DefectFieldsAgree, VersionsCount
  <1>3. HalfDoneIsContained'
    BY DEF RecordsInv, HalfDoneIsContained, PlanAgrees, ExecutionsOf
  <1> QED
    BY <1>1, <1>2, <1>3 DEF RecordsInv

\* A project that stays is known to those that name it.
LEMMA KnownStays ==
  ASSUME RecordsInv, \A p \in Projects : Known(p) => Known(p)', UNCHANGED otherThanProjects
  PROVE  SuiteRefs' /\ CaseRefs' /\ PlanRefs' /\ DefectRefs' /\ SnapshotRefs'
  <1>1. TestRows /\ SnapshotRows
    BY DEF RecordsInv
  <1>2. \A r \in SuiteRecords \cup CaseRecords \cup PlanRecords \cup DefectRecords : r.project \in Projects
    BY RecordsAreSome
  <1>3. SuiteRefs' /\ CaseRefs'
    BY <1>1, <1>2, RowFacts DEF RecordsInv, SuiteRefs, CaseRefs, otherThanProjects
  <1>4. PlanRefs' /\ DefectRefs'
    BY <1>1, <1>2, RowFacts DEF RecordsInv, PlanRefs, DefectRefs, otherThanProjects
  <1>5. SnapshotRefs'
    BY <1>1 DEF RecordsInv, SnapshotRefs, SnapshotRows, SnapshotRecords, otherThanProjects
  <1> QED
    BY <1>3, <1>4, <1>5

LEMMA ProjectStepInv ==
  ASSUME RecordsInv, ProjectStep
  PROVE  RecordsInv'
  <1>1. /\ TestRows /\ SnapshotRows /\ PlansAtRest /\ ExecutionsAtRest /\ DefectsAtRest
        /\ DOMAIN projects = Projects
    BY DEF RecordsInv, TestRows
  <1> DEFINE Rests(p) ==
        /\ \A l \in Plans : test_plans[l] # None /\ test_plans[l].project = p =>
             test_plans[l].status \in {"completed", "cancelled"}
        /\ \A x \in Executions : executions[x] # None /\ executions[x].project = p =>
             executions[x].status \in {"completed", "cancelled"}
        /\ \A d \in Defects : defects[d] # None /\ defects[d].project = p => defects[d].status = "closed"
  <1>2. ASSUME NEW p \in Projects, NEW target \in {"active", "archived"},
               projects' = [projects EXCEPT ![p] = target], UNCHANGED otherThanProjects,
               target = "archived" => Rests(p)
        PROVE  RecordsInv'
    <2>1. projects'[p] = target /\ \A q \in Projects \ {p} : projects'[q] = projects[q]
      BY <1>1, <1>2
    <2>2. \A q \in Projects : Known(q) => Known(q)'
      BY <2>1 DEF Known
    <2>3. \A r \in PlanRecords \cup ExecutionRecords \cup DefectRecords : r.project \in Projects
      BY RecordsAreSome
    <2>4. PlansAtRest'
      BY <1>1, <1>2, <2>1, <2>3, RowFacts DEF PlansAtRest, otherThanProjects
    <2>5. ExecutionsAtRest'
      BY <1>1, <1>2, <2>1, <2>3, RowFacts DEF ExecutionsAtRest, otherThanProjects
    <2>6. DefectsAtRest'
      BY <1>1, <1>2, <2>1, <2>3, RowFacts DEF DefectsAtRest, otherThanProjects
    <2> QED
      BY <1>2, <2>2, <2>4, <2>5, <2>6, KnownStays, ProjectWrites
  <1>3. ASSUME NEW p \in Projects, CreateProject(p) PROVE RecordsInv'
    BY <1>2, <1>3 DEF CreateProject, otherThanProjects
  <1>4. ASSUME NEW p \in Projects, NEW target \in {"active", "archived"}, TransitionProject(p, target)
        PROVE  RecordsInv'
    <2>1. CASE target = "active"
      BY <1>2, <1>4, <2>1 DEF TransitionProject, otherThanProjects
    <2>2. CASE target = "archived"
      <3>1. ~OpenWork(p)
        BY <1>4, <2>2 DEF TransitionProject
      <3>2. \A l \in Plans : test_plans[l] # None /\ test_plans[l].project = p =>
              test_plans[l].status \in {"completed", "cancelled"}
        BY <1>1, <3>1, RowFacts DEF OpenWork, Of, PlanRecords, TestRows
      <3>3. \A x \in Executions : executions[x] # None /\ executions[x].project = p =>
              executions[x].status \in {"completed", "cancelled"}
        <4>1. \A r \in ExecutionRecords : r.status \in {"created", "running", "completed", "cancelled"}
          BY DEF ExecutionRecords
        <4> QED
          BY <1>1, <3>1, <4>1, RowFacts DEF OpenWork, Of, TestRows
      <3>4. \A d \in Defects : defects[d] # None /\ defects[d].project = p => defects[d].status = "closed"
        BY <1>1, <3>1 DEF OpenWork, Of, TestRows
      <3> QED
        BY <1>2, <1>4, <3>2, <3>3, <3>4 DEF TransitionProject, otherThanProjects
    <2> QED
      BY <2>1, <2>2
  <1>5. ASSUME NEW p \in Projects, DeleteProject(p) PROVE RecordsInv'
    <2>1. UNCHANGED otherThanProjects /\ projects' = [projects EXCEPT ![p] = "absent"]
      BY <1>5 DEF DeleteProject, otherThanProjects
    <2>2. projects'[p] = "absent" /\ \A q \in Projects \ {p} : projects'[q] = projects[q]
      BY <1>1, <2>1
    <2>3. Of(test_suites, p) = {} /\ Of(test_cases, p) = {} /\ Of(test_plans, p) = {} /\ Of(defects, p) = {}
      BY <1>5 DEF DeleteProject
    <2>4. /\ \A s \in Suites : test_suites[s].project # p
          /\ \A c \in Cases : test_cases[c].project # p
          /\ \A l \in Plans : test_plans[l].project # p
          /\ \A d \in Defects : defects[d].project # p
          /\ \A v \in snapshots : v.project # p
      BY <1>1, <1>5, <2>3 DEF DeleteProject, Of, TestRows
    <2>5. \A r \in SuiteRecords \cup CaseRecords \cup PlanRecords \cup ExecutionRecords \cup DefectRecords :
            r.project \in Projects
      BY RecordsAreSome
    <2>6. SuiteRefs' /\ CaseRefs'
      BY <1>1, <2>1, <2>2, <2>4, <2>5, RowFacts
      DEF RecordsInv, SuiteRefs, CaseRefs, Known, otherThanProjects
    <2>7. PlanRefs' /\ DefectRefs'
      BY <1>1, <2>1, <2>2, <2>4, <2>5, RowFacts
      DEF RecordsInv, PlanRefs, DefectRefs, Known, otherThanProjects
    <2>8. SnapshotRefs'
      BY <1>1, <2>1, <2>2, <2>4
      DEF RecordsInv, SnapshotRefs, SnapshotRows, SnapshotRecords, Known, otherThanProjects
    <2>9. PlansAtRest' /\ DefectsAtRest'
      BY <1>1, <2>1, <2>2, <2>5, RowFacts DEF PlansAtRest, DefectsAtRest, otherThanProjects
    <2>10. ExecutionsAtRest'
      BY <1>1, <2>1, <2>2, <2>5, RowFacts DEF ExecutionsAtRest, otherThanProjects
    <2> QED
      BY <2>1, <2>6, <2>7, <2>8, <2>9, <2>10, ProjectWrites
  <1> QED
    BY <1>3, <1>4, <1>5 DEF ProjectStep

otherThanSuites == <<projects, test_cases, test_plans, executions, defects, snapshots>>

\* What no operation on suites touches.
LEMMA SuiteWrites ==
  ASSUME RecordsInv, test_suites' \in [Suites -> SuiteRecords \cup {None}], UNCHANGED otherThanSuites,
         AuditRows', SuiteRefs', CaseRefs', SuitesAcyclic', SiblingsDiffer', HalfDoneIsContained'
  PROVE  RecordsInv'
  <1> USE DEF otherThanSuites
  <1>1. TestRows' /\ SnapshotRows'
    BY DEF RecordsInv, TestRows, SnapshotRows
  <1>2. PlanRefs' /\ ExecutionRefs' /\ DefectRefs' /\ SnapshotRefs'
    BY DEF RecordsInv, PlanRefs, ExecutionRefs, DefectRefs, SnapshotRefs, Known
  <1>3. PlansRunOnce' /\ ActiveCasesHaveSteps' /\ DefectFieldsAgree' /\ VersionsCount'
    BY DEF RecordsInv, PlansRunOnce, ActiveCasesHaveSteps, DefectFieldsAgree, VersionsCount
  <1>4. PlansAtRest' /\ ExecutionsAtRest' /\ DefectsAtRest'
    BY DEF RecordsInv, PlansAtRest, ExecutionsAtRest, DefectsAtRest
  <1> QED
    BY <1>1, <1>2, <1>3, <1>4 DEF RecordsInv

\* The audit trail of suite s, whose status is now the given one.
LEMMA SuiteAudited ==
  ASSUME RecordsInv, NEW s \in Suites, NEW status,
         test_suites'[s].status = status,
         \A t \in Suites \ {s} : test_suites'[t] = test_suites[t],
         \/ Audit(s, status)
         \/ status = test_suites[s].status /\ UNCHANGED <<audited, faults>>,
         UNCHANGED otherThanSuites
  PROVE  AuditRows' /\ HalfDoneIsContained'
  <1> USE DEF RecordsInv
  <1>1. LatePlans' = LatePlans
    BY DEF LatePlans, PlanAgrees, ExecutionsOf, otherThanSuites
  <1>2. \A d \in Defects : d # s
    BY TestManagementAssumption
  <1>3. CASE Audit(s, status)
    <2>1. /\ AuditRows'
          /\ \A i \in Suites \cup Defects : i # s => audited'[i] = audited[i]
          /\ Fault \/ (faults' = faults /\ audited'[s] = status)
      BY <1>3, Audited
    <2>2. LateDefects' \subseteq LateDefects
      BY <1>2, <2>1 DEF LateDefects, otherThanSuites
    <2>3. LateSuites' \subseteq LateSuites \cup {s}
      BY <2>1 DEF LateSuites
    <2>4. CASE Fault
      BY <1>1, <2>1, <2>2, <2>3, <2>4, OneLate
    <2>5. CASE faults' = faults /\ audited'[s] = status
      <3>1. LateSuites' \subseteq LateSuites
        BY <2>1, <2>5 DEF LateSuites
      <3> QED
        BY <1>1, <2>1, <2>2, <2>5, <3>1, NoneLate
    <2> QED
      BY <2>1, <2>4, <2>5
  <1>4. CASE status = test_suites[s].status /\ UNCHANGED <<audited, faults>>
    <2>1. LateSuites' = LateSuites /\ LateDefects' = LateDefects
      BY <1>4 DEF LateSuites, LateDefects, otherThanSuites
    <2>2. AuditRows' /\ faults' = faults
      BY <1>4, AuditStays
    <2> QED
      BY <1>1, <2>1, <2>2, NoneLate
  <1> QED
    BY <1>3, <1>4

\* A suite that is created, edited, moved, archived or restored.
LEMMA SuiteIsWritten ==
  ASSUME RecordsInv, NEW s \in Suites, NEW row \in SuiteRecords,
         test_suites' = [test_suites EXCEPT ![s] = row], UNCHANGED otherThanSuites,
         test_suites[s] = None \/ test_suites[s].project = row.project,
         Known(row.project),
         row.parent # Root => test_suites[row.parent].project = row.project /\ row.parent # s,
         s \notin Chain(row.parent),
         UniqueName(row.project, s, row.parent, row.name),
         \/ Audit(s, row.status)
         \/ row.status = test_suites[s].status /\ UNCHANGED <<audited, faults>>
  PROVE  RecordsInv'
  <1>1. TestRows /\ SuiteRefs /\ CaseRefs /\ SuitesAcyclic /\ SiblingsDiffer
    BY DEF RecordsInv
  <1>2. /\ test_suites'[s] = row /\ \A t \in Suites \ {s} : test_suites'[t] = test_suites[t]
        /\ test_suites' \in [Suites -> SuiteRecords \cup {None}]
    BY <1>1 DEF TestRows
  <1>3. row # None /\ row.project \in Projects /\ None.project \notin Projects
    BY RecordsAreSome, TestManagementAssumption DEF None
  <1>4. \A t \in Suites : test_suites[t].project \in Projects => test_suites'[t].project = test_suites[t].project
    BY <1>2, <1>3
  <1>5. row.parent \in Suites \cup {Root}
    BY DEF SuiteRecords
  <1>6. \A t \in Suites : test_suites[t] # None =>
          test_suites[t].parent \in Suites \cup {Root} /\ test_suites[t].project \in Projects
    BY <1>1, RowFacts DEF SuiteRecords
  <1>7. SuiteRefs'
    <2>1. ASSUME NEW t \in Suites \ {s}, test_suites[t] # None
          PROVE  /\ Known(test_suites[t].project)
                 /\ test_suites[t].parent # Root =>
                      test_suites'[test_suites[t].parent].project = test_suites[t].project
      BY <1>1, <1>4, <1>6, <2>1 DEF SuiteRefs
    <2>2. row.parent # Root => test_suites'[row.parent].project = row.project
      BY <1>2, <1>5
    <2>3. Known(row.project)' <=> Known(row.project)
      BY DEF Known, otherThanSuites
    <2>4. projects' = projects
      BY DEF otherThanSuites
    <2> QED
      BY <1>2, <2>1, <2>2, <2>4 DEF SuiteRefs, Known
  <1>8. CaseRefs'
    <2>1. \A c \in Cases : test_cases[c] # None =>
            test_cases[c].suite \in Suites \cup {Root} /\ test_cases[c].project \in Projects
      BY <1>1, RowFacts DEF CaseRecords
    <2>2. projects' = projects /\ test_cases' = test_cases
      BY DEF otherThanSuites
    <2> QED
      BY <1>1, <1>4, <2>1, <2>2 DEF CaseRefs, Known
  <1>9. SuitesAcyclic'
    BY <1>1, MoveKeepsTree
  <1>10. SiblingsDiffer'
    <2>1. \A t \in Suites \ {s} : t \in Of(test_suites, row.project) /\ test_suites[t].parent = row.parent
            => test_suites[t].name # row.name
      BY DEF UniqueName
    <2>2. \A t, u \in Suites : test_suites[t] # None /\ t # u /\ u \in Of(test_suites, test_suites[t].project)
            /\ test_suites[u].parent = test_suites[t].parent => test_suites[u].name # test_suites[t].name
      BY <1>1 DEF SiblingsDiffer, UniqueName
    <2>3. DOMAIN test_suites = Suites /\ DOMAIN test_suites' = Suites
      BY <1>1, <1>2 DEF TestRows
    <2>4. ASSUME NEW t \in Suites, NEW u \in Suites, t # u, test_suites'[t] # None,
                 test_suites'[u].project = test_suites'[t].project,
                 test_suites'[u].parent = test_suites'[t].parent
          PROVE  test_suites'[u].name # test_suites'[t].name
      <3>1. CASE u = s
        <4>1. t # s /\ test_suites[t].project = row.project /\ test_suites[t].parent = row.parent
          BY <1>2, <2>4, <3>1
        <4> QED
          BY <1>2, <2>1, <2>3, <3>1, <4>1 DEF Of
      <3>2. CASE t = s
        <4>1. u # s /\ test_suites[u].project = row.project /\ test_suites[u].parent = row.parent
          BY <1>2, <2>4, <3>2
        <4> QED
          BY <1>2, <2>1, <2>3, <3>2, <4>1 DEF Of
      <3>3. CASE t # s /\ u # s
        BY <1>2, <2>2, <2>3, <2>4, <3>3 DEF Of
      <3> QED
        BY <3>1, <3>2, <3>3
    <2> QED
      BY <2>3, <2>4 DEF SiblingsDiffer, UniqueName, Of
  <1>11. AuditRows' /\ HalfDoneIsContained'
    BY <1>2, SuiteAudited
  <1> QED
    BY <1>2, <1>7, <1>8, <1>9, <1>10, <1>11, SuiteWrites

\* The chain of the new parent, as _validate_parent walks it.
LEMMA ParentIsValid ==
  ASSUME RecordsInv, NEW p \in Projects, NEW s \in Suites, NEW parent \in Suites \cup {Root},
         ValidParent(p, s, parent)
  PROVE  /\ s \notin Chain(parent)
         /\ parent # Root => test_suites[parent].project = p /\ parent # s
  <1>1. \A t \in Suites : test_suites[t] # None => test_suites[t].parent \in Suites \cup {Root}
    BY RowFacts DEF SuiteRecords, RecordsInv
  <1>2. parent # Root => parent \in Chain(parent)
    BY <1>1, Chains DEF Chain
  <1> QED
    BY <1>2 DEF ValidParent, ActiveIn

LEMMA SuiteStepInv ==
  ASSUME RecordsInv, SuiteStep
  PROVE  RecordsInv'
  <1>1. TestRows /\ SuiteRefs /\ CaseRefs /\ SuitesAcyclic /\ SiblingsDiffer
    BY DEF RecordsInv
  <1>2. ASSUME NEW s \in Suites, NEW p \in Projects, NEW parent \in Suites \cup {Root}, NEW name \in Names,
               CreateSuite(s, p, parent, name)
        PROVE  RecordsInv'
    <2>1. PICK row : row = [project |-> p, parent |-> parent, name |-> name, status |-> "active"]
      OBVIOUS
    <2>2. /\ row \in SuiteRecords /\ row.project = p /\ row.parent = parent /\ row.name = name
          /\ row.status = "active"
      BY <2>1 DEF SuiteRecords
    <2>3. /\ test_suites' = [test_suites EXCEPT ![s] = row] /\ UNCHANGED otherThanSuites
          /\ test_suites[s] = None /\ Known(p) /\ Audit(s, row.status)
          /\ UniqueName(p, s, parent, name) /\ ValidParent(p, s, parent)
      BY <1>2, <2>1, <2>2 DEF CreateSuite, otherThanSuites, Active, Known
    <2> QED
      BY <2>2, <2>3, ParentIsValid, SuiteIsWritten
  <1>3. ASSUME NEW s \in Suites, NEW parent \in Suites \cup {Root}, NEW name \in Names,
               UpdateSuite(s, parent, name)
        PROVE  RecordsInv'
    <2>1. PICK suite : suite = test_suites[s]
      OBVIOUS
    <2>2. suite \in SuiteRecords /\ suite.status = "active" /\ suite.project \in Projects /\ suite # None
      BY <1>1, <1>3, <2>1, RowFacts, RecordsAreSome DEF UpdateSuite
    <2>3. PICK row : row = [suite EXCEPT !.parent = parent, !.name = name]
      OBVIOUS
    <2>4. /\ row \in SuiteRecords /\ row.project = suite.project /\ row.parent = parent
          /\ row.name = name /\ row.status = suite.status
      BY <2>2, <2>3 DEF SuiteRecords
    <2>5. /\ test_suites' = [test_suites EXCEPT ![s] = row] /\ UNCHANGED otherThanSuites
          /\ UNCHANGED <<audited, faults>> /\ Known(suite.project)
          /\ UniqueName(suite.project, s, parent, name)
          /\ parent # suite.parent => ValidParent(suite.project, s, parent)
      BY <1>1, <1>3, <2>1, <2>3 DEF UpdateSuite, otherThanSuites, Active, Known, TestRows
    <2>6. /\ s \notin Chain(parent)
          /\ parent # Root => test_suites[parent].project = suite.project /\ parent # s
      <3>1. CASE parent # suite.parent
        BY <2>2, <2>5, <3>1, ParentIsValid
      <3>2. CASE parent = suite.parent
        <4>1. s \notin Chain(parent)
          BY <1>1, <2>1, <2>2, <3>2 DEF SuitesAcyclic
        <4>2. \A t \in Suites : test_suites[t] # None => test_suites[t].parent \in Suites \cup {Root}
          BY <1>1, RowFacts DEF SuiteRecords
        <4>3. parent # Root => parent \in Chain(parent)
          BY <4>2, Chains DEF Chain
        <4> QED
          BY <1>1, <2>1, <2>2, <3>2, <4>1, <4>3 DEF SuiteRefs
      <3> QED
        BY <3>1, <3>2
    <2> QED
      BY <2>1, <2>4, <2>5, <2>6, SuiteIsWritten
  <1>4. ASSUME NEW s \in Suites, NEW target \in {"active", "archived"}, TransitionSuite(s, target)
        PROVE  RecordsInv'
    <2>1. PICK suite : suite = test_suites[s]
      OBVIOUS
    <2>2. suite \in SuiteRecords /\ suite.project \in Projects /\ suite # None
      BY <1>1, <1>4, <2>1, RowFacts, RecordsAreSome DEF TransitionSuite
    <2>3. PICK row : row = [suite EXCEPT !.status = target]
      OBVIOUS
    <2>4. /\ row \in SuiteRecords /\ row.project = suite.project /\ row.parent = suite.parent
          /\ row.name = suite.name /\ row.status = target /\ suite.parent \in Suites \cup {Root}
      BY <2>2, <2>3 DEF SuiteRecords
    <2>5. /\ test_suites' = [test_suites EXCEPT ![s] = row] /\ UNCHANGED otherThanSuites
          /\ Audit(s, target) /\ Known(suite.project)
      BY <1>1, <1>4, <2>1, <2>3 DEF TransitionSuite, otherThanSuites, Active, Known, TestRows
    <2>6. UniqueName(suite.project, s, suite.parent, suite.name)
      BY <1>1, <2>1, <2>2 DEF SiblingsDiffer
    <2>7. s \notin Chain(suite.parent)
      BY <1>1, <2>1, <2>2 DEF SuitesAcyclic
    <2>8. \A t \in Suites : test_suites[t] # None => test_suites[t].parent \in Suites \cup {Root}
      BY <1>1, RowFacts DEF SuiteRecords
    <2>9. suite.parent # Root => suite.parent \in Chain(suite.parent)
      BY <2>4, <2>8, Chains DEF Chain
    <2>10. suite.parent # Root => test_suites[suite.parent].project = suite.project
      BY <1>1, <2>1, <2>2 DEF SuiteRefs
    <2> QED
      BY <2>1, <2>4, <2>5, <2>6, <2>7, <2>9, <2>10, SuiteIsWritten
  <1>5. ASSUME NEW s \in Suites, DeleteSuite(s) PROVE RecordsInv'
    <2>1. /\ test_suites' = [test_suites EXCEPT ![s] = None] /\ UNCHANGED otherThanSuites
          /\ Audit(s, "absent")
          /\ \A t \in Suites : test_suites[t] # None => test_suites[t].parent # s
          /\ \A c \in Cases : test_cases[c] # None => test_cases[c].suite # s
      BY <1>5 DEF DeleteSuite, otherThanSuites
    <2>2. /\ test_suites'[s] = None /\ \A t \in Suites \ {s} : test_suites'[t] = test_suites[t]
          /\ test_suites' \in [Suites -> SuiteRecords \cup {None}] /\ None.status = "absent"
          /\ DOMAIN test_suites = Suites /\ DOMAIN test_suites' = Suites
      BY <1>1, <2>1 DEF TestRows, None
    <2>3. AuditRows' /\ HalfDoneIsContained'
      BY <2>1, <2>2, SuiteAudited
    <2>4. SuitesAcyclic'
      BY <1>1, <2>1, DeleteKeepsTree
    <2>5. projects' = projects /\ test_cases' = test_cases
      BY <2>1 DEF otherThanSuites
    <2>6. SuiteRefs'
      <3>1. \A t \in Suites : test_suites[t] # None => test_suites[t].parent \in Suites \cup {Root}
        BY <1>1, RowFacts DEF SuiteRecords
      <3> QED
        BY <1>1, <2>1, <2>2, <2>5, <3>1 DEF SuiteRefs, Known
    <2>7. CaseRefs'
      <3>1. \A c \in Cases : test_cases[c] # None => test_cases[c].suite \in Suites \cup {Root}
        BY <1>1, RowFacts DEF CaseRecords
      <3> QED
        BY <1>1, <2>1, <2>2, <2>5, <3>1 DEF CaseRefs, Known
    <2>8. SiblingsDiffer'
      <3>1. ASSUME NEW t \in Suites, test_suites'[t] # None, NEW u \in Suites \ {t},
                   test_suites'[u].project = test_suites'[t].project,
                   test_suites'[u].parent = test_suites'[t].parent
            PROVE  test_suites'[u].name # test_suites'[t].name
        <4>1. t # s /\ test_suites'[t] = test_suites[t] /\ test_suites[t].project \in Projects
          BY <1>1, <2>2, <3>1, RowFacts, RecordsAreSome
        <4>2. u # s /\ test_suites'[u] = test_suites[u]
          BY <2>2, <3>1, <4>1, TestManagementAssumption DEF None
        <4> QED
          BY <1>1, <2>2, <3>1, <4>1, <4>2 DEF SiblingsDiffer, UniqueName, Of
      <3> QED
        BY <2>2, <3>1 DEF SiblingsDiffer, UniqueName, Of
    <2> QED
      BY <2>1, <2>2, <2>3, <2>4, <2>6, <2>7, <2>8, SuiteWrites
  <1> QED
    BY <1>2, <1>3, <1>4, <1>5 DEF SuiteStep

-----------------------------------------------------------------------------
(* Operations on cases and plans.                                          *)

otherThanCases == <<projects, test_suites, test_plans, executions, defects, snapshots, audited, faults>>

\* What no operation on cases touches.
LEMMA CaseWrites ==
  ASSUME RecordsInv, test_cases' \in [Cases -> CaseRecords \cup {None}], UNCHANGED otherThanCases,
         CaseRefs', PlanRefs', DefectRefs', ActiveCasesHaveSteps'
  PROVE  RecordsInv'
  <1> USE DEF otherThanCases
  <1>1. TestRows' /\ SnapshotRows' /\ AuditRows'
    BY DEF RecordsInv, TestRows, SnapshotRows, AuditRows
  <1>2. SuiteRefs' /\ ExecutionRefs' /\ SnapshotRefs'
    BY DEF RecordsInv, SuiteRefs, ExecutionRefs, SnapshotRefs, Known
  <1>3. SuitesAcyclic' /\ SiblingsDiffer' /\ PlansRunOnce' /\ DefectFieldsAgree' /\ VersionsCount'
    BY DEF RecordsInv, SuitesAcyclic, Chain, SiblingsDiffer, UniqueName, Of, PlansRunOnce,
       DefectFieldsAgree, VersionsCount
  <1>4. PlansAtRest' /\ ExecutionsAtRest' /\ DefectsAtRest'
    BY DEF RecordsInv, PlansAtRest, ExecutionsAtRest, DefectsAtRest
  <1>5. HalfDoneIsContained'
    BY DEF RecordsInv, HalfDoneIsContained, PlanAgrees, ExecutionsOf
  <1> QED
    BY <1>1, <1>2, <1>3, <1>4, <1>5 DEF RecordsInv

\* A case that is created, edited or moved to another status.
LEMMA CaseIsWritten ==
  ASSUME RecordsInv, NEW c \in Cases, NEW row \in CaseRecords,
         test_cases' = [test_cases EXCEPT ![c] = row], UNCHANGED otherThanCases,
         test_cases[c] = None \/ test_cases[c].project = row.project,
         Known(row.project),
         row.suite # Root => test_suites[row.suite].project = row.project,
         row.status = "active" => row.steps
  PROVE  RecordsInv'
  <1>1. TestRows /\ CaseRefs /\ PlanRefs /\ DefectRefs /\ ActiveCasesHaveSteps
    BY DEF RecordsInv
  <1>2. /\ test_cases'[c] = row /\ \A i \in Cases \ {c} : test_cases'[i] = test_cases[i]
        /\ test_cases' \in [Cases -> CaseRecords \cup {None}]
    BY <1>1 DEF TestRows
  <1>3. row.project \in Projects /\ None.project \notin Projects
    BY RecordsAreSome, TestManagementAssumption DEF None
  <1>4. \A i \in Cases : test_cases[i].project \in Projects => test_cases'[i].project = test_cases[i].project
    BY <1>2, <1>3
  <1>5. CaseRefs'
    BY <1>1, <1>2 DEF CaseRefs, Known, otherThanCases
  <1>6. PlanRefs'
    <2>1. \A l \in Plans : test_plans[l] # None =>
            test_plans[l].cases \subseteq Cases /\ test_plans[l].project \in Projects
      BY <1>1, RowFacts DEF PlanRecords
    <2> QED
      BY <1>1, <1>4, <2>1 DEF PlanRefs, Known, otherThanCases
  <1>7. DefectRefs'
    <2>1. \A d \in Defects : defects[d] # None =>
            defects[d].case \in Cases \cup {Nothing} /\ defects[d].project \in Projects
      BY <1>1, RowFacts DEF DefectRecords
    <2> QED
      BY <1>1, <1>4, <2>1 DEF DefectRefs, Known, otherThanCases
  <1>8. ActiveCasesHaveSteps'
    BY <1>1, <1>2 DEF ActiveCasesHaveSteps
  <1> QED
    BY <1>2, <1>5, <1>6, <1>7, <1>8, CaseWrites

\* The chain of a suite that accepts cases begins with the suite.
LEMMA AcceptingSuite ==
  ASSUME RecordsInv, NEW p, NEW suite \in Suites \cup {Root}, AcceptsCases(p, suite), suite # Root
  PROVE  test_suites[suite].project = p
  <1>1. \A t \in Suites : test_suites[t] # None => test_suites[t].parent \in Suites \cup {Root}
    BY RowFacts DEF SuiteRecords, RecordsInv
  <1>2. suite \in Chain(suite)
    BY <1>1, Chains DEF Chain
  <1> QED
    BY <1>2 DEF AcceptsCases, ActiveIn

LEMMA CreateCaseInv ==
  ASSUME RecordsInv, NEW c \in Cases, NEW p \in Projects, NEW suite \in Suites \cup {Root},
         NEW steps \in BOOLEAN, CreateCase(c, p, suite, steps)
  PROVE  RecordsInv'
  <1>1. PICK row : row = [project |-> p, suite |-> suite, status |-> "draft", steps |-> steps]
    OBVIOUS
  <1>2. row \in CaseRecords /\ row.project = p /\ row.suite = suite /\ row.status = "draft"
    BY <1>1 DEF CaseRecords
  <1>3. /\ test_cases' = [test_cases EXCEPT ![c] = row] /\ UNCHANGED otherThanCases
        /\ test_cases[c] = None /\ Known(p) /\ AcceptsCases(p, suite)
    BY <1>1 DEF CreateCase, otherThanCases, Active, Known
  <1>4. suite # Root => test_suites[suite].project = p
    BY <1>3, AcceptingSuite
  <1> QED
    BY <1>2, <1>3, <1>4, CaseIsWritten

LEMMA CaseStepInv ==
  ASSUME RecordsInv, CaseStep
  PROVE  RecordsInv'
  <1>1. TestRows /\ CaseRefs /\ PlanRefs /\ DefectRefs /\ ActiveCasesHaveSteps
    BY DEF RecordsInv
  <1>2. ASSUME NEW c \in Cases, NEW suite \in Suites \cup {Root}, NEW steps \in BOOLEAN,
               UpdateCase(c, suite, steps)
        PROVE  RecordsInv'
    <2>1. PICK case : case = test_cases[c]
      OBVIOUS
    <2>2. case # None /\ case \in CaseRecords /\ case.project \in Projects
      BY <1>1, <1>2, <2>1, RowFacts, RecordsAreSome DEF UpdateCase
    <2>3. PICK row : row = [case EXCEPT !.suite = suite, !.steps = steps]
      OBVIOUS
    <2>4. /\ row \in CaseRecords /\ row.project = case.project /\ row.suite = suite
          /\ row.status = case.status /\ row.steps = steps
      BY <2>2, <2>3 DEF CaseRecords
    <2>5. /\ test_cases' = [test_cases EXCEPT ![c] = row] /\ UNCHANGED otherThanCases
          /\ suite # case.suite => AcceptsCases(case.project, suite)
          /\ case.status = "active" => steps
      BY <1>1, <1>2, <2>1, <2>3 DEF UpdateCase, otherThanCases, TestRows
    <2>6. Known(case.project) /\ (case.suite # Root => test_suites[case.suite].project = case.project)
      BY <1>1, <2>1, <2>2 DEF CaseRefs
    <2>7. suite # Root => test_suites[suite].project = case.project
      BY <2>2, <2>5, <2>6, AcceptingSuite
    <2> QED
      BY <2>1, <2>4, <2>5, <2>6, <2>7, CaseIsWritten
  <1>3. ASSUME NEW c \in Cases, NEW target \in {"active", "disabled"}, TransitionCase(c, target)
        PROVE  RecordsInv'
    <2>1. PICK case : case = test_cases[c]
      OBVIOUS
    <2>2. case # None /\ case \in CaseRecords /\ case.project \in Projects
      <3>1. case.status # "absent"
        BY <1>3, <2>1 DEF TransitionCase, CaseTransitions
      <3> QED
        BY <1>1, <2>1, <3>1, RowFacts, RecordsAreSome
    <2>3. PICK row : row = [case EXCEPT !.status = target]
      OBVIOUS
    <2>4. /\ row \in CaseRecords /\ row.project = case.project /\ row.suite = case.suite
          /\ row.status = target /\ row.steps = case.steps
      BY <2>2, <2>3 DEF CaseRecords
    <2>5. /\ test_cases' = [test_cases EXCEPT ![c] = row] /\ UNCHANGED otherThanCases
          /\ target = "active" => case.steps
      BY <1>1, <1>3, <2>1, <2>3 DEF TransitionCase, otherThanCases, TestRows
    <2>6. Known(case.project) /\ (case.suite # Root => test_suites[case.suite].project = case.project)
      BY <1>1, <2>1, <2>2 DEF CaseRefs
    <2> QED
      BY <2>1, <2>4, <2>5, <2>6, CaseIsWritten
  <1>4. ASSUME NEW c \in Cases, DeleteCase(c) PROVE RecordsInv'
    <2>1. /\ test_cases' = [test_cases EXCEPT ![c] = None] /\ UNCHANGED otherThanCases
          /\ \A l \in Plans : test_plans[l] # None => c \notin test_plans[l].cases
          /\ \A d \in Defects : defects[d] # None => defects[d].case # c
      BY <1>4 DEF DeleteCase, Planned, otherThanCases
    <2>2. /\ test_cases'[c] = None /\ \A i \in Cases \ {c} : test_cases'[i] = test_cases[i]
          /\ test_cases' \in [Cases -> CaseRecords \cup {None}] /\ None.status = "absent"
      BY <1>1, <2>1 DEF TestRows, None
    <2>3. CaseRefs'
      BY <1>1, <2>1, <2>2 DEF CaseRefs, Known, otherThanCases
    <2>4. PlanRefs'
      <3>1. \A l \in Plans : test_plans[l] # None => test_plans[l].cases \subseteq Cases
        BY <1>1, RowFacts DEF PlanRecords
      <3> QED
        BY <1>1, <2>1, <2>2, <3>1 DEF PlanRefs, Known, otherThanCases
    <2>5. DefectRefs'
      <3>1. \A d \in Defects : defects[d] # None => defects[d].case \in Cases \cup {Nothing}
        BY <1>1, RowFacts DEF DefectRecords
      <3> QED
        BY <1>1, <2>1, <2>2, <3>1 DEF DefectRefs, Known, otherThanCases
    <2>6. ActiveCasesHaveSteps'
      BY <1>1, <2>2 DEF ActiveCasesHaveSteps
    <2> QED
      BY <2>1, <2>2, <2>3, <2>4, <2>5, <2>6, CaseWrites
  <1> QED
    BY <1>2, <1>3, <1>4, CreateCaseInv DEF CaseStep

otherThanPlans == <<projects, test_suites, test_cases, executions, defects, snapshots, audited, faults>>

\* A plan without executions, with its new row or deleted.
LEMMA UnexecutedPlanIsWritten ==
  ASSUME RecordsInv, NEW l \in Plans, NEW row \in PlanRecords \cup {None}, ExecutionsOf(l) = {},
         test_plans' = [test_plans EXCEPT ![l] = row], UNCHANGED otherThanPlans,
         row # None => /\ row.status \in {"draft", "ready"} /\ Active(row.project)
                       /\ \A c \in row.cases : test_cases[c].project = row.project
  PROVE  RecordsInv'
  <1>1. /\ TestRows /\ PlanRefs /\ ExecutionRefs /\ PlansRunOnce /\ PlansAtRest
        /\ HalfDoneIsContained /\ AuditRows
    BY DEF RecordsInv
  <1>2. /\ test_plans'[l] = row /\ \A i \in Plans \ {l} : test_plans'[i] = test_plans[i]
        /\ test_plans' \in [Plans -> PlanRecords \cup {None}]
    BY <1>1 DEF TestRows
  <1>3. \A x \in Executions : executions[x] # None => executions[x].plan \in Plans \ {l}
    <2>1. \A r \in ExecutionRecords : r.plan \in Plans
      BY DEF ExecutionRecords
    <2> QED
      BY <1>1, <2>1, RowFacts DEF ExecutionsOf
  <1>4. TestRows' /\ SnapshotRows' /\ AuditRows'
    BY <1>2 DEF RecordsInv, TestRows, SnapshotRows, AuditRows, otherThanPlans
  <1>5. SuiteRefs' /\ CaseRefs' /\ DefectRefs' /\ SnapshotRefs'
    BY DEF RecordsInv, SuiteRefs, CaseRefs, DefectRefs, SnapshotRefs, Known, otherThanPlans
  <1>6. /\ SuitesAcyclic' /\ SiblingsDiffer' /\ ActiveCasesHaveSteps' /\ DefectFieldsAgree'
        /\ VersionsCount' /\ ExecutionsAtRest' /\ DefectsAtRest'
    BY DEF RecordsInv, SuitesAcyclic, Chain, SiblingsDiffer, UniqueName, Of, ActiveCasesHaveSteps,
       DefectFieldsAgree, VersionsCount, ExecutionsAtRest, DefectsAtRest, otherThanPlans
  <1>7. PlanRefs'
    BY <1>1, <1>2 DEF PlanRefs, Known, Active, otherThanPlans
  <1>8. ExecutionRefs'
    BY <1>1, <1>2, <1>3 DEF ExecutionRefs, otherThanPlans
  <1>9. PlansRunOnce'
    BY <1>1, <1>2, <1>3 DEF PlansRunOnce, otherThanPlans
  <1>10. PlansAtRest'
    BY <1>1, <1>2 DEF PlansAtRest, Active, otherThanPlans
  <1>11. LatePlans' \subseteq LatePlans
    <2>1. \A i \in Plans : ExecutionsOf(i)' = ExecutionsOf(i)
      BY DEF ExecutionsOf, otherThanPlans
    <2>2. ASSUME NEW i \in Plans \ {l} PROVE PlanAgrees(i)' <=> PlanAgrees(i)
      BY <1>2, <2>1 DEF PlanAgrees, otherThanPlans
    <2>3. PlanAgrees(l)'
      <3>1. ExecutionsOf(l)' = {} /\ Cardinality({}) <= 1
        BY <2>1, FS_EmptySet
      <3>2. test_plans'[l].status \in {"draft", "ready", "absent"}
        BY <1>2 DEF None
      <3> QED
        BY <3>1, <3>2 DEF PlanAgrees
    <2> QED
      BY <2>2, <2>3 DEF LatePlans
  <1>12. HalfDoneIsContained'
    <2>1. LateSuites' = LateSuites /\ LateDefects' = LateDefects /\ faults' = faults
      BY DEF LateSuites, LateDefects, otherThanPlans
    <2> QED
      BY <1>1, <1>11, <2>1, NoneLate
  <1> QED
    BY <1>4, <1>5, <1>6, <1>7, <1>8, <1>9, <1>10, <1>12 DEF RecordsInv

LEMMA PlanStepInv ==
  ASSUME RecordsInv, PlanStep
  PROVE  RecordsInv'
  <1>1. TestRows /\ PlanRefs /\ ExecutionRefs /\ PlansRunOnce /\ PlansAtRest
    BY DEF RecordsInv
  <1>2. ASSUME NEW l \in Plans, test_plans[l].status = "draft"
        PROVE  ExecutionsOf(l) = {}
    BY <1>1, <1>2 DEF PlansRunOnce, ExecutionsOf
  <1>3. ASSUME NEW l \in Plans, test_plans[l].status \in {"draft", "ready"}
        PROVE  /\ test_plans[l] \in PlanRecords /\ test_plans[l] # None
               /\ Active(test_plans[l].project)
               /\ \A c \in test_plans[l].cases : test_cases[c].project = test_plans[l].project
    <2>1. test_plans[l] \in PlanRecords /\ test_plans[l] # None /\ test_plans[l].project \in Projects
      BY <1>1, <1>3, RowFacts, RecordsAreSome
    <2>2. projects[test_plans[l].project] \in {"absent", "active", "archived"}
      BY <1>1, <2>1 DEF TestRows
    <2>3. projects[test_plans[l].project] \notin {"absent", "archived"}
      BY <1>1, <1>3, <2>1 DEF PlanRefs, Known, PlansAtRest
    <2> QED
      BY <1>1, <2>1, <2>2, <2>3 DEF Active, PlanRefs
  <1>4. ASSUME NEW l \in Plans, NEW p \in Projects, NEW cs \in SUBSET Cases, CreatePlan(l, p, cs)
        PROVE  RecordsInv'
    <2>1. PICK row : row = [project |-> p, status |-> "draft", cases |-> cs]
      OBVIOUS
    <2>2. row \in PlanRecords /\ row.project = p /\ row.status = "draft" /\ row.cases = cs
      BY <2>1 DEF PlanRecords
    <2>3. /\ test_plans' = [test_plans EXCEPT ![l] = row] /\ UNCHANGED otherThanPlans
          /\ test_plans[l] = None /\ Active(p) /\ cs \subseteq Of(test_cases, p)
      BY <1>4, <2>1 DEF CreatePlan, otherThanPlans
    <2>4. \A c \in cs : test_cases[c].project = p
      BY <2>3 DEF Of
    <2>5. ExecutionsOf(l) = {}
      <3>1. None.project \notin Projects
        BY TestManagementAssumption DEF None
      <3>2. \A x \in Executions : executions[x] # None => executions[x].project \in Projects
        BY <1>1, RowFacts, RecordsAreSome
      <3> QED
        BY <1>1, <2>3, <3>1, <3>2 DEF ExecutionRefs, ExecutionsOf
    <2> QED
      BY <2>2, <2>3, <2>4, <2>5, UnexecutedPlanIsWritten
  <1>5. ASSUME NEW l \in Plans, NEW cs \in SUBSET Cases, UpdatePlan(l, cs)
        PROVE  RecordsInv'
    <2>1. PICK plan : plan = test_plans[l]
      OBVIOUS
    <2>2. plan.status = "draft" /\ plan \in PlanRecords /\ Active(plan.project) /\ ExecutionsOf(l) = {}
      BY <1>2, <1>3, <1>5, <2>1 DEF UpdatePlan, Editable
    <2>3. PICK row : row = [plan EXCEPT !.cases = cs]
      OBVIOUS
    <2>4. row \in PlanRecords /\ row.project = plan.project /\ row.status = "draft" /\ row.cases = cs
      BY <2>2, <2>3 DEF PlanRecords
    <2>5. test_plans' = [test_plans EXCEPT ![l] = row] /\ UNCHANGED otherThanPlans
      BY <1>1, <1>5, <2>1, <2>3 DEF UpdatePlan, otherThanPlans, TestRows
    <2>6. \A c \in cs : test_cases[c].project = plan.project
      BY <1>5, <2>1 DEF UpdatePlan, Of
    <2> QED
      BY <2>2, <2>4, <2>5, <2>6, UnexecutedPlanIsWritten
  <1>6. ASSUME NEW l \in Plans, NEW status \in {"draft", "ready"}, ExecutionsOf(l) = {},
               test_plans[l].status \in {"draft", "ready"},
               test_plans' = [test_plans EXCEPT ![l].status = status], UNCHANGED otherThanPlans
        PROVE  RecordsInv'
    <2>1. PICK plan : plan = test_plans[l]
      OBVIOUS
    <2>2. /\ plan \in PlanRecords /\ Active(plan.project)
          /\ \A c \in plan.cases : test_cases[c].project = plan.project
      BY <1>3, <1>6, <2>1
    <2>3. PICK row : row = [plan EXCEPT !.status = status]
      OBVIOUS
    <2>4. /\ row \in PlanRecords /\ row.project = plan.project /\ row.status = status
          /\ row.cases = plan.cases
      BY <2>2, <2>3 DEF PlanRecords
    <2>5. test_plans' = [test_plans EXCEPT ![l] = row]
      BY <1>1, <1>6, <2>1, <2>3 DEF TestRows
    <2> QED
      BY <1>6, <2>2, <2>4, <2>5, UnexecutedPlanIsWritten
  <1>7. ASSUME NEW l \in Plans, PlanBecomesReady(l) PROVE RecordsInv'
    <2>1. /\ test_plans[l].status = "draft" /\ UNCHANGED otherThanPlans
          /\ test_plans' = [test_plans EXCEPT ![l].status = "ready"]
      BY <1>7 DEF PlanBecomesReady, otherThanPlans
    <2>2. ExecutionsOf(l) = {}
      BY <1>2, <2>1
    <2> QED
      BY <1>6, <2>1, <2>2
  <1>8. ASSUME NEW l \in Plans, PlanBecomesDraft(l) PROVE RecordsInv'
    BY <1>6, <1>8 DEF PlanBecomesDraft, otherThanPlans
  <1>9. ASSUME NEW l \in Plans, DeletePlan(l) PROVE RecordsInv'
    <2>1. /\ ExecutionsOf(l) = {} /\ test_plans' = [test_plans EXCEPT ![l] = None]
          /\ UNCHANGED otherThanPlans
      BY <1>9 DEF DeletePlan, otherThanPlans
    <2> QED
      BY <2>1, UnexecutedPlanIsWritten
  <1> QED
    BY <1>4, <1>5, <1>7, <1>8, <1>9 DEF PlanStep

-----------------------------------------------------------------------------
(* Operations on executions.                                               *)

otherThanExecutions == <<projects, test_suites, test_cases, defects, snapshots, audited>>

\* What no operation on executions touches.
LEMMA ExecutionWrites ==
  ASSUME RecordsInv, UNCHANGED otherThanExecutions,
         test_plans' \in [Plans -> PlanRecords \cup {None}],
         executions' \in [Executions -> ExecutionRecords \cup {None}],
         PlanRefs', ExecutionRefs', DefectRefs', PlansRunOnce', PlansAtRest', ExecutionsAtRest',
         AuditRows', HalfDoneIsContained'
  PROVE  RecordsInv'
  <1> USE DEF otherThanExecutions
  <1>1. TestRows' /\ SnapshotRows'
    BY DEF RecordsInv, TestRows, SnapshotRows
  <1>2. SuiteRefs' /\ CaseRefs' /\ SnapshotRefs'
    BY DEF RecordsInv, SuiteRefs, CaseRefs, SnapshotRefs, Known
  <1>3. /\ SuitesAcyclic' /\ SiblingsDiffer' /\ ActiveCasesHaveSteps' /\ DefectFieldsAgree'
        /\ VersionsCount' /\ DefectsAtRest'
    BY DEF RecordsInv, SuitesAcyclic, Chain, SiblingsDiffer, UniqueName, Of, ActiveCasesHaveSteps,
       DefectFieldsAgree, VersionsCount, DefectsAtRest
  <1> QED
    BY <1>1, <1>2, <1>3 DEF RecordsInv

\* A new execution of a plan that is ready, or one that stays in its status.
LEMMA ExecutionIsWritten ==
  ASSUME RecordsInv, NEW x \in Executions, NEW row \in ExecutionRecords,
         executions' = [executions EXCEPT ![x] = row],
         UNCHANGED <<test_plans, faults>>, UNCHANGED otherThanExecutions,
         \/ /\ executions[x] = None /\ ExecutionsOf(row.plan) = {} /\ row.status = "created"
            /\ test_plans[row.plan].status = "ready"
         \/ /\ executions[x] # None /\ row.plan = executions[x].plan
            /\ row.project = executions[x].project /\ row.status = executions[x].status,
         test_plans[row.plan].project = row.project, test_plans[row.plan].status # "draft",
         DOMAIN row.results = test_plans[row.plan].cases,
         projects[row.project] = "archived" => row.status \in {"completed", "cancelled"}
  PROVE  RecordsInv'
  <1>1. /\ TestRows /\ PlanRefs /\ ExecutionRefs /\ DefectRefs /\ PlansRunOnce /\ PlansAtRest
        /\ ExecutionsAtRest /\ HalfDoneIsContained /\ AuditRows
    BY DEF RecordsInv
  <1>2. /\ executions'[x] = row /\ \A i \in Executions \ {x} : executions'[i] = executions[i]
        /\ executions' \in [Executions -> ExecutionRecords \cup {None}]
    BY <1>1 DEF TestRows
  <1>3. /\ row # None /\ row.plan \in Plans /\ row.project \in Projects
        /\ row.status \in {"created", "running", "completed", "cancelled"}
    BY RecordsAreSome DEF ExecutionRecords
  <1>4. test_plans' = test_plans /\ projects' = projects /\ defects' = defects /\ faults' = faults
    BY DEF otherThanExecutions
  <1>5. PlanRefs' /\ PlansAtRest'
    BY <1>1 DEF PlanRefs, Known, PlansAtRest, otherThanExecutions
  <1>6. ExecutionRefs'
    BY <1>1, <1>2, <1>3, <1>4 DEF ExecutionRefs
  <1>7. DefectRefs'
    <2>1. \A d \in Defects : defects[d] # None =>
            defects[d].execution \in Executions \cup {Nothing} /\ defects[d].project \in Projects
      BY <1>1, RowFacts DEF DefectRecords
    <2>2. None.project \notin Projects
      BY TestManagementAssumption DEF None
    <2>3. \A i \in Executions : executions[i].project \in Projects => executions'[i].project = executions[i].project
      BY <1>2, <2>2
    <2>4. test_cases' = test_cases
      BY DEF otherThanExecutions
    <2> QED
      BY <1>1, <1>4, <2>1, <2>3, <2>4 DEF DefectRefs, Known
  <1>8. \A i \in Executions \ {x} : executions[i] # None => executions[i].plan # row.plan
    BY <1>1 DEF PlansRunOnce, ExecutionsOf
  <1>9. PlansRunOnce'
    BY <1>1, <1>2, <1>3, <1>4, <1>8 DEF PlansRunOnce
  <1>10. ExecutionsAtRest'
    BY <1>1, <1>2, <1>3, <1>4 DEF ExecutionsAtRest
  <1>11. LatePlans' \subseteq LatePlans
    <2>1. ASSUME NEW l \in Plans, l # row.plan \/ executions[x] # None PROVE PlanAgrees(l)' <=> PlanAgrees(l)
      <3>1. \A i \in Executions : (executions'[i] # None /\ executions'[i].plan = l) <=>
                                  (executions[i] # None /\ executions[i].plan = l)
        BY <1>2, <1>3, <2>1
      <3>2. \A i \in ExecutionsOf(l) : executions'[i].status = executions[i].status
        BY <1>2, <2>1 DEF ExecutionsOf
      <3> QED
        BY <1>4, <3>1, <3>2, PlanStaysAsLate
    <2>2. ASSUME executions[x] = None PROVE PlanAgrees(row.plan)'
      <3>1. ExecutionsOf(row.plan)' = {x}
        BY <1>2, <1>3, <1>8 DEF ExecutionsOf
      <3>2. Cardinality({x}) <= 1
        BY FS_Singleton
      <3>3. executions'[x].status = "created" /\ test_plans'[row.plan].status = "ready"
        BY <1>2, <1>4, <2>2
      <3> QED
        BY <3>1, <3>2, <3>3 DEF PlanAgrees
    <2> QED
      BY <2>1, <2>2 DEF LatePlans
  <1>12. HalfDoneIsContained' /\ AuditRows'
    <2>1. LateSuites' = LateSuites /\ LateDefects' = LateDefects /\ audited' = audited
      BY DEF LateSuites, LateDefects, otherThanExecutions
    <2> QED
      BY <1>1, <1>4, <1>11, <2>1, NoneLate, AuditStays
  <1>13. test_plans' \in [Plans -> PlanRecords \cup {None}]
    BY <1>1, <1>4 DEF TestRows
  <1> QED
    BY <1>2, <1>5, <1>6, <1>7, <1>9, <1>10, <1>12, <1>13, ExecutionWrites

LEMMA CreateExecutionInv ==
  ASSUME RecordsInv, NEW x \in Executions, NEW l \in Plans, CreateExecution(x, l)
  PROVE  RecordsInv'
  <1>1. TestRows
    BY DEF RecordsInv
  <1>2. PICK plan : plan = test_plans[l]
    OBVIOUS
  <1>3. plan \in PlanRecords /\ plan.project \in Projects /\ plan.cases \in SUBSET Cases
    BY <1>1, <1>2, RowFacts, RecordsAreSome DEF CreateExecution, PlanRecords
  <1>4. PICK results : results = [c \in plan.cases |-> "not_run"]
    OBVIOUS
  <1>5. DOMAIN results = plan.cases /\ results \in [plan.cases -> {"not_run", "passed", "failed"}]
    BY <1>4
  <1>6. PICK row : row = [plan |-> l, project |-> plan.project, status |-> "created", results |-> results]
    OBVIOUS
  <1>7. results \in UNION {[cs -> {"not_run", "passed", "failed"}] : cs \in SUBSET Cases}
    BY <1>3, <1>5
  <1>8. /\ row \in ExecutionRecords /\ row.plan = l /\ row.project = plan.project
        /\ row.status = "created" /\ row.results = results
    BY <1>3, <1>6, <1>7 DEF ExecutionRecords
  <1>9. /\ executions' = [executions EXCEPT ![x] = row]
        /\ UNCHANGED <<test_plans, faults>> /\ UNCHANGED otherThanExecutions
        /\ executions[x] = None /\ ExecutionsOf(l) = {} /\ plan.status = "ready"
        /\ projects[plan.project] = "active"
    BY <1>2, <1>4, <1>6 DEF CreateExecution, otherThanExecutions, Active
  <1> QED
    BY <1>2, <1>5, <1>8, <1>9, ExecutionIsWritten

LEMMA UpdateCaseResultInv ==
  ASSUME RecordsInv, NEW x \in Executions, NEW c \in Cases, NEW status \in {"passed", "failed"},
         UpdateCaseResult(x, c, status)
  PROVE  RecordsInv'
  <1>1. TestRows /\ ExecutionRefs /\ PlansRunOnce /\ ExecutionsAtRest
    BY DEF RecordsInv
  <1>2. PICK execution : execution = executions[x]
    OBVIOUS
  <1>3. execution \in ExecutionRecords /\ execution # None /\ execution.status = "running"
    BY <1>1, <1>2, RowFacts, RecordsAreSome DEF UpdateCaseResult
  <1>4. PICK cs \in SUBSET Cases : execution.results \in [cs -> {"not_run", "passed", "failed"}]
    BY <1>3 DEF ExecutionRecords
  <1>5. PICK results : results = [execution.results EXCEPT ![c] = status]
    OBVIOUS
  <1>6. results \in [cs -> {"not_run", "passed", "failed"}] /\ DOMAIN results = DOMAIN execution.results
    BY <1>4, <1>5
  <1>7. PICK row : row = [execution EXCEPT !.results = results]
    OBVIOUS
  <1>8. results \in UNION {[i -> {"not_run", "passed", "failed"}] : i \in SUBSET Cases}
    BY <1>4, <1>6
  <1>9. /\ row \in ExecutionRecords /\ row.plan = execution.plan /\ row.project = execution.project
        /\ row.status = "running" /\ row.results = results
    BY <1>3, <1>7, <1>8 DEF ExecutionRecords
  <1>10. /\ executions' = [executions EXCEPT ![x] = row]
         /\ UNCHANGED <<test_plans, faults>> /\ UNCHANGED otherThanExecutions
    BY <1>1, <1>2, <1>5, <1>7 DEF UpdateCaseResult, otherThanExecutions, TestRows
  <1>11. /\ test_plans[execution.plan].project = execution.project
         /\ DOMAIN execution.results = test_plans[execution.plan].cases
         /\ test_plans[execution.plan].status # "draft"
         /\ projects[execution.project] # "archived"
    BY <1>1, <1>2, <1>3 DEF ExecutionRefs, PlansRunOnce, ExecutionsAtRest
  <1> QED
    BY <1>2, <1>3, <1>6, <1>9, <1>10, <1>11, ExecutionIsWritten

LEMMA DeleteExecutionInv ==
  ASSUME RecordsInv, NEW x \in Executions, DeleteExecution(x)
  PROVE  RecordsInv'
  <1>1. /\ TestRows /\ PlanRefs /\ ExecutionRefs /\ DefectRefs /\ PlansRunOnce /\ PlansAtRest
        /\ ExecutionsAtRest /\ HalfDoneIsContained /\ AuditRows
    BY DEF RecordsInv
  <1>2. /\ executions[x].status = "created" /\ executions[x] # None
        /\ \A d \in Defects : defects[d] # None => defects[d].execution # x
        /\ executions' = [executions EXCEPT ![x] = None]
        /\ test_plans' = test_plans /\ faults' = faults /\ UNCHANGED otherThanExecutions
    BY DEF DeleteExecution, otherThanExecutions, None
  <1>3. /\ executions'[x] = None /\ \A i \in Executions \ {x} : executions'[i] = executions[i]
        /\ executions' \in [Executions -> ExecutionRecords \cup {None}]
        /\ test_plans' \in [Plans -> PlanRecords \cup {None}]
    BY <1>1, <1>2 DEF TestRows
  <1>4. PlanRefs' /\ PlansAtRest'
    BY <1>1, <1>2 DEF PlanRefs, Known, PlansAtRest, otherThanExecutions
  <1>5. ExecutionRefs' /\ PlansRunOnce'
    BY <1>1, <1>2, <1>3 DEF ExecutionRefs, PlansRunOnce
  <1>6. DefectRefs'
    <2>1. \A d \in Defects : defects[d] # None => defects[d].execution \in Executions \cup {Nothing}
      BY <1>1, RowFacts DEF DefectRecords
    <2> QED
      BY <1>1, <1>2, <1>3, <2>1 DEF DefectRefs, Known, otherThanExecutions
  <1>7. ExecutionsAtRest'
    BY <1>1, <1>2, <1>3 DEF ExecutionsAtRest, otherThanExecutions
  <1>8. LatePlans' \subseteq LatePlans
    <2>1. ASSUME NEW l \in Plans, PlanAgrees(l) PROVE PlanAgrees(l)'
      <3>1. CASE executions[x].plan # l
        <4>1. \A i \in Executions : (executions'[i] # None /\ executions'[i].plan = l) <=>
                                    (executions[i] # None /\ executions[i].plan = l)
          BY <1>2, <1>3, <3>1
        <4>2. \A i \in ExecutionsOf(l) : executions'[i].status = executions[i].status
          BY <1>3, <3>1 DEF ExecutionsOf
        <4> QED
          BY <1>2, <2>1, <4>1, <4>2, PlanStaysAsLate
      <3>2. CASE executions[x].plan = l
        <4>1. x \in ExecutionsOf(l)
          BY <1>2, <3>2 DEF ExecutionsOf
        <4>2. test_plans[l].status \in {"ready", "created"}
          BY <1>2, <2>1, <4>1 DEF PlanAgrees
        <4>3. ExecutionsOf(l)' = {}
          BY <1>1, <1>2, <1>3, <3>2 DEF ExecutionsOf, PlansRunOnce
        <4>4. Cardinality({}) <= 1
          BY FS_EmptySet
        <4> QED
          BY <1>2, <4>2, <4>3, <4>4 DEF PlanAgrees
      <3> QED
        BY <3>1, <3>2
    <2> QED
      BY <2>1 DEF LatePlans
  <1>9. HalfDoneIsContained' /\ AuditRows'
    <2>1. LateSuites' = LateSuites /\ LateDefects' = LateDefects /\ audited' = audited
      BY <1>2 DEF LateSuites, LateDefects, otherThanExecutions
    <2> QED
      BY <1>1, <1>2, <1>8, <2>1, NoneLate, AuditStays
  <1> QED
    BY <1>2, <1>3, <1>4, <1>5, <1>6, <1>7, <1>9, ExecutionWrites

\* The plan is written first, and the execution follows unless the operation
\* ends in between.
LEMMA TransitionExecutionInv ==
  ASSUME RecordsInv, NEW x \in Executions, NEW target \in {"running", "completed", "cancelled"},
         TransitionExecution(x, target)
  PROVE  RecordsInv'
  <1>1. /\ TestRows /\ PlanRefs /\ ExecutionRefs /\ DefectRefs /\ PlansRunOnce /\ PlansAtRest
        /\ ExecutionsAtRest /\ HalfDoneIsContained /\ AuditRows
    BY DEF RecordsInv
  <1>2. PICK execution : execution = executions[x]
    OBVIOUS
  <1>3. PICK l : l = execution.plan
    OBVIOUS
  <1>4. /\ execution.status \in {"created", "running"}
        /\ target = "running" => projects[execution.project] = "active"
    BY <1>2 DEF TransitionExecution, ExecutionMoves, Active
  <1>5. execution \in ExecutionRecords /\ execution # None /\ execution.project \in Projects /\ l \in Plans
    BY <1>1, <1>2, <1>3, <1>4, RowFacts, RecordsAreSome DEF ExecutionRecords
  <1>6. /\ test_plans' = [test_plans EXCEPT ![l].status = target]
        /\ \/ executions' = [executions EXCEPT ![x].status = target] /\ faults' = faults
           \/ Fault /\ executions' = executions
        /\ UNCHANGED otherThanExecutions
    BY <1>2, <1>3 DEF TransitionExecution, PlanFollows, otherThanExecutions
  <1>7. test_plans[l].project = execution.project /\ test_plans[l] \in PlanRecords /\ test_plans[l] # None
    <2>1. test_plans[l].project = execution.project
      BY <1>1, <1>2, <1>3, <1>5 DEF ExecutionRefs
    <2> QED
      BY <1>1, <1>5, <2>1, RowFacts, RecordsAreSome
  <1>8. PICK row : row = [test_plans[l] EXCEPT !.status = target]
    OBVIOUS
  <1>9. /\ row \in PlanRecords /\ row # None /\ row.project = execution.project /\ row.status = target
        /\ row.cases = test_plans[l].cases
    <2>1. /\ row \in PlanRecords /\ row.project = test_plans[l].project /\ row.status = target
          /\ row.cases = test_plans[l].cases
      BY <1>7, <1>8 DEF PlanRecords
    <2> QED
      BY <1>7, <2>1, RecordsAreSome
  <1>10. /\ test_plans'[l] = row /\ \A i \in Plans \ {l} : test_plans'[i] = test_plans[i]
         /\ test_plans' \in [Plans -> PlanRecords \cup {None}]
    BY <1>1, <1>5, <1>6, <1>8, <1>9 DEF TestRows
  <1>11. PICK next : next = [execution EXCEPT !.status = target]
    OBVIOUS
  <1>12. /\ next \in ExecutionRecords /\ next # None /\ next.project = execution.project /\ next.plan = l
         /\ next.status = target /\ next.results = execution.results
    <2>1. /\ next \in ExecutionRecords /\ next.project = execution.project /\ next.plan = l
          /\ next.status = target /\ next.results = execution.results
      BY <1>3, <1>5, <1>11 DEF ExecutionRecords
    <2> QED
      BY <2>1, RecordsAreSome
  <1>13. /\ \A i \in Executions \ {x} : executions'[i] = executions[i]
         /\ \/ executions'[x] = next /\ faults' = faults
            \/ executions'[x] = execution /\ Fault
         /\ executions' \in [Executions -> ExecutionRecords \cup {None}]
    BY <1>1, <1>2, <1>6, <1>11, <1>12 DEF TestRows
  <1>14. /\ executions'[x] # None /\ executions'[x].project = execution.project
         /\ executions'[x].plan = l /\ executions'[x].results = execution.results
    BY <1>3, <1>5, <1>12, <1>13
  <1>15. projects' = projects /\ defects' = defects /\ test_cases' = test_cases
    BY <1>6 DEF otherThanExecutions
  <1>16. PlanRefs'
    BY <1>1, <1>7, <1>9, <1>10, <1>15 DEF PlanRefs, Known
  <1>17. ExecutionRefs'
    <2>1. /\ test_plans'[l].project = execution.project
          /\ DOMAIN execution.results = test_plans'[l].cases
      BY <1>1, <1>2, <1>3, <1>5, <1>9, <1>10 DEF ExecutionRefs
    <2>2. ASSUME NEW i \in Executions \ {x}, executions[i] # None
          PROVE  executions[i].plan \in Plans \ {l}
      <3>1. executions[i].plan \in Plans
        BY <1>1, <2>2, RowFacts DEF ExecutionRecords
      <3> QED
        BY <1>1, <1>2, <1>3, <1>5, <2>2, <3>1 DEF PlansRunOnce
    <2> QED
      BY <1>1, <1>10, <1>13, <1>14, <2>1, <2>2 DEF ExecutionRefs
  <1>18. DefectRefs'
    <2>1. \A d \in Defects : defects[d] # None => defects[d].execution \in Executions \cup {Nothing}
      BY <1>1, RowFacts DEF DefectRecords
    <2>2. \A i \in Executions : executions'[i].project = executions[i].project
      BY <1>2, <1>13, <1>14
    <2> QED
      BY <1>1, <1>15, <2>1, <2>2 DEF DefectRefs, Known
  <1>19. PlansRunOnce'
    <2>1. \A i \in Executions : executions'[i] # None =>
            executions[i] # None /\ executions'[i].plan = executions[i].plan
      BY <1>2, <1>3, <1>5, <1>13, <1>14
    <2>2. \A i \in Executions : executions[i] # None => executions[i].plan \in Plans
      <3>1. \A r \in ExecutionRecords : r.plan \in Plans
        BY DEF ExecutionRecords
      <3> QED
        BY <1>1, <3>1, RowFacts
    <2> QED
      BY <1>1, <1>9, <1>10, <2>1, <2>2 DEF PlansRunOnce
  <1>20. PlansAtRest'
    BY <1>1, <1>4, <1>9, <1>10, <1>15 DEF PlansAtRest
  <1>21. ExecutionsAtRest'
    BY <1>1, <1>2, <1>4, <1>5, <1>12, <1>13, <1>14, <1>15 DEF ExecutionsAtRest
  <1>22. ASSUME NEW i \in Plans \ {l} PROVE PlanAgrees(i)' <=> PlanAgrees(i)
    <2>1. \A y \in Executions : (executions'[y] # None /\ executions'[y].plan = i) <=>
                                (executions[y] # None /\ executions[y].plan = i)
      BY <1>2, <1>3, <1>13, <1>14
    <2>2. \A y \in ExecutionsOf(i) : executions'[y].status = executions[y].status
      BY <1>2, <1>3, <1>13 DEF ExecutionsOf
    <2> QED
      BY <1>10, <2>1, <2>2, PlanStaysAsLate
  <1>23. LateSuites' = LateSuites /\ LateDefects' = LateDefects /\ audited' = audited
    BY <1>6 DEF LateSuites, LateDefects, otherThanExecutions
  <1>24. CASE executions'[x] = execution /\ Fault
    <2>1. LatePlans' \subseteq LatePlans \cup {l}
      BY <1>22 DEF LatePlans
    <2>2. HalfDoneIsContained' /\ AuditRows'
      BY <1>1, <1>23, <1>24, <2>1, OneLate, AuditStays
    <2> QED
      BY <1>6, <1>10, <1>13, <1>16, <1>17, <1>18, <1>19, <1>20, <1>21, <2>2, ExecutionWrites
  <1>25. CASE executions'[x] = next /\ faults' = faults
    <2>1. ExecutionsOf(l)' = {x}
      BY <1>14, <1>19 DEF ExecutionsOf, PlansRunOnce
    <2>2. Cardinality({x}) <= 1
      BY FS_Singleton
    <2>3. PlanAgrees(l)'
      BY <1>9, <1>10, <1>12, <1>25, <2>1, <2>2 DEF PlanAgrees
    <2>4. LatePlans' \subseteq LatePlans
      BY <1>22, <2>3 DEF LatePlans
    <2>5. HalfDoneIsContained' /\ AuditRows'
      BY <1>1, <1>23, <1>25, <2>4, NoneLate, AuditStays
    <2> QED
      BY <1>6, <1>10, <1>13, <1>16, <1>17, <1>18, <1>19, <1>20, <1>21, <2>5, ExecutionWrites
  <1> QED
    BY <1>13, <1>24, <1>25

LEMMA ExecutionStepInv ==
  ASSUME RecordsInv, ExecutionStep
  PROVE  RecordsInv'
  BY CreateExecutionInv, TransitionExecutionInv, UpdateCaseResultInv, DeleteExecutionInv
  DEF ExecutionStep

-----------------------------------------------------------------------------
(* Operations on defects and snapshots.                                    *)

otherThanDefects == <<projects, test_suites, test_cases, test_plans, executions, snapshots>>

\* What defect d says of itself.
DefectAgrees(defect) ==
  /\ defect.resolution <=> defect.status \in {"resolved", "verified", "closed"}
  /\ defect.closed_at <=> defect.status = "closed"
  /\ defect.status = "in_progress" => defect.assigned

\* A defect that is created, edited or moved to another status.
LEMMA DefectIsWritten ==
  ASSUME RecordsInv, NEW d \in Defects, NEW row \in DefectRecords,
         defects' = [defects EXCEPT ![d] = row], UNCHANGED otherThanDefects,
         Active(row.project) \/ (Known(row.project) /\ row.status = defects[d].status
                                   /\ row.project = defects[d].project /\ defects[d] # None),
         row.case # Nothing => test_cases[row.case].project = row.project,
         row.execution # Nothing => executions[row.execution].project = row.project,
         DefectAgrees(row),
         \/ Audit(d, row.status)
         \/ row.status = defects[d].status /\ UNCHANGED <<audited, faults>>
  PROVE  RecordsInv'
  <1>1. /\ TestRows /\ DefectRefs /\ DefectFieldsAgree /\ DefectsAtRest /\ AuditRows
        /\ HalfDoneIsContained
    BY DEF RecordsInv
  <1>2. /\ defects'[d] = row /\ \A i \in Defects \ {d} : defects'[i] = defects[i]
        /\ defects' \in [Defects -> DefectRecords \cup {None}]
    BY <1>1 DEF TestRows
  <1>3. TestRows' /\ SnapshotRows'
    BY <1>2 DEF RecordsInv, TestRows, SnapshotRows, otherThanDefects
  <1>4. SuiteRefs' /\ CaseRefs' /\ PlanRefs' /\ ExecutionRefs' /\ SnapshotRefs'
    BY DEF RecordsInv, SuiteRefs, CaseRefs, PlanRefs, ExecutionRefs, SnapshotRefs, Known, otherThanDefects
  <1>5. /\ SuitesAcyclic' /\ SiblingsDiffer' /\ PlansRunOnce' /\ ActiveCasesHaveSteps'
        /\ VersionsCount' /\ PlansAtRest' /\ ExecutionsAtRest'
    BY DEF RecordsInv, SuitesAcyclic, Chain, SiblingsDiffer, UniqueName, Of, PlansRunOnce,
       ActiveCasesHaveSteps, VersionsCount, PlansAtRest, ExecutionsAtRest, otherThanDefects
  <1>6. DefectRefs'
    BY <1>1, <1>2 DEF DefectRefs, Known, Active, otherThanDefects
  <1>7. DefectFieldsAgree'
    BY <1>1, <1>2 DEF DefectFieldsAgree, DefectAgrees
  <1>8. DefectsAtRest'
    BY <1>1, <1>2 DEF DefectsAtRest, Active, otherThanDefects
  <1>9. LatePlans' = LatePlans
    BY DEF LatePlans, PlanAgrees, ExecutionsOf, otherThanDefects
  <1>10. \A s \in Suites : s # d
    BY TestManagementAssumption
  <1>11. AuditRows' /\ HalfDoneIsContained'
    <2>1. CASE Audit(d, row.status)
      <3>1. /\ AuditRows'
            /\ \A i \in Suites \cup Defects : i # d => audited'[i] = audited[i]
            /\ Fault \/ (faults' = faults /\ audited'[d] = row.status)
        BY <1>1, <2>1, Audited
      <3>2. LateSuites' \subseteq LateSuites
        BY <1>10, <3>1 DEF LateSuites, otherThanDefects
      <3>3. LateDefects' \subseteq LateDefects \cup {d}
        BY <1>2, <3>1 DEF LateDefects
      <3>4. CASE Fault
        BY <1>1, <1>9, <3>1, <3>2, <3>3, <3>4, OneLate
      <3>5. CASE faults' = faults /\ audited'[d] = row.status
        <4>1. LateDefects' \subseteq LateDefects
          BY <1>2, <3>1, <3>5 DEF LateDefects
        <4> QED
          BY <1>1, <1>9, <3>1, <3>2, <3>5, <4>1, NoneLate
      <3> QED
        BY <3>1, <3>4, <3>5
    <2>2. CASE row.status = defects[d].status /\ UNCHANGED <<audited, faults>>
      <3>1. LateSuites' = LateSuites /\ LateDefects' = LateDefects
        BY <1>2, <2>2 DEF LateSuites, LateDefects, otherThanDefects
      <3>2. AuditRows' /\ faults' = faults
        BY <1>1, <2>2, AuditStays
      <3> QED
        BY <1>1, <1>9, <3>1, <3>2, NoneLate
    <2> QED
      BY <2>1, <2>2
  <1> QED
    BY <1>3, <1>4, <1>5, <1>6, <1>7, <1>8, <1>11 DEF RecordsInv

LEMMA CreateDefectInv ==
  ASSUME RecordsInv, NEW d \in Defects, NEW p \in Projects, NEW case \in Cases \cup {Nothing},
         NEW execution \in Executions \cup {Nothing}, NEW assigned \in BOOLEAN,
         CreateDefect(d, p, case, execution, assigned)
  PROVE  RecordsInv'
  <1>1. PICK row : row = [project |-> p, case |-> case, execution |-> execution, status |-> "open",
                          assigned |-> assigned, resolution |-> FALSE, closed_at |-> FALSE]
    OBVIOUS
  <1>2. /\ row \in DefectRecords /\ row.project = p /\ row.case = case /\ row.execution = execution
        /\ row.status = "open" /\ ~row.resolution /\ ~row.closed_at
    BY <1>1 DEF DefectRecords
  <1>3. /\ defects' = [defects EXCEPT ![d] = row] /\ UNCHANGED otherThanDefects
        /\ Active(p) /\ Associable(p, case, execution) /\ Audit(d, "open")
    BY <1>1 DEF CreateDefect, otherThanDefects
  <1> QED
    BY <1>2, <1>3, DefectIsWritten DEF Associable, DefectAgrees

LEMMA DefectStepInv ==
  ASSUME RecordsInv, DefectStep
  PROVE  RecordsInv'
  <1>1. TestRows /\ DefectRefs /\ DefectFieldsAgree
    BY DEF RecordsInv
  <1>2. ASSUME NEW d \in Defects, NEW assigned \in BOOLEAN, UpdateDefect(d, assigned)
        PROVE  RecordsInv'
    <2>1. PICK defect : defect = defects[d]
      OBVIOUS
    <2>2. defect \in DefectRecords /\ defect # None
      BY <1>1, <1>2, <2>1, RowFacts, RecordsAreSome DEF UpdateDefect
    <2>3. PICK row : row = [defect EXCEPT !.assigned = assigned]
      OBVIOUS
    <2>4. /\ row \in DefectRecords /\ row.project = defect.project /\ row.case = defect.case
          /\ row.execution = defect.execution /\ row.status = defect.status
          /\ row.resolution = defect.resolution /\ row.closed_at = defect.closed_at
          /\ row.assigned = assigned
      BY <2>2, <2>3 DEF DefectRecords
    <2>5. /\ defects' = [defects EXCEPT ![d] = row] /\ UNCHANGED otherThanDefects
          /\ UNCHANGED <<audited, faults>> /\ (defect.status = "in_progress" => assigned)
      BY <1>1, <1>2, <2>1, <2>3 DEF UpdateDefect, otherThanDefects, TestRows
    <2>6. /\ Known(defect.project)
          /\ defect.case # Nothing => test_cases[defect.case].project = defect.project
          /\ defect.execution # Nothing => executions[defect.execution].project = defect.project
      BY <1>1, <2>1, <2>2 DEF DefectRefs
    <2>7. DefectAgrees(row)
      BY <1>1, <2>1, <2>2, <2>4, <2>5 DEF DefectFieldsAgree, DefectAgrees
    <2> QED
      BY <2>1, <2>2, <2>4, <2>5, <2>6, <2>7, DefectIsWritten
  <1>3. ASSUME NEW d \in Defects, NEW target \in DOMAIN DefectTransitions, TransitionDefect(d, target)
        PROVE  RecordsInv'
    <2>1. PICK defect : defect = defects[d]
      OBVIOUS
    <2>2. target \in DefectTransitions[defect.status] /\ defect.status # "absent"
      BY <1>3, <2>1 DEF TransitionDefect, DefectTransitions
    <2>3. defect \in DefectRecords /\ defect # None
      BY <1>1, <2>1, <2>2, RowFacts, RecordsAreSome
    <2>4. PICK row : row = AfterTransition(defect, target)
      OBVIOUS
    <2>5. target \in {"open", "in_progress", "resolved", "verified", "closed", "reopened"}
      <3>1. defect.status \in {"open", "in_progress", "resolved", "verified", "closed", "reopened"}
        BY <2>3 DEF DefectRecords
      <3> QED
        BY <2>2, <3>1 DEF DefectTransitions
    <2>6. /\ row \in DefectRecords /\ row.project = defect.project /\ row.case = defect.case
          /\ row.execution = defect.execution /\ row.status = target
          /\ row.resolution = (target = "resolved" \/ (defect.resolution /\ target # "reopened"))
          /\ row.closed_at = (target = "closed" \/ (defect.closed_at /\ target \notin {"resolved", "reopened"}))
          /\ row.assigned = defect.assigned
      BY <2>3, <2>4, <2>5 DEF DefectRecords, AfterTransition
    <2>7. /\ defects' = [defects EXCEPT ![d] = row] /\ UNCHANGED otherThanDefects
          /\ Active(defect.project) /\ Audit(d, target) /\ (target = "in_progress" => defect.assigned)
      BY <1>3, <2>1, <2>4 DEF TransitionDefect, otherThanDefects
    <2>8. /\ defect.case # Nothing => test_cases[defect.case].project = defect.project
          /\ defect.execution # Nothing => executions[defect.execution].project = defect.project
      BY <1>1, <2>1, <2>3 DEF DefectRefs
    <2>9. DefectAgrees(row)
      <3>1. DefectAgrees(defect)
        BY <1>1, <2>1, <2>3 DEF DefectFieldsAgree, DefectAgrees
      <3>2. defect.status \in {"open", "in_progress", "resolved", "verified", "closed", "reopened"}
        BY <2>3 DEF DefectRecords
      <3>3. /\ target \in {"resolved", "verified", "closed"} <=>
                \/ target = "resolved"
                \/ defect.status \in {"resolved", "verified", "closed"} /\ target # "reopened"
            /\ target = "closed" <=>
                \/ target = "closed"
                \/ defect.status = "closed" /\ target \notin {"resolved", "reopened"}
        BY <2>2, <3>2 DEF DefectTransitions
      <3>4. row.resolution <=> row.status \in {"resolved", "verified", "closed"}
        BY <2>6, <3>1, <3>3 DEF DefectAgrees
      <3>5. row.closed_at <=> row.status = "closed"
        BY <2>6, <3>1, <3>3 DEF DefectAgrees
      <3> QED
        BY <2>6, <2>7, <3>4, <3>5 DEF DefectAgrees
    <2> QED
      BY <2>6, <2>7, <2>8, <2>9, DefectIsWritten
  <1> QED
    BY <1>2, <1>3, CreateDefectInv DEF DefectStep

SnapshotsOf(p, scope) == {w \in snapshots : w.project = p /\ w.scope = scope}

\* The next version follows those that are counted without a gap.
LEMMA NextVersion ==
  ASSUME SnapshotRows, VersionsCount, NEW p, NEW scope
  PROVE  /\ Cardinality(SnapshotsOf(p, scope)) \in Nat
         /\ {w.version : w \in SnapshotsOf(p, scope)} = 1..Cardinality(SnapshotsOf(p, scope))
         /\ VersionAfter(p, scope) = Cardinality(SnapshotsOf(p, scope)) + 1
  <1> PICK same : same = SnapshotsOf(p, scope)
    OBVIOUS
  <1>1. IsFiniteSet(same) /\ Cardinality(same) \in Nat
    BY FS_Subset, FS_CardinalityType DEF SnapshotRows, SnapshotsOf
  <1> PICK n : n = Cardinality(same)
    OBVIOUS
  <1>2. {w.version : w \in same} = 1..n
    <2>1. CASE same = {}
      <3>1. n = 0
        BY <2>1, FS_EmptySet
      <3>2. {w.version : w \in same} = {}
        BY <2>1
      <3> QED
        BY <3>1, <3>2
    <2>2. CASE same # {}
      <3>1. PICK v \in same : TRUE
        BY <2>2
      <3>2. v \in snapshots /\ same = {w \in snapshots : w.project = v.project /\ w.scope = v.scope}
        BY <3>1 DEF SnapshotsOf
      <3>3. {w.version : w \in {w \in snapshots : w.project = v.project /\ w.scope = v.scope}}
              = 1..Cardinality({w \in snapshots : w.project = v.project /\ w.scope = v.scope})
        BY <3>2 DEF VersionsCount
      <3> QED
        BY <3>2, <3>3
    <2> QED
      BY <2>1, <2>2
  <1> PICK versions : versions = {w.version : w \in same} \cup {0}
    OBVIOUS
  <1>3. versions = 0..n /\ n \in Nat
    BY <1>1, <1>2
  <1>4. n \in versions /\ \A k \in versions : k <= n
    BY <1>3
  <1>5. \A m \in versions : (\A k \in versions : k <= m) => m = n
    BY <1>3
  <1>6. (CHOOSE m \in versions : \A k \in versions : k <= m) = n
    BY <1>4, <1>5
  <1>7. VersionAfter(p, scope) = 1 + n
    BY <1>6 DEF VersionAfter, SnapshotsOf
  <1> QED
    BY <1>1, <1>2, <1>3, <1>7

LEMMA SnapshotStepInv ==
  ASSUME RecordsInv, SnapshotStep
  PROVE  RecordsInv'
  <1>1. PICK p \in Projects, scope \in Suites \cup {WholeProject}, descendants \in BOOLEAN :
          CreateSnapshot(p, scope, descendants)
    BY DEF SnapshotStep
  <1>2. SnapshotRows /\ SnapshotRefs /\ VersionsCount /\ TestRows
    BY DEF RecordsInv
  <1> PICK same : same = SnapshotsOf(p, scope)
    OBVIOUS
  <1> PICK n : n = Cardinality(same)
    OBVIOUS
  <1>3. n \in Nat /\ {w.version : w \in same} = 1..n /\ VersionAfter(p, scope) = n + 1
    BY <1>2, NextVersion
  <1>4. IsFiniteSet(same) /\ same \subseteq snapshots
    BY <1>2, FS_Subset DEF SnapshotRows, SnapshotsOf
  <1> PICK v : v = [project |-> p, scope |-> scope, version |-> VersionAfter(p, scope),
                    cases |-> Captured(p, scope, descendants)]
    OBVIOUS
  <1>5. v.project = p /\ v.scope = scope /\ v.version = n + 1 /\ v \in SnapshotRecords
    <2>1. Captured(p, scope, descendants) \subseteq Cases
      BY <1>2 DEF Captured, Of, TestRows
    <2> QED
      BY <1>3, <2>1 DEF SnapshotRecords
  <1>6. /\ snapshots' = snapshots \cup {v} /\ Active(p)
        /\ UNCHANGED <<projects, test_suites, test_cases, test_plans, executions, defects, audited, faults>>
    BY <1>1 DEF CreateSnapshot
  <1>7. SnapshotRows'
    BY <1>2, <1>5, <1>6, FS_AddElement DEF SnapshotRows
  <1>8. SnapshotRefs'
    BY <1>2, <1>5, <1>6 DEF SnapshotRefs, Known, Active
  <1>9. v \notin same
    BY <1>3, <1>5
  <1>10. IsFiniteSet(same \cup {v}) /\ Cardinality(same \cup {v}) = n + 1
    BY <1>4, <1>9, FS_AddElement
  <1>11. {w.version : w \in same \cup {v}} = 1..(n + 1)
    BY <1>3, <1>5
  <1>12. VersionsCount'
    <2> SUFFICES ASSUME NEW u \in snapshots',
                        NEW others, others = {w \in snapshots' : w.project = u.project /\ w.scope = u.scope}
                 PROVE  {w.version : w \in others} = 1..Cardinality(others)
      BY DEF VersionsCount
    <2>1. CASE u.project = p /\ u.scope = scope
      <3>1. others = same \cup {v}
        BY <1>5, <1>6, <2>1 DEF SnapshotsOf
      <3> QED
        BY <1>10, <1>11, <3>1
    <2>2. CASE ~(u.project = p /\ u.scope = scope)
      <3>1. others = SnapshotsOf(u.project, u.scope)
        BY <1>5, <1>6, <2>2 DEF SnapshotsOf
      <3> QED
        BY <1>2, <3>1, NextVersion
    <2> QED
      BY <2>1, <2>2
  <1>13. TestRows' /\ AuditRows'
    BY <1>6 DEF RecordsInv, TestRows, AuditRows
  <1>14. SuiteRefs' /\ CaseRefs' /\ PlanRefs' /\ ExecutionRefs' /\ DefectRefs'
    BY <1>6 DEF RecordsInv, SuiteRefs, CaseRefs, PlanRefs, ExecutionRefs, DefectRefs, Known
  <1>15. /\ SuitesAcyclic' /\ SiblingsDiffer' /\ PlansRunOnce' /\ ActiveCasesHaveSteps'
         /\ DefectFieldsAgree' /\ PlansAtRest' /\ ExecutionsAtRest' /\ DefectsAtRest'
    BY <1>6 DEF RecordsInv, SuitesAcyclic, Chain, SiblingsDiffer, UniqueName, Of, PlansRunOnce,
       ActiveCasesHaveSteps, DefectFieldsAgree, PlansAtRest, ExecutionsAtRest, DefectsAtRest
  <1>16. HalfDoneIsContained'
    BY <1>6 DEF RecordsInv, HalfDoneIsContained, PlanAgrees, ExecutionsOf
  <1> QED
    BY <1>7, <1>8, <1>12, <1>13, <1>14, <1>15, <1>16 DEF RecordsInv

LEMMA RecordsInvInit == TestInit => RecordsInv
  <1> SUFFICES ASSUME TestInit PROVE RecordsInv
    OBVIOUS
  <1>1. None.status = "absent" /\ None.project = "none"
    BY DEF None
  <1>2. TestRows
    BY DEF TestInit, TestRows
  <1>3. SnapshotRows /\ AuditRows
    BY FS_EmptySet, FaultsAssumption DEF TestInit, SnapshotRows, AuditRows
  <1>4. SuiteRefs /\ CaseRefs /\ PlanRefs /\ ExecutionRefs /\ DefectRefs /\ SnapshotRefs
    BY DEF TestInit, SuiteRefs, CaseRefs, PlanRefs, ExecutionRefs, DefectRefs, SnapshotRefs
  <1>5. /\ SuitesAcyclic /\ SiblingsDiffer /\ PlansRunOnce /\ ActiveCasesHaveSteps
        /\ DefectFieldsAgree /\ VersionsCount
    BY <1>1 DEF TestInit, SuitesAcyclic, SiblingsDiffer, PlansRunOnce, ActiveCasesHaveSteps,
       DefectFieldsAgree, VersionsCount
  <1>6. PlansAtRest /\ ExecutionsAtRest /\ DefectsAtRest
    BY DEF TestInit, PlansAtRest, ExecutionsAtRest, DefectsAtRest
  <1>7. HalfDoneIsContained
    <2>1. \A l \in Plans : ExecutionsOf(l) = {}
      BY DEF TestInit, ExecutionsOf
    <2>2. IsFiniteSet({}) /\ Cardinality({}) = 0
      BY FS_EmptySet
    <2>3. \A l \in Plans : PlanAgrees(l)
      BY <1>1, <2>1, <2>2 DEF TestInit, PlanAgrees
    <2>4. LatePlans = {} /\ LateSuites = {} /\ LateDefects = {}
      BY <1>1, <2>3 DEF TestInit, LatePlans, LateSuites, LateDefects
    <2>5. Cardinality(LatePlans) + Cardinality(LateSuites) + Cardinality(LateDefects) <= faults
      BY <2>2, <2>4 DEF TestInit
    <2> QED
      BY <2>5 DEF HalfDoneIsContained, LatePlans, LateSuites, LateDefects
  <1> QED
    BY <1>2, <1>3, <1>4, <1>5, <1>6, <1>7 DEF RecordsInv

\* Every operation keeps the invariant.
LEMMA TestNextInv ==
  ASSUME RecordsInv, TestNext
  PROVE  RecordsInv'
  BY ProjectStepInv, SuiteStepInv, CaseStepInv, PlanStepInv, ExecutionStepInv, DefectStepInv,
     SnapshotStepInv DEF TestNext

LEMMA TestStays ==
  ASSUME RecordsInv, UNCHANGED testVars
  PROVE  RecordsInv'
  <1> USE DEF testVars
  <1>1. TestRows' /\ SnapshotRows' /\ AuditRows'
    BY DEF RecordsInv, TestRows, SnapshotRows, AuditRows
  <1>2. SuiteRefs' /\ CaseRefs' /\ PlanRefs' /\ ExecutionRefs' /\ DefectRefs' /\ SnapshotRefs'
    BY DEF RecordsInv, SuiteRefs, CaseRefs, PlanRefs, ExecutionRefs, DefectRefs, SnapshotRefs, Known
  <1>3. /\ SuitesAcyclic' /\ SiblingsDiffer' /\ PlansRunOnce' /\ ActiveCasesHaveSteps'
        /\ DefectFieldsAgree' /\ VersionsCount' /\ PlansAtRest' /\ ExecutionsAtRest' /\ DefectsAtRest'
    BY DEF RecordsInv, SuitesAcyclic, Chain, SiblingsDiffer, UniqueName, Of, PlansRunOnce,
       ActiveCasesHaveSteps, DefectFieldsAgree, VersionsCount, PlansAtRest, ExecutionsAtRest,
       DefectsAtRest
  <1>4. HalfDoneIsContained'
    BY DEF RecordsInv, HalfDoneIsContained, PlanAgrees, ExecutionsOf
  <1> QED
    BY <1>1, <1>2, <1>3, <1>4 DEF RecordsInv

\* What the invariant says in the words of the runs.
LEMMA RecordsInvImplies ==
  ASSUME RecordsInv
  PROVE  RecordsAreConsistent
  <1>1. TestRows /\ AuditRows
    BY DEF RecordsInv
  <1>2. \A i \in Projects : None.project # i
    BY TestManagementAssumption DEF None
  <1>3. TestTypeOK
    BY <1>1 DEF TestRows, AuditRows, TestTypeOK
  <1>4. ReferencesResolve
    <2>1. \A s \in Suites : test_suites[s] # None =>
            InProject(test_suites, IF test_suites[s].parent = Root THEN s ELSE test_suites[s].parent,
                      test_suites[s].project)
      <3>1. \A s \in Suites : test_suites[s] # None => test_suites[s].parent \in Suites \cup {Root}
        BY <1>1, RowFacts DEF SuiteRecords
      <3> QED
        BY <1>1, <3>1 DEF RecordsInv, SuiteRefs, InProject, Known, TestRows
    <2>2. \A c \in Cases : test_cases[c] # None =>
            /\ InProject(test_cases, c, test_cases[c].project)
            /\ test_cases[c].suite # Root =>
                 InProject(test_suites, test_cases[c].suite, test_cases[c].project)
      <3>1. \A c \in Cases : test_cases[c] # None => test_cases[c].suite \in Suites \cup {Root}
        BY <1>1, RowFacts DEF CaseRecords
      <3> QED
        BY <1>1, <3>1 DEF RecordsInv, CaseRefs, InProject, Known, TestRows
    <2>3. \A l \in Plans : test_plans[l] # None =>
            /\ InProject(test_plans, l, test_plans[l].project)
            /\ \A c \in test_plans[l].cases : InProject(test_cases, c, test_plans[l].project)
      <3>1. \A l \in Plans : test_plans[l] # None => test_plans[l].cases \subseteq Cases
        BY <1>1, RowFacts DEF PlanRecords
      <3> QED
        BY <1>1, <3>1 DEF RecordsInv, PlanRefs, InProject, Known, TestRows
    <2>4. \A x \in Executions : executions[x] # None =>
            /\ InProject(test_plans, executions[x].plan, executions[x].project)
            /\ DOMAIN executions[x].results = test_plans[executions[x].plan].cases
      <3>1. \A r \in ExecutionRecords : r.plan \in Plans /\ r.project \in Projects
        BY DEF ExecutionRecords
      <3>2. ASSUME NEW x \in Executions, executions[x] # None
            PROVE  /\ executions[x].plan \in Plans
                   /\ test_plans[executions[x].plan].project = executions[x].project
                   /\ DOMAIN executions[x].results = test_plans[executions[x].plan].cases
                   /\ test_plans[executions[x].plan] # None
        BY <1>1, <1>2, <3>1, <3>2, RowFacts DEF RecordsInv, ExecutionRefs
      <3>3. \A l \in Plans : test_plans[l] # None => projects[test_plans[l].project] # "absent"
        BY DEF RecordsInv, PlanRefs, Known
      <3>4. DOMAIN test_plans = Plans
        BY <1>1 DEF TestRows
      <3> QED
        BY <3>2, <3>3, <3>4 DEF InProject
    <2>5. \A d \in Defects : defects[d] # None =>
            /\ InProject(defects, d, defects[d].project)
            /\ defects[d].case # Nothing => InProject(test_cases, defects[d].case, defects[d].project)
            /\ defects[d].execution # Nothing =>
                 InProject(executions, defects[d].execution, defects[d].project)
      <3>1. \A d \in Defects : defects[d] # None =>
              /\ defects[d].case \in Cases \cup {Nothing}
              /\ defects[d].execution \in Executions \cup {Nothing}
        BY <1>1, RowFacts DEF DefectRecords
      <3> QED
        BY <1>1, <3>1 DEF RecordsInv, DefectRefs, InProject, Known, TestRows
    <2>6. \A v \in snapshots : projects[v.project] # "absent"
      BY DEF RecordsInv, SnapshotRefs, Known
    <2> QED
      BY <2>1, <2>2, <2>3, <2>4, <2>5, <2>6 DEF ReferencesResolve
  <1>5. SuitesFormATree
    <2>1. \A s \in Suites : test_suites[s] # None => test_suites[s].parent \in Suites \cup {Root}
      BY <1>1, RowFacts DEF SuiteRecords
    <2>2. ASSUME NEW s \in Suites, test_suites[s] # None, NEW t \in Chain(s) \ {s}
          PROVE  s \notin Chain(t)
      <3>1. PICK up : up = Chain(test_suites[s].parent)
        OBVIOUS
      <3>2. /\ up \subseteq Suites /\ HasParents(test_suites, up) /\ s \notin up
            /\ test_suites[s].parent \in up \cup {Root}
        BY <2>1, <2>2, <3>1, Chains DEF Chain, RecordsInv, SuitesAcyclic
      <3>3. HasParents(test_suites, up \cup {s})
        BY <3>2 DEF HasParents
      <3>4. Chain(s) \subseteq up \cup {s}
        BY <3>2, <3>3, ChainIsLeast DEF Chain
      <3>5. t \in up
        BY <2>2, <3>4
      <3>6. Chain(t) \subseteq up
        BY <3>2, <3>5, ChainIsLeast DEF Chain
      <3> QED
        BY <3>2, <3>6
    <2> QED
      BY <2>2 DEF SuitesFormATree, RecordsInv, SiblingsDiffer
  <1>6. ArchivedIsAtRest
    <2>1. \A l \in Plans : test_plans[l].project \in Projects => test_plans[l] # None
      BY <1>2
    <2>2. \A x \in Executions : executions[x].project \in Projects => executions[x] # None
      BY <1>2
    <2>3. \A d \in Defects : defects[d].project \in Projects => defects[d] # None
      BY <1>2
    <2> QED
      BY <1>1, <2>1, <2>2, <2>3
      DEF RecordsInv, ArchivedIsAtRest, PlansAtRest, ExecutionsAtRest, DefectsAtRest, Of, TestRows
  <1> QED
    BY <1>3, <1>4, <1>5, <1>6 DEF RecordsAreConsistent, RecordsInv, ActiveCasesHaveSteps

-----------------------------------------------------------------------------
(***************************************************************************)
(* The import.  What was read before stays true as long as no other        *)
(* request comes between, but for the table that the import itself writes. *)
(***************************************************************************)
Outcomes == [status : {"skipped", "failed"}] \cup [status : {"created"}, id : Cases \cup Defects]
BatchFields == {"at", "project", "file", "seen", "results", "undisturbed"}

BatchRows == batch.at # "none" =>
  /\ DOMAIN batch = BatchFields
  /\ batch.at \in {"reading", "writing", "reported", "aborted"}
  /\ batch.project \in Projects /\ batch.file \in ImportFiles /\ batch.undisturbed \in BOOLEAN
  /\ batch.results \in Seq(Outcomes)

BatchSees == batch.at \in {"reading", "writing"} =>
  /\ batch.undisturbed => Active(batch.project)
  /\ batch.undisturbed => \A name \in DOMAIN batch.seen :
       \/ name = "test_cases" /\ batch.at = "writing" /\ batch.file.entity = "test_cases"
       \/ batch.seen[name] = Tables[name]
  /\ batch.at = "writing" => DOMAIN batch.seen = DOMAIN Tables

BatchCounts == batch.at \in {"reading", "writing"} =>
  /\ Len(batch.results) <= Len(batch.file.rows)
  /\ batch.undisturbed => \A i \in DOMAIN batch.results : batch.results[i].status # "failed"
  /\ batch.file.clean => \A i \in DOMAIN batch.results : batch.results[i].status # "skipped"
  /\ batch.at = "reading" => batch.results = << >>
  /\ batch.at = "writing" /\ batch.file.clean => \A i \in DOMAIN batch.file.rows : ValidRow(i)

ImportInv == RecordsInv /\ BatchRows /\ BatchSees /\ BatchCounts /\ PreviewIsHonoured

\* An import that ends without a report.
LEMMA FaultKeepsRecords ==
  ASSUME RecordsInv, Fault,
         UNCHANGED <<projects, test_suites, test_cases, test_plans, executions, defects, snapshots, audited>>
  PROVE  RecordsInv'
  <1>1. TestRows' /\ SnapshotRows'
    BY DEF RecordsInv, TestRows, SnapshotRows
  <1>2. SuiteRefs' /\ CaseRefs' /\ PlanRefs' /\ ExecutionRefs' /\ DefectRefs' /\ SnapshotRefs'
    BY DEF RecordsInv, SuiteRefs, CaseRefs, PlanRefs, ExecutionRefs, DefectRefs, SnapshotRefs, Known
  <1>3. /\ SuitesAcyclic' /\ SiblingsDiffer' /\ PlansRunOnce' /\ ActiveCasesHaveSteps'
        /\ DefectFieldsAgree' /\ VersionsCount' /\ PlansAtRest' /\ ExecutionsAtRest' /\ DefectsAtRest'
    BY DEF RecordsInv, SuitesAcyclic, Chain, SiblingsDiffer, UniqueName, Of, PlansRunOnce,
       ActiveCasesHaveSteps, DefectFieldsAgree, VersionsCount, PlansAtRest, ExecutionsAtRest,
       DefectsAtRest
  <1>4. AuditRows' /\ HalfDoneIsContained'
    <2>1. AuditRows /\ HalfDoneIsContained
      BY DEF RecordsInv
    <2>2. LatePlans' = LatePlans /\ LateSuites' = LateSuites /\ LateDefects' = LateDefects
      BY DEF LatePlans, LateSuites, LateDefects, PlanAgrees, ExecutionsOf
    <2> QED
      BY <2>1, <2>2, OneLate, AuditStays
  <1> QED
    BY <1>1, <1>2, <1>3, <1>4 DEF RecordsInv

\* The row that is written next is a row of the file.
LEMMA RowToWrite ==
  ASSUME BatchRows, RowsLeft
  PROVE  /\ Len(batch.results) + 1 \in DOMAIN batch.file.rows /\ batch.project \in Projects
         /\ NextRow.suite \in Suites \cup {Root}
         /\ NextRow.case \in Cases \cup {Nothing} /\ NextRow.execution \in Executions \cup {Nothing}
  <1>1. batch.file \in ImportFiles /\ batch.project \in Projects /\ batch.results \in Seq(Outcomes)
    BY DEF BatchRows, RowsLeft
  <1>2. Len(batch.results) \in Nat
    BY <1>1
  <1> DEFINE n == Len(batch.results) + 1
  <1>3. n \in 1..Len(batch.file.rows)
    BY <1>1, <1>2, ImportFilesAssumption DEF RowsLeft
  <1>4. n \in DOMAIN batch.file.rows
    BY <1>1, <1>3, ImportFilesAssumption
  <1> QED
    BY <1>1, <1>4, ImportFilesAssumption DEF NextRow

\* The records are consistent whatever an import adds to them.
LEMMA TransferKeepsRecords ==
  ASSUME RecordsInv, BatchRows, [TransferNext]_transferVars
  PROVE  RecordsInv'
  <1>1. CASE UNCHANGED testVars
    BY <1>1, TestStays
  <1>2. ASSUME NEW c \in Cases, ImportCreatesCase(c) PROVE RecordsInv'
    <2>1. RowsLeft /\ CreateCase(c, batch.project, NextRow.suite, TRUE)
      BY <1>2 DEF ImportCreatesCase
    <2> QED
      BY <2>1, RowToWrite, CreateCaseInv
  <1>3. ASSUME NEW d \in Defects, ImportCreatesDefect(d) PROVE RecordsInv'
    <2>1. RowsLeft /\ CreateDefect(d, batch.project, NextRow.case, NextRow.execution, FALSE)
      BY <1>3 DEF ImportCreatesDefect
    <2> QED
      BY <2>1, RowToWrite, CreateDefectInv
  <1>4. CASE ImportAborts
    BY <1>4, FaultKeepsRecords DEF ImportAborts
  <1>5. CASE OtherRequest
    BY <1>5, TestNextInv DEF OtherRequest
  <1>6. CASE UNCHANGED transferVars
    BY <1>1, <1>6 DEF transferVars
  <1> QED
    BY <1>1, <1>2, <1>3, <1>4, <1>5, <1>6
    DEF TransferNext, ImportBegins, ImportReads, ImportIsPrepared, ImportSkipsRow, ImportFailsRow,
        ImportReports

\* A row that was found valid is not refused while nothing else has changed.
LEMMA ValidRowIsWritten ==
  ASSUME BatchRows, BatchSees, batch.undisturbed, RowsLeft, ValidRow(Len(batch.results) + 1)
  PROVE  ~Refuses(batch.project, NextRow)
  <1>1. batch.at = "writing" /\ Active(batch.project) /\ DOMAIN batch.seen = DOMAIN Tables
    BY DEF RowsLeft, BatchSees
  <1>2. /\ DOMAIN Tables = {"test_cases", "test_suites", "executions"}
        /\ Tables["test_suites"] = test_suites /\ Tables["executions"] = executions
        /\ Tables["test_cases"] = test_cases
    BY DEF Tables
  <1>3. batch.seen.test_suites = test_suites /\ batch.seen.executions = executions
    BY <1>1, <1>2 DEF BatchSees
  <1>4. CASE batch.file.entity = "test_cases"
    <2>1. SuiteResolves(batch.seen, batch.project, NextRow.suite)
      BY <1>4 DEF ValidRow, NextRow
    <2>2. AcceptsCases(batch.project, NextRow.suite)
      BY <1>3, <2>1 DEF SuiteResolves, AcceptsCases, ActiveIn, Chain
    <2> QED
      BY <1>1, <1>4, <2>2 DEF Refuses
  <1>5. CASE batch.file.entity # "test_cases"
    <2>1. AssociationsResolve(batch.seen, batch.project, NextRow.case, NextRow.execution)
      BY <1>5 DEF ValidRow, NextRow
    <2>2. batch.seen.test_cases = test_cases
      BY <1>1, <1>2, <1>5 DEF BatchSees
    <2>3. Associable(batch.project, NextRow.case, NextRow.execution)
      BY <1>3, <2>1, <2>2 DEF AssociationsResolve, Associable
    <2> QED
      BY <1>1, <1>5, <2>3 DEF Refuses
  <1> QED
    BY <1>4, <1>5

\* The result of a row is appended, and nothing else of the batch changes.
LEMMA RowIsReported ==
  ASSUME BatchRows, BatchCounts, RowsLeft, NEW result \in Outcomes, Reports(result),
         batch.undisturbed => result.status # "failed",
         batch.file.clean => result.status # "skipped"
  PROVE  /\ BatchRows' /\ BatchCounts' /\ PreviewIsHonoured'
         /\ batch'.at = batch.at /\ batch'.file = batch.file /\ batch'.project = batch.project
         /\ batch'.seen = batch.seen /\ batch'.undisturbed = batch.undisturbed
  <1>1. /\ DOMAIN batch = BatchFields /\ batch.at = "writing" /\ batch.file \in ImportFiles
        /\ batch.results \in Seq(Outcomes) /\ Len(batch.results) < Len(batch.file.rows)
    BY DEF BatchRows, RowsLeft
  <1>2. PICK results : results = Append(batch.results, result)
    OBVIOUS
  <1>3. /\ results \in Seq(Outcomes) /\ Len(results) = Len(batch.results) + 1
        /\ Len(batch.results) \in Nat
        /\ \A i \in DOMAIN results : results[i] = result \/ (i \in DOMAIN batch.results /\ results[i] = batch.results[i])
    BY <1>1, <1>2
  <1>4. batch' = [batch EXCEPT !.results = results]
    BY <1>2 DEF Reports
  <1>5. /\ DOMAIN batch' = BatchFields /\ batch'.at = "writing" /\ batch'.file = batch.file
        /\ batch'.project = batch.project /\ batch'.seen = batch.seen
        /\ batch'.undisturbed = batch.undisturbed /\ batch'.results = results
    BY <1>1, <1>4 DEF BatchFields
  <1>6. BatchRows'
    BY <1>1, <1>3, <1>5 DEF BatchRows
  <1>7. BatchCounts'
    <2>1. Len(results) <= Len(batch.file.rows)
      BY <1>1, <1>3, ImportFilesAssumption
    <2>2. \A i \in DOMAIN batch.file.rows : ValidRow(i)' <=> ValidRow(i)
      BY <1>5 DEF ValidRow
    <2>3. batch.undisturbed => \A i \in DOMAIN results : results[i].status # "failed"
      BY <1>1, <1>3 DEF BatchCounts
    <2>4. batch.file.clean => \A i \in DOMAIN results : results[i].status # "skipped"
      BY <1>1, <1>3 DEF BatchCounts
    <2>5. batch.file.clean => \A i \in DOMAIN batch.file.rows : ValidRow(i)
      BY <1>1 DEF BatchCounts
    <2> QED
      BY <1>5, <2>1, <2>2, <2>3, <2>4, <2>5 DEF BatchCounts
  <1>8. PreviewIsHonoured'
    BY <1>5 DEF PreviewIsHonoured
  <1> QED
    BY <1>1, <1>5, <1>6, <1>7, <1>8

LEMMA ImportInvStep ==
  ASSUME ImportInv, [TransferNext]_transferVars
  PROVE  ImportInv'
  <1>1. BatchRows /\ BatchSees /\ BatchCounts /\ PreviewIsHonoured
    BY DEF ImportInv
  <1>2. RecordsInv'
    BY TransferKeepsRecords DEF ImportInv
  <1> DEFINE Goal == BatchRows' /\ BatchSees' /\ BatchCounts' /\ PreviewIsHonoured'
  <1>3. DOMAIN Tables = {"test_cases", "test_suites", "executions"}
    BY DEF Tables
  <1>4. UNCHANGED testVars => Tables' = Tables /\ projects' = projects
    BY DEF testVars, Tables
  <1>5. ASSUME NEW p \in Projects, NEW file \in ImportFiles, ImportBegins(p, file) PROVE Goal
    <2>1. UNCHANGED testVars /\ projects[p] = "active"
      BY <1>5 DEF ImportBegins, Active
    <2>2. /\ DOMAIN batch' = BatchFields /\ batch'.at = "reading" /\ batch'.project = p
          /\ batch'.file = file /\ batch'.seen = << >> /\ batch'.results = << >>
          /\ batch'.undisturbed = TRUE
      BY <1>5 DEF ImportBegins, BatchFields
    <2>3. << >> \in Seq(Outcomes) /\ Len(<< >>) = 0 /\ DOMAIN << >> = {}
      OBVIOUS
    <2>4. 0 <= Len(file.rows)
      BY ImportFilesAssumption
    <2>5. BatchRows'
      BY <2>2, <2>3 DEF BatchRows
    <2>6. BatchSees'
      BY <1>4, <2>1, <2>2, <2>3 DEF BatchSees, Active
    <2>7. BatchCounts'
      BY <2>2, <2>3, <2>4 DEF BatchCounts
    <2> QED
      BY <2>2, <2>5, <2>6, <2>7 DEF PreviewIsHonoured
  <1>6. ASSUME NEW name \in DOMAIN Tables, ImportReads(name) PROVE Goal
    <2>1. PICK seen : seen = [n \in DOMAIN batch.seen \cup {name} |->
                                IF n = name THEN Tables[name] ELSE batch.seen[n]]
      OBVIOUS
    <2>2. batch.at = "reading" /\ batch' = [batch EXCEPT !.seen = seen] /\ UNCHANGED testVars
      BY <1>6, <2>1 DEF ImportReads
    <2>3. /\ DOMAIN batch' = BatchFields /\ batch'.at = "reading" /\ batch'.project = batch.project
          /\ batch'.file = batch.file /\ batch'.seen = seen /\ batch'.results = batch.results
          /\ batch'.undisturbed = batch.undisturbed
      BY <1>1, <2>2 DEF BatchRows, BatchFields
    <2>4. BatchRows'
      BY <1>1, <2>2, <2>3 DEF BatchRows
    <2>5. BatchSees'
      <3>1. batch.undisturbed => \A n \in DOMAIN batch.seen : batch.seen[n] = Tables[n]
        BY <1>1, <2>2 DEF BatchSees
      <3>2. batch.undisturbed => \A n \in DOMAIN seen : seen[n] = Tables[n]
        BY <2>1, <3>1
      <3> QED
        BY <1>1, <1>4, <2>2, <2>3, <3>2 DEF BatchSees, Active
    <2>6. BatchCounts'
      BY <1>1, <2>2, <2>3 DEF BatchCounts
    <2> QED
      BY <2>3, <2>4, <2>5, <2>6 DEF PreviewIsHonoured
  <1>7. ASSUME ImportIsPrepared PROVE Goal
    <2>1. batch.at = "reading" /\ DOMAIN batch.seen = DOMAIN Tables /\ UNCHANGED testVars
      BY <1>7 DEF ImportIsPrepared
    <2>2. PICK rows : rows = batch.file.rows
      OBVIOUS
    <2>3. /\ DOMAIN batch = BatchFields /\ batch.project \in Projects /\ batch.file \in ImportFiles
          /\ batch.undisturbed \in BOOLEAN /\ DOMAIN rows = 1..Len(rows) /\ Len(rows) \in Nat
      BY <1>1, <2>1, <2>2, ImportFilesAssumption DEF BatchRows
    <2>4. ASSUME batch.file.clean /\ \E i \in DOMAIN rows : ~ValidRow(i) PROVE Goal
      <3>1. PICK results : results = [i \in DOMAIN rows |-> Skipped]
        OBVIOUS
      <3>2. batch' = [batch EXCEPT !.at = "reported", !.results = results]
        BY <1>7, <2>2, <2>4, <3>1 DEF ImportIsPrepared
      <3>3. /\ DOMAIN batch' = BatchFields /\ batch'.at = "reported" /\ batch'.project = batch.project
            /\ batch'.file = batch.file /\ batch'.results = results
            /\ batch'.undisturbed = batch.undisturbed
        BY <2>3, <3>2 DEF BatchFields
      <3>4. Skipped \in Outcomes /\ Skipped.status = "skipped"
        BY DEF Skipped, Outcomes
      <3>5. /\ results \in Seq(Outcomes) /\ Len(results) = Len(rows)
            /\ DOMAIN results = DOMAIN rows /\ \A i \in DOMAIN results : results[i] = Skipped
        <4>1. results = [i \in 1..Len(rows) |-> Skipped]
          BY <2>3, <3>1
        <4> QED
          BY <2>3, <3>4, <4>1
      <3>6. {results[i].status : i \in DOMAIN results} = {"skipped"}
        BY <2>4, <3>4, <3>5
      <3>7. PreviewIsHonoured'
        BY <2>2, <3>3, <3>5, <3>6 DEF PreviewIsHonoured
      <3> QED
        BY <2>3, <3>3, <3>5, <3>7 DEF BatchRows, BatchSees, BatchCounts
    <2>5. ASSUME ~(batch.file.clean /\ \E i \in DOMAIN rows : ~ValidRow(i)) PROVE Goal
      <3>1. batch' = [batch EXCEPT !.at = "writing"]
        BY <1>7, <2>2, <2>5 DEF ImportIsPrepared
      <3>2. /\ DOMAIN batch' = BatchFields /\ batch'.at = "writing" /\ batch'.project = batch.project
            /\ batch'.file = batch.file /\ batch'.results = batch.results /\ batch'.seen = batch.seen
            /\ batch'.undisturbed = batch.undisturbed
        BY <2>3, <3>1 DEF BatchFields
      <3>3. BatchRows'
        BY <1>1, <2>1, <3>2 DEF BatchRows
      <3>4. BatchSees'
        BY <1>1, <1>4, <2>1, <3>2 DEF BatchSees, Active
      <3>5. BatchCounts'
        <4>1. \A i \in DOMAIN rows : ValidRow(i)' <=> ValidRow(i)
          BY <3>2 DEF ValidRow
        <4> QED
          BY <1>1, <2>1, <2>2, <2>5, <3>2, <4>1 DEF BatchCounts
      <3> QED
        BY <3>2, <3>3, <3>4, <3>5 DEF PreviewIsHonoured
    <2> QED
      BY <2>4, <2>5
  <1>8. ASSUME ImportSkipsRow PROVE Goal
    <2>1. RowsLeft /\ ~ValidRow(Len(batch.results) + 1) /\ Reports(Skipped) /\ UNCHANGED testVars
      BY <1>8 DEF ImportSkipsRow
    <2>2. Skipped \in Outcomes /\ Skipped.status = "skipped"
      BY DEF Skipped, Outcomes
    <2>3. ~batch.file.clean
      BY <1>1, <2>1, RowToWrite DEF BatchCounts, RowsLeft
    <2>4. /\ BatchRows' /\ BatchCounts' /\ PreviewIsHonoured'
          /\ batch'.at = batch.at /\ batch'.file = batch.file /\ batch'.project = batch.project
          /\ batch'.seen = batch.seen /\ batch'.undisturbed = batch.undisturbed
      BY <1>1, <2>1, <2>2, <2>3, RowIsReported
    <2> QED
      BY <1>1, <1>4, <2>1, <2>4 DEF BatchSees, Active
  <1>9. ASSUME ImportFailsRow PROVE Goal
    <2>1. /\ RowsLeft /\ ValidRow(Len(batch.results) + 1) /\ Refuses(batch.project, NextRow)
          /\ UNCHANGED testVars
      BY <1>9 DEF ImportFailsRow
    <2>2. PICK result : result = [status |-> "failed"]
      OBVIOUS
    <2>3. result \in Outcomes /\ result.status = "failed" /\ Reports(result)
      BY <1>9, <2>2 DEF Outcomes, ImportFailsRow
    <2>4. ~batch.undisturbed
      BY <1>1, <2>1, ValidRowIsWritten
    <2>5. /\ BatchRows' /\ BatchCounts' /\ PreviewIsHonoured'
          /\ batch'.at = batch.at /\ batch'.file = batch.file /\ batch'.project = batch.project
          /\ batch'.seen = batch.seen /\ batch'.undisturbed = batch.undisturbed
      BY <1>1, <2>1, <2>3, <2>4, RowIsReported
    <2> QED
      BY <1>1, <1>4, <2>1, <2>5 DEF BatchSees, Active
  <1>10. ASSUME NEW c \in Cases, ImportCreatesCase(c) PROVE Goal
    <2>1. PICK result : result = [status |-> "created", id |-> c]
      OBVIOUS
    <2>2. /\ RowsLeft /\ Reports(result) /\ batch.file.entity = "test_cases"
          /\ projects' = projects /\ test_suites' = test_suites /\ executions' = executions
      BY <1>10, <2>1 DEF ImportCreatesCase, CreateCase
    <2>3. result \in Outcomes /\ result.status = "created"
      BY <2>1 DEF Outcomes
    <2>4. /\ BatchRows' /\ BatchCounts' /\ PreviewIsHonoured'
          /\ batch'.at = batch.at /\ batch'.file = batch.file /\ batch'.project = batch.project
          /\ batch'.seen = batch.seen /\ batch'.undisturbed = batch.undisturbed
      BY <1>1, <2>2, <2>3, RowIsReported
    <2>5. DOMAIN Tables' = DOMAIN Tables /\ \A n \in DOMAIN Tables : n # "test_cases" => Tables'[n] = Tables[n]
      BY <2>2 DEF Tables
    <2>6. batch.at = "writing" /\ DOMAIN batch.seen = DOMAIN Tables
      BY <1>1, <2>2 DEF RowsLeft, BatchSees
    <2> QED
      BY <1>1, <2>2, <2>4, <2>5, <2>6 DEF BatchSees, Active
  <1>11. ASSUME NEW d \in Defects, ImportCreatesDefect(d) PROVE Goal
    <2>1. PICK result : result = [status |-> "created", id |-> d]
      OBVIOUS
    <2>2. /\ RowsLeft /\ projects' = projects /\ Tables' = Tables
          /\ Reports(result) \/ batch' = [batch EXCEPT !.at = "aborted"]
      BY <1>11, <2>1 DEF ImportCreatesDefect, CreateDefect, Tables
    <2>3. result \in Outcomes /\ result.status = "created"
      BY <2>1 DEF Outcomes
    <2>4. ASSUME Reports(result) PROVE Goal
      <3>1. /\ BatchRows' /\ BatchCounts' /\ PreviewIsHonoured'
            /\ batch'.at = batch.at /\ batch'.file = batch.file /\ batch'.project = batch.project
            /\ batch'.seen = batch.seen /\ batch'.undisturbed = batch.undisturbed
        BY <1>1, <2>2, <2>3, <2>4, RowIsReported
      <3> QED
        BY <1>1, <2>2, <3>1 DEF BatchSees, Active
    <2>5. ASSUME batch' = [batch EXCEPT !.at = "aborted"] PROVE Goal
      <3>1. /\ DOMAIN batch' = BatchFields /\ batch'.at = "aborted" /\ batch'.project = batch.project
            /\ batch'.file = batch.file /\ batch'.results = batch.results
            /\ batch'.undisturbed = batch.undisturbed /\ batch.at # "none"
        BY <1>1, <2>2, <2>5 DEF BatchRows, BatchFields, RowsLeft
      <3> QED
        BY <1>1, <3>1 DEF BatchRows, BatchSees, BatchCounts, PreviewIsHonoured
    <2> QED
      BY <2>2, <2>4, <2>5
  <1>12. ASSUME ImportAborts PROVE Goal
    <2>1. /\ DOMAIN batch' = BatchFields /\ batch'.at = "aborted" /\ batch'.project = batch.project
          /\ batch'.file = batch.file /\ batch'.results = batch.results
          /\ batch'.undisturbed = batch.undisturbed /\ batch.at # "none"
      BY <1>1, <1>12 DEF ImportAborts, BatchRows, BatchFields
    <2> QED
      BY <1>1, <2>1 DEF BatchRows, BatchSees, BatchCounts, PreviewIsHonoured
  <1>13. ASSUME ImportReports PROVE Goal
    <2>1. /\ DOMAIN batch' = BatchFields /\ batch'.at = "reported" /\ batch'.project = batch.project
          /\ batch'.file = batch.file /\ batch'.results = batch.results
          /\ batch'.undisturbed = batch.undisturbed /\ batch.at = "writing"
          /\ Len(batch.results) = Len(batch.file.rows)
      BY <1>1, <1>13 DEF ImportReports, BatchRows, BatchFields
    <2>2. PreviewIsHonoured'
      BY <1>1, <2>1 DEF PreviewIsHonoured, BatchCounts
    <2> QED
      BY <1>1, <2>1, <2>2 DEF BatchRows, BatchSees, BatchCounts
  <1>14. ASSUME OtherRequest PROVE Goal
    <2>1. ASSUME batch.at \in {"reading", "writing"} PROVE Goal
      <3>1. /\ DOMAIN batch' = BatchFields /\ batch'.at = batch.at /\ batch'.project = batch.project
            /\ batch'.file = batch.file /\ batch'.results = batch.results /\ batch'.seen = batch.seen
            /\ batch'.undisturbed = FALSE
        BY <1>1, <1>14, <2>1 DEF OtherRequest, BatchRows, BatchFields
      <3>2. \A i \in DOMAIN batch.file.rows : ValidRow(i)' <=> ValidRow(i)
        BY <3>1 DEF ValidRow
      <3>3. BatchRows' /\ PreviewIsHonoured'
        BY <1>1, <2>1, <3>1 DEF BatchRows, PreviewIsHonoured
      <3>4. BatchCounts'
        BY <1>1, <2>1, <3>1, <3>2 DEF BatchCounts
      <3>5. BatchSees'
        <4>1. DOMAIN Tables' = DOMAIN Tables
          BY DEF Tables
        <4> QED
          BY <1>1, <2>1, <3>1, <4>1 DEF BatchSees
      <3> QED
        BY <3>3, <3>4, <3>5
    <2>2. ASSUME batch.at \notin {"reading", "writing"} PROVE Goal
      <3>1. batch' = batch
        BY <1>14, <2>2 DEF OtherRequest
      <3> QED
        BY <1>1, <2>2, <3>1 DEF BatchRows, BatchSees, BatchCounts, PreviewIsHonoured
    <2> QED
      BY <2>1, <2>2
  <1>15. ASSUME UNCHANGED transferVars PROVE Goal
    <2>1. batch' = batch /\ Tables' = Tables /\ projects' = projects
      BY <1>4, <1>15 DEF transferVars
    <2>2. \A i : ValidRow(i)' <=> ValidRow(i)
      BY <2>1 DEF ValidRow
    <2>3. BatchRows' /\ PreviewIsHonoured'
      BY <1>1, <2>1 DEF BatchRows, PreviewIsHonoured
    <2> QED
      BY <1>1, <2>1, <2>2, <2>3 DEF BatchSees, BatchCounts, Active
  <1> QED
    BY <1>2, <1>5, <1>6, <1>7, <1>8, <1>9, <1>10, <1>11, <1>12, <1>13, <1>14, <1>15
    DEF TransferNext, ImportInv

-----------------------------------------------------------------------------
(* What has been executed stays as it was.                                 *)

KeepsPast ==
  /\ \A x \in Executions : executions[x].status \in {"completed", "cancelled"} =>
       executions'[x] = executions[x]
  /\ \A l \in Plans : ExecutionsOf(l) # {} =>
       test_plans'[l] # None /\ test_plans'[l].cases = test_plans[l].cases
  /\ snapshots \subseteq snapshots'

LEMMA ExecutedPlan ==
  ASSUME RecordsInv, NEW l \in Plans, ExecutionsOf(l) # {}
  PROVE  test_plans[l] \in PlanRecords /\ test_plans[l] # None /\ test_plans[l].status # "draft"
  <1>1. TestRows /\ ExecutionRefs /\ PlansRunOnce
    BY DEF RecordsInv
  <1>2. PICK x \in Executions : executions[x] # None /\ executions[x].plan = l
    BY DEF ExecutionsOf
  <1>3. test_plans[l].project \in Projects /\ test_plans[l].status # "draft"
    BY <1>1, <1>2, RowFacts, RecordsAreSome DEF ExecutionRefs, PlansRunOnce
  <1> QED
    BY <1>1, <1>3, RowFacts, RecordsAreSome

LEMMA OthersKeepPast ==
  ASSUME RecordsInv, UNCHANGED <<executions, test_plans>>, snapshots \subseteq snapshots'
  PROVE  KeepsPast
  BY ExecutedPlan DEF KeepsPast

LEMMA PlanStepKeepsPast ==
  ASSUME RecordsInv, PlanStep
  PROVE  KeepsPast
  <1>1. executions' = executions /\ snapshots' = snapshots
    BY DEF PlanStep, CreatePlan, UpdatePlan, PlanBecomesReady, PlanBecomesDraft, DeletePlan
  <1>2. DOMAIN test_plans = Plans
    BY DEF RecordsInv, TestRows
  <1>3. ASSUME NEW l \in Plans, ExecutionsOf(l) # {} PROVE test_plans'[l] = test_plans[l]
    <2>1. test_plans[l] # None /\ test_plans[l].status # "draft"
      BY <1>3, ExecutedPlan
    <2>2. PICK i \in Plans :
            \/ \E p \in Projects, cs \in SUBSET Cases : CreatePlan(i, p, cs)
            \/ \E cs \in SUBSET Cases : UpdatePlan(i, cs)
            \/ PlanBecomesReady(i)
            \/ PlanBecomesDraft(i)
            \/ DeletePlan(i)
      BY DEF PlanStep
    <2>3. i # l
      BY <1>3, <2>1, <2>2
      DEF CreatePlan, UpdatePlan, Editable, PlanBecomesReady, PlanBecomesDraft, DeletePlan
    <2> QED
      BY <1>2, <2>2, <2>3 DEF CreatePlan, UpdatePlan, PlanBecomesReady, PlanBecomesDraft, DeletePlan
  <1> QED
    BY <1>1, <1>3, ExecutedPlan DEF KeepsPast

LEMMA ExecutionStepKeepsPast ==
  ASSUME RecordsInv, ExecutionStep
  PROVE  KeepsPast
  <1>1. PICK x \in Executions :
          \/ \E l \in Plans : CreateExecution(x, l)
          \/ \E target \in {"running", "completed", "cancelled"} : TransitionExecution(x, target)
          \/ \E c \in Cases, status \in {"passed", "failed"} : UpdateCaseResult(x, c, status)
          \/ DeleteExecution(x)
    BY DEF ExecutionStep
  <1>2. TestRows /\ DOMAIN executions = Executions /\ DOMAIN test_plans = Plans
    BY DEF RecordsInv, TestRows
  <1>3. snapshots' = snapshots
    BY <1>1 DEF CreateExecution, TransitionExecution, UpdateCaseResult, DeleteExecution
  <1>4. executions[x].status \notin {"completed", "cancelled"}
    BY <1>1 DEF CreateExecution, TransitionExecution, ExecutionMoves, UpdateCaseResult, DeleteExecution, None
  <1>5. \A i \in Executions \ {x} : executions'[i] = executions[i]
    BY <1>1, <1>2 DEF CreateExecution, TransitionExecution, UpdateCaseResult, DeleteExecution
  <1>6. ASSUME NEW l \in Plans, ExecutionsOf(l) # {}
        PROVE  test_plans'[l] # None /\ test_plans'[l].cases = test_plans[l].cases
    <2>1. test_plans[l] \in PlanRecords /\ test_plans[l] # None
      BY <1>6, ExecutedPlan
    <2>2. CASE test_plans'[l] = test_plans[l]
      BY <2>1, <2>2
    <2>3. ASSUME NEW target \in {"running", "completed", "cancelled"}, TransitionExecution(x, target),
                 executions[x].plan = l
          PROVE  test_plans'[l] # None /\ test_plans'[l].cases = test_plans[l].cases
      <3>1. PICK row : row = [test_plans[l] EXCEPT !.status = target]
        OBVIOUS
      <3>2. row \in PlanRecords /\ row.cases = test_plans[l].cases
        BY <2>1, <3>1 DEF PlanRecords
      <3>3. test_plans' = [test_plans EXCEPT ![l] = row]
        BY <1>2, <2>3, <3>1 DEF TransitionExecution, PlanFollows
      <3> QED
        BY <1>2, <3>2, <3>3, RecordsAreSome
    <2> QED
      BY <1>1, <1>2, <2>2, <2>3
      DEF CreateExecution, TransitionExecution, PlanFollows, UpdateCaseResult, DeleteExecution
  <1> QED
    BY <1>3, <1>4, <1>5, <1>6 DEF KeepsPast

LEMMA NextKeepsPast ==
  ASSUME RecordsInv, [TransferNext]_transferVars
  PROVE  [KeepsPast]_testVars
  <1>1. CASE UNCHANGED testVars
    BY <1>1
  <1>2. CASE TestNext
    <2>1. CASE ProjectStep \/ SuiteStep \/ CaseStep \/ DefectStep
      <3>1. UNCHANGED <<executions, test_plans, snapshots>>
        BY <2>1
        DEF ProjectStep, CreateProject, TransitionProject, DeleteProject,
            SuiteStep, CreateSuite, UpdateSuite, TransitionSuite, DeleteSuite,
            CaseStep, CreateCase, UpdateCase, TransitionCase, DeleteCase,
            DefectStep, CreateDefect, UpdateDefect, TransitionDefect
      <3> QED
        BY <3>1, OthersKeepPast
    <2>2. CASE SnapshotStep
      BY <2>2, OthersKeepPast DEF SnapshotStep, CreateSnapshot
    <2> QED
      BY <1>2, <2>1, <2>2, PlanStepKeepsPast, ExecutionStepKeepsPast DEF TestNext
  <1>3. CASE \/ \E c \in Cases : ImportCreatesCase(c)
             \/ \E d \in Defects : ImportCreatesDefect(d)
             \/ ImportAborts
    <2>1. UNCHANGED <<executions, test_plans, snapshots>>
      BY <1>3 DEF ImportCreatesCase, CreateCase, ImportCreatesDefect, CreateDefect, ImportAborts
    <2> QED
      BY <2>1, OthersKeepPast
  <1> QED
    BY <1>1, <1>2, <1>3
    DEF TransferNext, transferVars, ImportBegins, ImportReads, ImportIsPrepared, ImportSkipsRow,
        ImportFailsRow, ImportReports, OtherRequest

-----------------------------------------------------------------------------
(* What an import and all other requests keep.                             *)

\* The invariant of an import, of which the two theorems below are part.
THEOREM ImportInvariant == TransferSpec => []ImportInv
  <1>1. TransferInit => ImportInv
    BY RecordsInvInit
    DEF TransferInit, ImportInv, BatchRows, BatchSees, BatchCounts, PreviewIsHonoured
  <1> QED
    BY <1>1, ImportInvStep, PTL DEF TransferSpec

\* The tables stay consistent under every operation of the services and every
\* row of an import, whatever ends between two of its writes.
THEOREM RecordsStayConsistent == TransferSpec => []RecordsAreConsistent
  <1>1. ImportInv => RecordsAreConsistent
    BY RecordsInvImplies DEF ImportInv
  <1> QED
    BY <1>1, ImportInvariant, PTL

\* A row that was found valid is only refused because of another request, and
\* the clean gate keeps every row out or none.
THEOREM ImportIsAsPreviewed == TransferSpec => []PreviewIsHonoured
  <1>1. ImportInv => PreviewIsHonoured
    BY DEF ImportInv
  <1> QED
    BY <1>1, ImportInvariant, PTL

\* No operation rewrites the results of an execution that ended, the cases of
\* a plan that has been executed, or a snapshot.
THEOREM PastStays == TransferSpec => PastIsKept
  <1>1. ImportInv /\ [TransferNext]_transferVars => [KeepsPast]_testVars
    BY NextKeepsPast DEF ImportInv
  <1> QED
    BY <1>1, ImportInvariant, PTL DEF TransferSpec, PastIsKept, KeepsPast

-----------------------------------------------------------------------------
(***************************************************************************)
(* The pipeline simulator.  A run is a tree of stages and jobs, and an     *)
(* operation makes another run of it.  First, what the parts of a run are. *)
(***************************************************************************)

GoodStage(stage, indices) ==
  /\ stage = [status |-> stage.status, jobs |-> stage.jobs]
  /\ stage.status \in RunStatuses
  /\ stage.jobs \in [indices -> RunStatuses]

StagesFit(stages, q) ==
  /\ stages = [i \in DOMAIN q.stages |-> stages[i]]
  /\ \A i \in DOMAIN q.stages : GoodStage(stages[i], DOMAIN q.stages[i])

GoodRun(run) ==
  /\ run = [status |-> run.status, request |-> run.request, events |-> run.events, stages |-> run.stages]
  /\ run.status \in RunStatuses
  /\ run.request \in PipelineRequests
  /\ run.events \in [EventIds -> RunCallbacks \cup {NoEvent}]
  /\ StagesFit(run.stages, run.request)

\* The run with another status and other stages.
Become(run, status, stages) ==
  [status |-> status, request |-> run.request, events |-> run.events, stages |-> stages]
WithStage(run, i, stage) ==
  [k \in DOMAIN run.request.stages |-> IF k = i THEN stage ELSE run.stages[k]]
WithJob(stage, j, status) ==
  [status |-> stage.status, jobs |-> [k \in DOMAIN stage.jobs |-> IF k = j THEN status ELSE stage.jobs[k]]]

LEMMA BecomesGood ==
  ASSUME NEW run, GoodRun(run), NEW status \in RunStatuses,
         NEW stages, StagesFit(stages, run.request)
  PROVE  /\ GoodRun(Become(run, status, stages))
         /\ Become(run, status, stages).status = status
         /\ Become(run, status, stages).stages = stages
         /\ Become(run, status, stages).request = run.request
         /\ Become(run, status, stages).events = run.events
  <1> DEFINE new == Become(run, status, stages)
  <1>1. /\ new.status = status /\ new.stages = stages
        /\ new.request = run.request /\ new.events = run.events
        /\ new = [status |-> new.status, request |-> new.request, events |-> new.events,
                  stages |-> new.stages]
    BY DEF Become
  <1> HIDE DEF new
  <1>2. GoodRun(new)
    BY <1>1 DEF GoodRun
  <1>3. QED
    BY <1>1, <1>2 DEF new

LEMMA WithStageFits ==
  ASSUME NEW run, GoodRun(run), NEW i \in DOMAIN run.request.stages,
         NEW stage, GoodStage(stage, DOMAIN run.request.stages[i])
  PROVE  /\ StagesFit(WithStage(run, i, stage), run.request)
         /\ WithStage(run, i, stage)[i] = stage
         /\ \A k \in DOMAIN run.request.stages \ {i} : WithStage(run, i, stage)[k] = run.stages[k]
         /\ DOMAIN WithStage(run, i, stage) = DOMAIN run.request.stages
  <1> DEFINE stages == WithStage(run, i, stage)
  <1>1. /\ stages[i] = stage
        /\ \A k \in DOMAIN run.request.stages \ {i} : stages[k] = run.stages[k]
        /\ stages = [k \in DOMAIN run.request.stages |-> stages[k]]
        /\ DOMAIN stages = DOMAIN run.request.stages
    BY DEF WithStage
  <1> HIDE DEF stages
  <1>2. StagesFit(stages, run.request)
    BY <1>1 DEF StagesFit, GoodRun
  <1>3. QED
    BY <1>1, <1>2 DEF stages

LEMMA StagesOfRun ==
  ASSUME NEW run, GoodRun(run)
  PROVE  /\ DOMAIN run.stages = DOMAIN run.request.stages
         /\ StagesFit(run.stages, run.request)
         /\ \A i \in DOMAIN run.request.stages :
              /\ GoodStage(run.stages[i], DOMAIN run.request.stages[i])
              /\ DOMAIN run.stages[i].jobs = DOMAIN run.request.stages[i]
              /\ run.stages[i].status \in RunStatuses
  BY DEF GoodRun, StagesFit, GoodStage

\* The operations on one stage, as what they make of the run.
LEMMA StageOperations ==
  ASSUME NEW run, GoodRun(run), NEW i \in DOMAIN run.request.stages
  PROVE  /\ \A s : [run EXCEPT !.stages[i].status = s]
                     = Become(run, run.status, WithStage(run, i, [status |-> s, jobs |-> run.stages[i].jobs]))
         /\ \A stage : [run EXCEPT !.stages[i] = stage] = Become(run, run.status, WithStage(run, i, stage))
         /\ \A j \in DOMAIN run.request.stages[i] : \A s :
              [run EXCEPT !.stages[i].jobs[j] = s]
                = Become(run, run.status, WithStage(run, i, WithJob(run.stages[i], j, s)))
         /\ \A s : [run EXCEPT !.status = s] = Become(run, s, run.stages)
  <1>1. /\ run = [status |-> run.status, request |-> run.request, events |-> run.events, stages |-> run.stages]
        /\ run.stages = [k \in DOMAIN run.request.stages |-> run.stages[k]]
        /\ run.stages[i] = [status |-> run.stages[i].status, jobs |-> run.stages[i].jobs]
        /\ run.stages[i].jobs = [k \in DOMAIN run.request.stages[i] |-> run.stages[i].jobs[k]]
    BY DEF GoodRun, StagesFit, GoodStage
  <1>2. \A stage : [run EXCEPT !.stages[i] = stage] = Become(run, run.status, WithStage(run, i, stage))
    BY <1>1 DEF Become, WithStage
  <1>3. \A s : [run EXCEPT !.stages[i].status = s]
                     = Become(run, run.status, WithStage(run, i, [status |-> s, jobs |-> run.stages[i].jobs]))
    BY <1>1 DEF Become, WithStage
  <1>4. \A j \in DOMAIN run.request.stages[i] : \A s :
              [run EXCEPT !.stages[i].jobs[j] = s]
                = Become(run, run.status, WithStage(run, i, WithJob(run.stages[i], j, s)))
    <2> TAKE j \in DOMAIN run.request.stages[i]
    <2> TAKE s
    <2>1. [run.stages[i] EXCEPT !.jobs[j] = s] = WithJob(run.stages[i], j, s)
      BY <1>1 DEF WithJob
    <2>2. [run EXCEPT !.stages[i].jobs[j] = s] = [run EXCEPT !.stages[i] = [run.stages[i] EXCEPT !.jobs[j] = s]]
      BY <1>1
    <2>3. QED
      BY <1>2, <2>1, <2>2
  <1>5. \A s : [run EXCEPT !.status = s] = Become(run, s, run.stages)
    BY <1>1 DEF Become
  <1>6. QED
    BY <1>2, <1>3, <1>4, <1>5

LEMMA SetJob ==
  ASSUME NEW run, GoodRun(run), NEW i \in DOMAIN run.request.stages,
         NEW j \in DOMAIN run.request.stages[i], NEW s
  PROVE  [run EXCEPT !.stages[i].jobs[j] = s]
           = Become(run, run.status, WithStage(run, i, WithJob(run.stages[i], j, s)))
  BY StageOperations

LEMMA SetStage ==
  ASSUME NEW run, GoodRun(run), NEW i \in DOMAIN run.request.stages, NEW stage
  PROVE  [run EXCEPT !.stages[i] = stage] = Become(run, run.status, WithStage(run, i, stage))
  BY StageOperations

LEMMA SetStageStatus ==
  ASSUME NEW run, GoodRun(run), NEW i \in DOMAIN run.request.stages, NEW s
  PROVE  [run EXCEPT !.stages[i].status = s]
           = Become(run, run.status, WithStage(run, i, [status |-> s, jobs |-> run.stages[i].jobs]))
  BY StageOperations

\* A stage takes another form.
LEMMA StageBecomes ==
  ASSUME NEW run, GoodRun(run), NEW i \in DOMAIN run.request.stages,
         NEW stage, GoodStage(stage, DOMAIN run.request.stages[i])
  PROVE  LET new == Become(run, run.status, WithStage(run, i, stage))
         IN  /\ GoodRun(new) /\ new.status = run.status
             /\ new.request = run.request /\ new.events = run.events
             /\ DOMAIN new.stages = DOMAIN run.request.stages /\ new.stages[i] = stage
             /\ \A k \in DOMAIN run.request.stages \ {i} : new.stages[k] = run.stages[k]
  <1>1. run.status \in RunStatuses
    BY DEF GoodRun
  <1>2. QED
    BY <1>1, BecomesGood, WithStageFits

-----------------------------------------------------------------------------
(***************************************************************************)
(* The tree.  TreeAgrees is not kept by every operation: that a job can be *)
(* started in a running stage needs that none of its jobs has failed.      *)
(***************************************************************************)
StageAgrees(stage) ==
  /\ stage.status = "succeeded" <=> \A j \in DOMAIN stage.jobs : stage.jobs[j] = "succeeded"
  /\ stage.status \in Ended => \A j \in DOMAIN stage.jobs : stage.jobs[j] \in Ended
  /\ stage.status = "queued" => \A j \in DOMAIN stage.jobs : stage.jobs[j] = "queued"
  /\ \A j \in DOMAIN stage.jobs :
       stage.jobs[j] \in {"failed", "cancelled"} => stage.status \in {"failed", "cancelled"}

RunAgrees(run) ==
  /\ run.status = "succeeded" <=> StagesSucceeded(run)
  /\ run.status \in Ended => \A i \in DOMAIN run.stages : run.stages[i].status \in Ended
  /\ run.status = "queued" => \A i \in DOMAIN run.stages : run.stages[i].status = "queued"
  /\ \A i \in DOMAIN run.stages :
       /\ StageAgrees(run.stages[i])
       /\ run.stages[i].status \in {"failed", "cancelled"} => run.status \in {"failed", "cancelled"}

Sound(run) == GoodRun(run) /\ RunAgrees(run)

\* What an operation may make of a run: it stays sound, an end stays, and
\* nothing that has begun is put back.
Grown(run, new) ==
  /\ Sound(new)
  /\ new.request = run.request /\ new.events = run.events
  /\ run.status \in Ended => new.status = run.status
  /\ \A i \in DOMAIN run.request.stages :
       run.stages[i].status # "queued" => new.stages[i].status # "queued"

LEMMA RequestHasStages ==
  ASSUME NEW q \in PipelineRequests
  PROVE  /\ Len(q.stages) \in Nat \ {0} /\ DOMAIN q.stages = 1..Len(q.stages)
         /\ \A i \in DOMAIN q.stages :
              Len(q.stages[i]) \in Nat \ {0} /\ DOMAIN q.stages[i] = 1..Len(q.stages[i])
  <1>1. q.stages \in Seq(Seq(BOOLEAN) \ {<<>>}) /\ q.stages # <<>>
    <2>1. q.stages \in Seq(Seq(BOOLEAN) \ {<<>>}) \ {<<>>}
      BY PipelineAssumption
    <2>2. QED
      BY <2>1
  <1>2. \A s \in Seq(BOOLEAN) : s # <<>> => Len(s) \in Nat \ {0} /\ DOMAIN s = 1..Len(s)
    OBVIOUS
  <1>3. \A i \in DOMAIN q.stages : q.stages[i] \in Seq(BOOLEAN) \ {<<>>}
    BY <1>1
  <1>4. Len(q.stages) \in Nat \ {0} /\ DOMAIN q.stages = 1..Len(q.stages)
    <2>1. ASSUME NEW S, NEW s \in Seq(S), s # <<>> PROVE Len(s) \in Nat \ {0} /\ DOMAIN s = 1..Len(s)
      BY <2>1
    <2>2. QED
      BY <1>1, <2>1
  <1>5. QED
    BY <1>2, <1>3, <1>4

LEMMA StartRunGrows ==
  ASSUME NEW run, Sound(run), run.status \in {"queued", "running"}
  PROVE  /\ StartRun(run) = Become(run, "running", run.stages)
         /\ Grown(run, StartRun(run)) /\ StartRun(run).status = "running"
         /\ StartRun(run).stages = run.stages
  <1>0. GoodRun(run) /\ RunAgrees(run)
    BY DEF Sound
  <1>1. PICK i \in DOMAIN run.request.stages : TRUE
    <2>1. run.request \in PipelineRequests
      BY <1>0 DEF GoodRun
    <2>2. Len(run.request.stages) \in Nat \ {0} /\ DOMAIN run.request.stages = 1..Len(run.request.stages)
      BY <2>1, RequestHasStages
    <2>3. 1 \in DOMAIN run.request.stages
      BY <2>2
    <2>4. QED
      BY <2>3
  <1>2. StartRun(run) = Become(run, "running", run.stages)
    BY <1>0, <1>1, StageOperations DEF StartRun, Started
  <1> DEFINE new == Become(run, "running", run.stages)
  <1>3. /\ GoodRun(new) /\ new.status = "running" /\ new.stages = run.stages
        /\ new.request = run.request /\ new.events = run.events
    BY <1>0, BecomesGood, StagesOfRun DEF RunStatuses
  <1> HIDE DEF new
  <1>4. RunAgrees(new)
    BY <1>0, <1>3 DEF RunAgrees, StagesSucceeded, Ended
  <1>5. Grown(run, new)
    BY <1>3, <1>4 DEF Grown, Sound, Ended
  <1>6. QED
    BY <1>2, <1>3, <1>5 DEF new

\* A stage of a running run takes another form and is not put back.
LEMMA StageGrows ==
  ASSUME NEW run, Sound(run), run.status = "running", NEW i \in DOMAIN run.request.stages,
         NEW stage, GoodStage(stage, DOMAIN run.request.stages[i]), StageAgrees(stage),
         stage.status = "running", run.stages[i].status \in {"queued", "running"}
  PROVE  LET new == Become(run, "running", WithStage(run, i, stage))
         IN  /\ Grown(run, new) /\ new.status = "running"
             /\ new.stages[i] = stage
             /\ \A k \in DOMAIN run.request.stages \ {i} : new.stages[k] = run.stages[k]
  <1> DEFINE stages == WithStage(run, i, stage)
             new == Become(run, "running", stages)
  <1>0. GoodRun(run) /\ RunAgrees(run)
    BY DEF Sound
  <1>1. /\ StagesFit(stages, run.request) /\ stages[i] = stage
        /\ \A k \in DOMAIN run.request.stages \ {i} : stages[k] = run.stages[k]
        /\ DOMAIN stages = DOMAIN run.request.stages
    BY <1>0, WithStageFits
  <1> HIDE DEF stages
  <1>2. /\ GoodRun(new) /\ new.status = "running" /\ new.stages = stages
        /\ new.request = run.request /\ new.events = run.events
    BY <1>0, <1>1, BecomesGood DEF RunStatuses
  <1>3. DOMAIN run.stages = DOMAIN run.request.stages
    BY <1>0, StagesOfRun
  <1> HIDE DEF new
  <1>4. RunAgrees(new)
    <2>1. ~StagesSucceeded(new)
      BY <1>1, <1>2 DEF StagesSucceeded
    <2>2. ASSUME NEW k \in DOMAIN new.stages
          PROVE  /\ StageAgrees(new.stages[k])
                 /\ new.stages[k].status \in {"failed", "cancelled"} => new.status \in {"failed", "cancelled"}
      <3>1. CASE k = i
        BY <1>1, <1>2, <3>1
      <3>2. CASE k # i
        BY <1>0, <1>1, <1>2, <1>3, <2>2, <3>2 DEF RunAgrees
      <3>3. QED
        BY <3>1, <3>2
    <2>3. QED
      BY <1>2, <2>1, <2>2 DEF RunAgrees, Ended
  <1>5. Grown(run, new)
    BY <1>1, <1>2, <1>4 DEF Grown, Sound, Ended
  <1>6. QED
    BY <1>1, <1>2, <1>5 DEF new, stages

LEMMA StartStageGrows ==
  ASSUME NEW run, Sound(run), run.status = "running", NEW i \in DOMAIN run.request.stages,
         run.stages[i].status \in {"queued", "running"}
  PROVE  /\ Grown(run, StartStage(run, i)) /\ StartStage(run, i).status = "running"
         /\ StartStage(run, i).stages[i] = [status |-> "running", jobs |-> run.stages[i].jobs]
         /\ \A k \in DOMAIN run.request.stages \ {i} : StartStage(run, i).stages[k] = run.stages[k]
  <1> DEFINE stage == [status |-> "running", jobs |-> run.stages[i].jobs]
  <1>0. GoodRun(run) /\ RunAgrees(run)
    BY DEF Sound
  <1>1. StartStage(run, i) = Become(run, "running", WithStage(run, i, stage))
    BY <1>0, StageOperations DEF StartStage, Started
  <1>2. GoodStage(run.stages[i], DOMAIN run.request.stages[i]) /\ StageAgrees(run.stages[i])
    BY <1>0, StagesOfRun DEF RunAgrees
  <1>3. stage.status = "running" /\ stage.jobs = run.stages[i].jobs
    OBVIOUS
  <1>4. GoodStage(stage, DOMAIN run.request.stages[i])
    BY <1>2 DEF GoodStage, RunStatuses
  <1>5. StageAgrees(stage)
    <2> HIDE DEF stage
    <2>1. QED
      BY <1>2, <1>3 DEF StageAgrees, Ended
  <1> HIDE DEF stage
  <1>6. QED
    BY <1>1, <1>3, <1>4, <1>5, StageGrows DEF stage

LEMMA WithJobIsGood ==
  ASSUME NEW stage, NEW indices, GoodStage(stage, indices), NEW j \in indices, NEW status \in RunStatuses
  PROVE  /\ GoodStage(WithJob(stage, j, status), indices)
         /\ WithJob(stage, j, status).status = stage.status
         /\ DOMAIN WithJob(stage, j, status).jobs = indices
         /\ WithJob(stage, j, status).jobs[j] = status
         /\ \A k \in indices \ {j} : WithJob(stage, j, status).jobs[k] = stage.jobs[k]
  <1> DEFINE new == WithJob(stage, j, status)
  <1>1. /\ new.status = stage.status
        /\ new.jobs = [k \in DOMAIN stage.jobs |-> IF k = j THEN status ELSE stage.jobs[k]]
        /\ new = [status |-> new.status, jobs |-> new.jobs]
    BY DEF WithJob
  <1>2. DOMAIN stage.jobs = indices /\ stage.jobs \in [indices -> RunStatuses] /\ stage.status \in RunStatuses
    BY DEF GoodStage
  <1> HIDE DEF new
  <1>3. /\ new.jobs \in [indices -> RunStatuses]
        /\ new.jobs[j] = status /\ \A k \in indices \ {j} : new.jobs[k] = stage.jobs[k]
    BY <1>1, <1>2
  <1>4. GoodStage(new, indices)
    BY <1>1, <1>2, <1>3 DEF GoodStage
  <1>5. QED
    BY <1>1, <1>2, <1>3, <1>4 DEF new

LEMMA StartJobGrows ==
  ASSUME NEW run, Sound(run), run.status = "running", NEW i \in DOMAIN run.request.stages,
         run.stages[i].status = "running", NEW j \in DOMAIN run.request.stages[i],
         run.stages[i].jobs[j] \in {"queued", "running"}
  PROVE  /\ Grown(run, StartJob(run, i, j)) /\ StartJob(run, i, j).status = "running"
         /\ StartJob(run, i, j).stages[i] = WithJob(run.stages[i], j, "running")
         /\ \A k \in DOMAIN run.request.stages \ {i} : StartJob(run, i, j).stages[k] = run.stages[k]
  <1> DEFINE stage == WithJob(run.stages[i], j, "running")
  <1>0. GoodRun(run) /\ RunAgrees(run)
    BY DEF Sound
  <1>1. StartJob(run, i, j) = Become(run, "running", WithStage(run, i, stage))
    BY <1>0, SetJob DEF StartJob, Started
  <1>2. GoodStage(run.stages[i], DOMAIN run.request.stages[i]) /\ StageAgrees(run.stages[i])
        /\ DOMAIN run.stages[i].jobs = DOMAIN run.request.stages[i]
    BY <1>0, StagesOfRun DEF RunAgrees
  <1>3. /\ GoodStage(stage, DOMAIN run.request.stages[i]) /\ stage.status = "running"
        /\ DOMAIN stage.jobs = DOMAIN run.request.stages[i] /\ stage.jobs[j] = "running"
        /\ \A k \in DOMAIN run.request.stages[i] \ {j} : stage.jobs[k] = run.stages[i].jobs[k]
    BY <1>2, WithJobIsGood DEF RunStatuses
  <1> HIDE DEF stage
  <1>4. StageAgrees(stage)
    BY <1>2, <1>3 DEF StageAgrees, Ended
  <1>5. QED
    BY <1>1, <1>3, <1>4, StageGrows DEF stage

\* _aggregate has nothing to add to a sound run.
LEMMA AggregateSame ==
  ASSUME NEW run, Sound(run), NEW i \in DOMAIN run.request.stages
  PROVE  Aggregate(run, i) = run /\ AggregateRun(run) = run
         /\ (JobsSucceeded(run, i) => FinishStage(run, i, "succeeded") = run)
  <1>0. GoodRun(run) /\ RunAgrees(run)
    BY DEF Sound
  <1>1. /\ run = [status |-> run.status, request |-> run.request, events |-> run.events, stages |-> run.stages]
        /\ run.stages = [k \in DOMAIN run.request.stages |-> run.stages[k]]
        /\ run.stages[i] = [status |-> run.stages[i].status, jobs |-> run.stages[i].jobs]
    BY <1>0 DEF GoodRun, StagesFit, GoodStage
  <1>2. [run EXCEPT !.status = run.status] = run
    BY <1>1
  <1>3. [run EXCEPT !.stages[i].status = run.stages[i].status] = run
    BY <1>1
  <1>4. AggregateRun(run) = run
    <2>1. CASE StagesSucceeded(run)
      <3>1. run.status = "succeeded"
        BY <1>0, <2>1 DEF RunAgrees
      <3>2. QED
        BY <3>1, <1>2, <2>1 DEF AggregateRun, Finished
    <2>2. CASE ~StagesSucceeded(run)
      BY <2>2 DEF AggregateRun
    <2>3. QED
      BY <2>1, <2>2
  <1>5. ASSUME JobsSucceeded(run, i) PROVE FinishStage(run, i, "succeeded") = run
    <2>1. i \in DOMAIN run.stages
      BY <1>0, StagesOfRun
    <2>2. run.stages[i].status = "succeeded"
      BY <1>0, <1>5, <2>1 DEF RunAgrees, StageAgrees, JobsSucceeded
    <2>3. QED
      BY <2>2, <1>3 DEF FinishStage, Finished
  <1>6. AggregateStage(run, i) = run
    BY <1>5 DEF AggregateStage
  <1>7. QED
    BY <1>4, <1>5, <1>6 DEF Aggregate

LEMMA JobSucceeds ==
  ASSUME NEW run, Sound(run), run.status = "running", NEW i \in DOMAIN run.request.stages,
         run.stages[i].status = "running", NEW j \in DOMAIN run.request.stages[i],
         run.stages[i].jobs[j] \in {"queued", "running", "succeeded"}
  PROVE  LET new == Aggregate(FinishJob(run, i, j, "succeeded"), i)
         IN  /\ Grown(run, new) /\ new.status \in {"running", "succeeded"}
             /\ new.stages[i].jobs = WithJob(run.stages[i], j, "succeeded").jobs
             /\ new.stages[i].status \in {"running", "succeeded"}
             /\ \A k \in DOMAIN run.request.stages \ {i} : new.stages[k] = run.stages[k]
  <1> DEFINE stage == WithJob(run.stages[i], j, "succeeded")
             mid == Become(run, "running", WithStage(run, i, stage))
             ended == [status |-> "succeeded", jobs |-> stage.jobs]
  <1>0. GoodRun(run) /\ RunAgrees(run) /\ DOMAIN run.stages = DOMAIN run.request.stages
    BY StagesOfRun DEF Sound
  <1>1. FinishJob(run, i, j, "succeeded") = mid
    <2>1. Finished(run.stages[i].jobs[j], "succeeded") = "succeeded"
      BY DEF Finished
    <2>2. FinishJob(run, i, j, "succeeded") = [run EXCEPT !.stages[i].jobs[j] = "succeeded"]
      BY <2>1 DEF FinishJob
    <2>3. [run EXCEPT !.stages[i].jobs[j] = "succeeded"]
            = Become(run, run.status, WithStage(run, i, WithJob(run.stages[i], j, "succeeded")))
      BY <1>0, SetJob
    <2>4. QED
      BY <2>2, <2>3
  <1>2. GoodStage(run.stages[i], DOMAIN run.request.stages[i]) /\ StageAgrees(run.stages[i])
        /\ DOMAIN run.stages[i].jobs = DOMAIN run.request.stages[i]
    BY <1>0, StagesOfRun DEF RunAgrees
  <1>3. /\ GoodStage(stage, DOMAIN run.request.stages[i]) /\ stage.status = "running"
        /\ DOMAIN stage.jobs = DOMAIN run.request.stages[i] /\ stage.jobs[j] = "succeeded"
        /\ \A k \in DOMAIN run.request.stages[i] \ {j} : stage.jobs[k] = run.stages[i].jobs[k]
    <2>1. "succeeded" \in RunStatuses
      BY DEF RunStatuses, Ended
    <2>2. QED
      BY <1>2, <2>1, WithJobIsGood
  <1> HIDE DEF stage
  <1>4. /\ GoodRun(mid) /\ mid.status = "running" /\ mid.request = run.request /\ mid.events = run.events
        /\ mid.stages[i] = stage /\ DOMAIN mid.stages = DOMAIN run.request.stages
        /\ \A k \in DOMAIN run.request.stages \ {i} : mid.stages[k] = run.stages[k]
    BY <1>0, <1>3, BecomesGood, WithStageFits DEF RunStatuses
  <1> HIDE DEF mid
  <1>5. CASE ~JobsSucceeded(mid, i)
    <2>1. StageAgrees(stage)
      BY <1>2, <1>3, <1>4, <1>5 DEF StageAgrees, Ended, JobsSucceeded
    <2>2. Grown(run, mid)
      BY <1>3, <2>1, StageGrows DEF mid
    <2>3. Aggregate(mid, i) = mid
      BY <1>3, <1>4, <1>5 DEF Aggregate, AggregateStage, AggregateRun, StagesSucceeded
    <2>4. QED
      BY <1>1, <1>3, <1>4, <2>2, <2>3 DEF stage
  <1>6. CASE JobsSucceeded(mid, i)
    <2> DEFINE closed_stage == Become(mid, "running", WithStage(mid, i, ended))
    <2>1. /\ ended.status = "succeeded" /\ ended.jobs = stage.jobs
          /\ GoodStage(ended, DOMAIN run.request.stages[i])
      BY <1>3 DEF GoodStage, RunStatuses
    <2>2. StageAgrees(ended)
      <3> HIDE DEF ended
      <3>1. QED
        BY <1>4, <1>6, <2>1 DEF StageAgrees, Ended, JobsSucceeded
    <2>3. AggregateStage(mid, i) = closed_stage
      BY <1>3, <1>4, <1>6, StageOperations DEF AggregateStage, FinishStage, Finished
    <2> HIDE DEF ended
    <2>4. /\ GoodRun(closed_stage) /\ closed_stage.status = "running" /\ closed_stage.request = run.request
          /\ closed_stage.events = run.events
          /\ closed_stage.stages[i] = ended /\ DOMAIN closed_stage.stages = DOMAIN run.request.stages
          /\ \A k \in DOMAIN run.request.stages \ {i} : closed_stage.stages[k] = run.stages[k]
      BY <1>4, <2>1, BecomesGood, WithStageFits DEF RunStatuses
    <2> HIDE DEF closed_stage
    <2>5. \A k \in DOMAIN run.request.stages :
            /\ StageAgrees(closed_stage.stages[k])
            /\ closed_stage.stages[k].status \notin {"failed", "cancelled"}
      BY <1>0, <2>1, <2>2, <2>4 DEF RunAgrees
    <2>6. CASE ~StagesSucceeded(closed_stage)
      <3>1. RunAgrees(closed_stage)
        BY <2>4, <2>5, <2>6 DEF RunAgrees, Ended
      <3>2. Grown(run, closed_stage)
        BY <2>1, <2>4, <3>1 DEF Grown, Sound, Ended
      <3>3. Aggregate(mid, i) = closed_stage
        BY <2>3, <2>6 DEF Aggregate, AggregateRun
      <3>4. QED
        BY <1>1, <2>1, <2>4, <3>2, <3>3 DEF stage
    <2>7. CASE StagesSucceeded(closed_stage)
      <3> DEFINE new == Become(closed_stage, "succeeded", closed_stage.stages)
      <3>1. Aggregate(mid, i) = new
        <4>1. Aggregate(mid, i) = [closed_stage EXCEPT !.status = Finished(closed_stage.status, "succeeded")]
          BY <2>3, <2>7 DEF Aggregate, AggregateRun
        <4>2. Finished(closed_stage.status, "succeeded") = "succeeded"
          BY <2>4 DEF Finished
        <4>3. QED
          BY <2>4, <4>1, <4>2, StageOperations
      <3>2. /\ GoodRun(new) /\ new.status = "succeeded" /\ new.stages = closed_stage.stages
            /\ new.request = run.request /\ new.events = run.events
        BY <2>4, BecomesGood, StagesOfRun DEF RunStatuses, Ended
      <3> HIDE DEF new
      <3>3. RunAgrees(new)
        BY <2>4, <2>5, <2>7, <3>2 DEF RunAgrees, Ended, StagesSucceeded
      <3>4. Grown(run, new)
        BY <2>1, <2>4, <3>2, <3>3 DEF Grown, Sound, Ended
      <3>5. QED
        BY <1>1, <2>1, <2>4, <3>1, <3>2, <3>4 DEF stage
    <2>8. QED
      BY <2>6, <2>7
  <1>7. QED
    BY <1>5, <1>6

-----------------------------------------------------------------------------
(* Ends.                                                                   *)

LEMMA CancelledStage ==
  ASSUME NEW stage, NEW indices, GoodStage(stage, indices)
  PROVE  /\ GoodStage(CancelJobs(stage), indices) /\ CancelJobs(stage).status = stage.status
         /\ GoodStage(CancelStage(stage), indices)
         /\ CancelStage(stage).status = IF stage.status \in Ended THEN stage.status ELSE "cancelled"
         /\ \A j \in indices :
              /\ CancelJobs(stage).jobs[j] = IF stage.jobs[j] \in Ended THEN stage.jobs[j] ELSE "cancelled"
              /\ CancelStage(stage).jobs[j] = CancelJobs(stage).jobs[j]
  <1>1. /\ stage = [status |-> stage.status, jobs |-> stage.jobs]
        /\ DOMAIN stage.jobs = indices /\ stage.jobs \in [indices -> RunStatuses] /\ stage.status \in RunStatuses
    BY DEF GoodStage
  <1>2. "cancelled" \in RunStatuses /\ Ended \subseteq RunStatuses
    BY DEF RunStatuses, Ended
  <1> DEFINE ended == [j \in indices |-> IF stage.jobs[j] \in Ended THEN stage.jobs[j] ELSE "cancelled"]
             s == IF stage.status \in Ended THEN stage.status ELSE "cancelled"
  <1>3. CancelJobs(stage) = [status |-> stage.status, jobs |-> ended]
    BY <1>1 DEF CancelJobs
  <1>4. CancelStage(stage) = [status |-> s, jobs |-> ended]
    BY <1>3 DEF CancelStage
  <1>5. ended \in [indices -> RunStatuses] /\ s \in RunStatuses
    BY <1>1, <1>2
  <1>6. \A j \in indices : ended[j] = IF stage.jobs[j] \in Ended THEN stage.jobs[j] ELSE "cancelled"
    OBVIOUS
  <1> HIDE DEF ended
  <1>7. /\ CancelJobs(stage).status = stage.status /\ CancelJobs(stage).jobs = ended
        /\ CancelStage(stage).status = s /\ CancelStage(stage).jobs = ended
    BY <1>3, <1>4
  <1>8. GoodStage(CancelJobs(stage), indices) /\ GoodStage(CancelStage(stage), indices)
    BY <1>1, <1>3, <1>4, <1>5, <1>7 DEF GoodStage
  <1>9. QED
    BY <1>6, <1>7, <1>8

LEMMA JobAfterCancel ==
  ASSUME NEW stage, NEW indices, GoodStage(stage, indices), NEW j \in indices
  PROVE  CancelJobs(stage).jobs[j] = IF stage.jobs[j] \in Ended THEN stage.jobs[j] ELSE "cancelled"
  BY CancelledStage

LEMMA CancelledStageAgrees ==
  ASSUME NEW stage, NEW indices, GoodStage(stage, indices), StageAgrees(stage)
  PROVE  /\ StageAgrees(CancelStage(stage)) /\ CancelStage(stage).status \in Ended
         /\ CancelStage(stage).status = "succeeded" => stage.status = "succeeded"
  <1> DEFINE new == CancelStage(stage)
  <1>1. /\ new.status = IF stage.status \in Ended THEN stage.status ELSE "cancelled"
        /\ DOMAIN new.jobs = indices /\ DOMAIN stage.jobs = indices
        /\ \A j \in indices : new.jobs[j] = IF stage.jobs[j] \in Ended THEN stage.jobs[j] ELSE "cancelled"
    <2>1. GoodStage(new, indices)
      BY CancelledStage
    <2>2. DOMAIN new.jobs = indices /\ DOMAIN stage.jobs = indices
      BY <2>1 DEF GoodStage
    <2>3. new.status = IF stage.status \in Ended THEN stage.status ELSE "cancelled"
      BY CancelledStage
    <2>4. ASSUME NEW j \in indices
          PROVE  new.jobs[j] = IF stage.jobs[j] \in Ended THEN stage.jobs[j] ELSE "cancelled"
      BY CancelledStage
    <2>5. QED
      BY <2>2, <2>3, <2>4
  <1> HIDE DEF new
  <1>2. CASE stage.status \in Ended
    <2>1. \A j \in indices : new.jobs[j] = stage.jobs[j]
      BY <1>1, <1>2 DEF StageAgrees
    <2>2. QED
      BY <1>1, <1>2, <2>1 DEF StageAgrees, new
  <1>3. CASE stage.status \notin Ended
    <2>1. new.status = "cancelled"
      BY <1>1, <1>3
    <2>2. PICK j \in indices : stage.jobs[j] # "succeeded"
      BY <1>1, <1>3 DEF StageAgrees, Ended
    <2>3. new.jobs[j] # "succeeded" /\ \A k \in indices : new.jobs[k] \in Ended
      BY <1>1, <2>2 DEF Ended
    <2>4. StageAgrees(new)
      BY <1>1, <2>1, <2>2, <2>3 DEF StageAgrees, Ended
    <2>5. QED
      BY <2>1, <2>4 DEF new, Ended
  <1>4. QED
    BY <1>2, <1>3

LEMMA EndRunEnds ==
  ASSUME NEW run, GoodRun(run), NEW new \in {"failed", "cancelled"},
         run.status \in {"queued", "running", new},
         \A i \in DOMAIN run.request.stages : StageAgrees(run.stages[i]),
         ~StagesSucceeded(run)
  PROVE  /\ Sound(EndRun(run, new)) /\ EndRun(run, new).status = new
         /\ EndRun(run, new).request = run.request /\ EndRun(run, new).events = run.events
  <1> DEFINE stages == [i \in DOMAIN run.request.stages |-> CancelStage(run.stages[i])]
             ended == Become(run, new, stages)
  <1>1. /\ run = [status |-> run.status, request |-> run.request, events |-> run.events, stages |-> run.stages]
        /\ DOMAIN run.stages = DOMAIN run.request.stages
    BY StagesOfRun DEF GoodRun
  <1>2. EndRun(run, new) = ended
    <2>1. Finished(run.status, new) = new
      BY DEF Finished
    <2>2. [run EXCEPT !.status = new]
            = [status |-> new, request |-> run.request, events |-> run.events, stages |-> run.stages]
      BY <1>1
    <2> DEFINE base == [status |-> new, request |-> run.request, events |-> run.events, stages |-> run.stages]
    <2>3. EndRun(run, new) = CancelChildren(base)
      BY <2>1, <2>2 DEF EndRun
    <2>4. base.stages = run.stages /\ \A x : [base EXCEPT !.stages = x] = Become(run, new, x)
      BY DEF Become
    <2> HIDE DEF base
    <2>5. CancelChildren(base) = [base EXCEPT !.stages = stages]
      BY <1>1, <2>4 DEF CancelChildren
    <2>6. QED
      BY <2>3, <2>4, <2>5
  <1>3. \A i \in DOMAIN run.request.stages :
          /\ GoodStage(CancelStage(run.stages[i]), DOMAIN run.request.stages[i])
          /\ StageAgrees(CancelStage(run.stages[i])) /\ CancelStage(run.stages[i]).status \in Ended
          /\ CancelStage(run.stages[i]).status = "succeeded" => run.stages[i].status = "succeeded"
    BY StagesOfRun, CancelledStage, CancelledStageAgrees
  <1>4. \A i \in DOMAIN run.request.stages : stages[i] = CancelStage(run.stages[i])
    OBVIOUS
  <1>5. DOMAIN stages = DOMAIN run.request.stages /\ stages = [i \in DOMAIN run.request.stages |-> stages[i]]
    OBVIOUS
  <1> HIDE DEF stages
  <1>6. StagesFit(stages, run.request)
    BY <1>3, <1>4, <1>5 DEF StagesFit
  <1>7. new \in RunStatuses
    BY DEF RunStatuses, Ended
  <1>8. /\ GoodRun(ended) /\ ended.status = new /\ ended.stages = stages
        /\ ended.request = run.request /\ ended.events = run.events
    BY <1>6, <1>7, BecomesGood
  <1> HIDE DEF ended
  <1>9. RunAgrees(ended)
    <2>1. ~StagesSucceeded(ended)
      BY <1>1, <1>3, <1>4, <1>5, <1>8 DEF StagesSucceeded
    <2>2. QED
      BY <1>3, <1>4, <1>5, <1>8, <2>1 DEF RunAgrees, Ended
  <1>10. QED
    BY <1>2, <1>8, <1>9 DEF Sound

LEMMA EndGrows ==
  ASSUME NEW run, NEW new, NEW status \in {"failed", "cancelled"}, GoodRun(run),
         run.status \in {"queued", "running", status},
         Sound(new), new.status = status, new.request = run.request, new.events = run.events
  PROVE  Grown(run, new)
  <1>1. \A i \in DOMAIN run.request.stages : new.stages[i].status \in Ended
    BY StagesOfRun DEF Sound, RunAgrees, Ended
  <1>2. QED
    BY <1>1 DEF Grown, Ended

LEMMA EndRunGrows ==
  ASSUME NEW run, Sound(run), NEW new \in {"failed", "cancelled"},
         run.status \in {"queued", "running", new}
  PROVE  Grown(run, EndRun(run, new)) /\ EndRun(run, new).status = new
  <1>1. /\ GoodRun(run) /\ ~StagesSucceeded(run)
        /\ \A i \in DOMAIN run.request.stages : StageAgrees(run.stages[i])
    BY StagesOfRun DEF Sound, RunAgrees
  <1>2. /\ Sound(EndRun(run, new)) /\ EndRun(run, new).status = new
        /\ EndRun(run, new).request = run.request /\ EndRun(run, new).events = run.events
    BY <1>1, EndRunEnds
  <1>3. QED
    BY <1>1, <1>2, EndGrows

LEMMA EndFromStageEnds ==
  ASSUME NEW run, GoodRun(run), run.status \in {"queued", "running"},
         NEW i \in DOMAIN run.request.stages, run.stages[i].status \in {"queued", "running"},
         NEW j \in DOMAIN run.request.stages[i], run.stages[i].jobs[j] # "succeeded",
         \A k \in DOMAIN run.request.stages \ {i} : StageAgrees(run.stages[k]),
         NEW new \in {"failed", "cancelled"}
  PROVE  /\ Sound(EndFromStage(run, i, new)) /\ EndFromStage(run, i, new).status = new
         /\ EndFromStage(run, i, new).request = run.request
         /\ EndFromStage(run, i, new).events = run.events
  <1> DEFINE stage == [status |-> new, jobs |-> run.stages[i].jobs]
             ended == Become(run, run.status, WithStage(run, i, stage))
             closed_stage == CancelJobs(stage)
             base == Become(ended, ended.status, WithStage(ended, i, closed_stage))
  <1>1. FinishStage(run, i, new) = ended
    <2>1. Finished(run.stages[i].status, new) = new
      BY DEF Finished
    <2>2. FinishStage(run, i, new) = [run EXCEPT !.stages[i].status = new]
      BY <2>1 DEF FinishStage
    <2>3. QED
      BY <2>2, SetStageStatus
  <1>2. GoodStage(stage, DOMAIN run.request.stages[i]) /\ stage.status = new
        /\ stage.jobs = run.stages[i].jobs
    <2>1. GoodStage(run.stages[i], DOMAIN run.request.stages[i])
      BY StagesOfRun
    <2>2. stage.status = new /\ stage.jobs = run.stages[i].jobs
      OBVIOUS
    <2>3. QED
      BY <2>1, <2>2 DEF GoodStage, RunStatuses, Ended
  <1> HIDE DEF stage
  <1>3. /\ GoodStage(closed_stage, DOMAIN run.request.stages[i]) /\ closed_stage.status = new
        /\ \A k \in DOMAIN run.request.stages[i] :
             closed_stage.jobs[k]
               = IF run.stages[i].jobs[k] \in Ended THEN run.stages[i].jobs[k] ELSE "cancelled"
    <2>1. /\ GoodStage(closed_stage, DOMAIN run.request.stages[i]) /\ closed_stage.status = stage.status
          /\ \A k \in DOMAIN run.request.stages[i] :
               closed_stage.jobs[k] = IF stage.jobs[k] \in Ended THEN stage.jobs[k] ELSE "cancelled"
      <3>1. GoodStage(closed_stage, DOMAIN run.request.stages[i]) /\ closed_stage.status = stage.status
        BY <1>2, CancelledStage
      <3>2. ASSUME NEW k \in DOMAIN run.request.stages[i]
            PROVE  closed_stage.jobs[k] = IF stage.jobs[k] \in Ended THEN stage.jobs[k] ELSE "cancelled"
        BY <1>2, JobAfterCancel
      <3>3. QED
        BY <3>1, <3>2
    <2> HIDE DEF closed_stage
    <2>2. QED
      BY <1>2, <2>1
  <1>4. /\ GoodRun(ended) /\ ended.status = run.status
        /\ ended.request = run.request /\ ended.events = run.events
        /\ ended.stages[i] = stage
        /\ \A k \in DOMAIN run.request.stages \ {i} : ended.stages[k] = run.stages[k]
    BY <1>2, StageBecomes
  <1> HIDE DEF ended, closed_stage
  <1>5. [ended EXCEPT !.stages[i] = CancelJobs(@)] = base
    <2>1. [ended EXCEPT !.stages[i] = CancelJobs(@)] = [ended EXCEPT !.stages[i] = closed_stage]
      BY <1>4 DEF closed_stage
    <2>2. QED
      BY <2>1, <1>4, SetStage
  <1>6. /\ GoodRun(base) /\ base.status = run.status
        /\ base.request = run.request /\ base.events = run.events
        /\ DOMAIN base.stages = DOMAIN run.request.stages
        /\ base.stages[i] = closed_stage
        /\ \A k \in DOMAIN run.request.stages \ {i} : base.stages[k] = run.stages[k]
    BY <1>3, <1>4, StageBecomes
  <1> HIDE DEF base
  <1>7. StageAgrees(closed_stage)
    <2>1. DOMAIN closed_stage.jobs = DOMAIN run.request.stages[i]
      BY <1>3 DEF GoodStage
    <2>2. closed_stage.jobs[j] # "succeeded" /\ \A k \in DOMAIN run.request.stages[i] : closed_stage.jobs[k] \in Ended
      BY <1>3 DEF Ended
    <2>3. QED
      BY <1>3, <2>1, <2>2 DEF StageAgrees, Ended
  <1>8. ~StagesSucceeded(base) /\ \A k \in DOMAIN run.request.stages : StageAgrees(base.stages[k])
    BY <1>3, <1>6, <1>7 DEF StagesSucceeded
  <1>9. EndFromStage(run, i, new) = EndRun(base, new)
    BY <1>1, <1>5 DEF EndFromStage
  <1>10. QED
    BY <1>6, <1>8, <1>9, EndRunEnds

LEMMA EndFromStageGrows ==
  ASSUME NEW run, Sound(run), run.status \in {"queued", "running"},
         NEW i \in DOMAIN run.request.stages, run.stages[i].status \in {"queued", "running"},
         NEW new \in {"failed", "cancelled"}
  PROVE  Grown(run, EndFromStage(run, i, new)) /\ EndFromStage(run, i, new).status = new
  <1>1. /\ GoodRun(run) /\ DOMAIN run.stages[i].jobs = DOMAIN run.request.stages[i]
        /\ \A k \in DOMAIN run.request.stages : StageAgrees(run.stages[k])
    BY StagesOfRun DEF Sound, RunAgrees
  <1>2. PICK j \in DOMAIN run.request.stages[i] : run.stages[i].jobs[j] # "succeeded"
    BY <1>1 DEF StageAgrees
  <1>3. /\ Sound(EndFromStage(run, i, new)) /\ EndFromStage(run, i, new).status = new
        /\ EndFromStage(run, i, new).request = run.request
        /\ EndFromStage(run, i, new).events = run.events
    BY <1>1, <1>2, EndFromStageEnds
  <1>4. QED
    BY <1>1, <1>3, EndGrows

LEMMA EndFromJobGrows ==
  ASSUME NEW run, Sound(run), run.status \in {"queued", "running"},
         NEW i \in DOMAIN run.request.stages, run.stages[i].status \in {"queued", "running"},
         NEW new \in {"failed", "cancelled"},
         NEW j \in DOMAIN run.request.stages[i], run.stages[i].jobs[j] \in {"queued", "running", new}
  PROVE  Grown(run, EndFromJob(run, i, j, new)) /\ EndFromJob(run, i, j, new).status = new
  <1> DEFINE stage == WithJob(run.stages[i], j, new)
             mid == Become(run, run.status, WithStage(run, i, stage))
  <1>1. /\ GoodRun(run) /\ GoodStage(run.stages[i], DOMAIN run.request.stages[i])
        /\ \A k \in DOMAIN run.request.stages : StageAgrees(run.stages[k])
    BY StagesOfRun DEF Sound, RunAgrees
  <1>2. FinishJob(run, i, j, new) = mid
    <2>1. Finished(run.stages[i].jobs[j], new) = new
      BY DEF Finished
    <2>2. FinishJob(run, i, j, new) = [run EXCEPT !.stages[i].jobs[j] = new]
      BY <2>1 DEF FinishJob
    <2>3. QED
      BY <1>1, <2>2, SetJob
  <1>3. /\ GoodStage(stage, DOMAIN run.request.stages[i]) /\ stage.status = run.stages[i].status
        /\ stage.jobs[j] = new
    <2>1. new \in RunStatuses
      BY DEF RunStatuses, Ended
    <2>2. QED
      BY <1>1, <2>1, WithJobIsGood
  <1> HIDE DEF stage
  <1>4. /\ GoodRun(mid) /\ mid.status = run.status
        /\ mid.request = run.request /\ mid.events = run.events
        /\ mid.stages[i] = stage
        /\ \A k \in DOMAIN run.request.stages \ {i} : mid.stages[k] = run.stages[k]
    BY <1>1, <1>3, StageBecomes
  <1> HIDE DEF mid
  <1>5. /\ Sound(EndFromStage(mid, i, new)) /\ EndFromStage(mid, i, new).status = new
        /\ EndFromStage(mid, i, new).request = run.request
        /\ EndFromStage(mid, i, new).events = run.events
    BY <1>1, <1>3, <1>4, EndFromStageEnds
  <1>6. QED
    BY <1>1, <1>2, <1>5, EndGrows DEF EndFromJob

-----------------------------------------------------------------------------
(* Callbacks.                                                              *)

LEMMA GrownFromSelf == ASSUME NEW run, Sound(run) PROVE Grown(run, run)
  BY DEF Grown

LEMMA GrownOnceMore ==
  ASSUME NEW a, NEW b, NEW c, Grown(a, b), Grown(b, c)
  PROVE  Grown(a, c)
  BY DEF Grown

LEMMA CallbackFields ==
  ASSUME NEW c \in RunCallbacks
  PROVE  /\ c.target \in {"pipeline", "stage", "job"} /\ c.status \in RunStatuses
         /\ c # NoEvent
  <1>1. CASE c \in [target : {"pipeline"}, status : RunStatuses]
    BY <1>1 DEF NoEvent
  <1>2. CASE c \in [target : {"stage"}, stage : StageIds, status : RunStatuses]
    BY <1>2 DEF NoEvent
  <1>3. CASE c \in [target : {"job"}, stage : StageIds, job : JobIds, status : RunStatuses]
    BY <1>3 DEF NoEvent
  <1>4. QED
    BY <1>1, <1>2, <1>3 DEF RunCallbacks

LEMMA StatusesAre ==
  /\ \A s \in RunStatuses : s \notin Ended => s \in {"queued", "running"}
  /\ \A s \in RunStatuses : s \in {"queued", "running", "succeeded", "failed", "cancelled"}
  /\ \A s \in RunStatuses : TransitionAllowed(s, "running") => s \in {"queued", "running"}
  /\ \A s \in RunStatuses : \A new \in Ended :
       TransitionAllowed(s, new) => s \in {"queued", "running", new}
  BY DEF RunStatuses, Ended, TransitionAllowed

LEMMA PipelineCallbackGrows ==
  ASSUME NEW run, Sound(run), NEW c \in RunCallbacks, c.target = "pipeline",
         CallbackAccepted(run, c)
  PROVE  Grown(run, AfterPipelineCallback(run, c))
  <1>1. /\ c.status \in RunStatuses /\ TransitionAllowed(run.status, c.status)
        /\ c.status = "succeeded" => StagesSucceeded(run)
        /\ run.status \in RunStatuses
    BY CallbackFields DEF CallbackAccepted, TargetStatus, Sound, GoodRun
  <1>2. CASE c.status = "queued"
    BY <1>2, GrownFromSelf DEF AfterPipelineCallback
  <1>3. CASE c.status = "running"
    BY <1>1, <1>3, StatusesAre, StartRunGrows DEF AfterPipelineCallback
  <1>4. CASE c.status = "succeeded"
    <2>1. PICK i \in DOMAIN run.request.stages : TRUE
      <3>1. run.request \in PipelineRequests
        BY DEF Sound, GoodRun
      <3>2. /\ Len(run.request.stages) \in Nat \ {0}
            /\ DOMAIN run.request.stages = 1..Len(run.request.stages)
        BY <3>1, RequestHasStages
      <3>3. 1 \in DOMAIN run.request.stages
        BY <3>2
      <3>4. QED
        BY <3>3
    <2>2. AggregateRun(run) = run
      BY <2>1, AggregateSame
    <2>3. AfterPipelineCallback(run, c) = run
      BY <1>1, <1>4, <2>2 DEF AfterPipelineCallback, AggregateRun
    <2>4. QED
      BY <2>3, GrownFromSelf
  <1>5. CASE c.status \in {"failed", "cancelled"}
    <2>1. AfterPipelineCallback(run, c) = EndRun(run, c.status)
      BY <1>5 DEF AfterPipelineCallback
    <2>2. run.status \in {"queued", "running", c.status}
      BY <1>1, <1>5, StatusesAre DEF Ended
    <2>3. QED
      BY <1>5, <2>1, <2>2, EndRunGrows
  <1>6. QED
    BY <1>1, <1>2, <1>3, <1>4, <1>5, StatusesAre

LEMMA StageCallbackGrows ==
  ASSUME NEW run, Sound(run), NEW c \in RunCallbacks, c.target = "stage",
         CallbackAccepted(run, c)
  PROVE  Grown(run, AfterStageCallback(run, c))
  <1> DEFINE i == c.stage
             started == StartRun(run)
  <1>1. GoodRun(run) /\ RunAgrees(run) /\ DOMAIN run.stages = DOMAIN run.request.stages
    BY StagesOfRun DEF Sound
  <1>2. /\ i \in DOMAIN run.request.stages /\ run.status \in {"queued", "running"}
        /\ c.status \in RunStatuses /\ run.stages[i].status \in RunStatuses
        /\ TransitionAllowed(run.stages[i].status, c.status)
        /\ c.status = "succeeded" => JobsSucceeded(run, i)
    <2>1. NamesATarget(run, c) /\ i \in DOMAIN run.request.stages
      BY <1>1 DEF CallbackAccepted, NamesATarget
    <2>2. run.status \in {"queued", "running"}
      BY <1>1, StatusesAre DEF CallbackAccepted, GoodRun
    <2>3. run.stages[i].status \in RunStatuses
      BY <1>1, <2>1, StagesOfRun
    <2>4. QED
      BY <2>1, <2>2, <2>3, CallbackFields DEF CallbackAccepted, TargetStatus
  <1>3. run.stages[i].status \notin {"failed", "cancelled"}
    BY <1>1, <1>2 DEF RunAgrees
  <1>4. /\ Grown(run, started) /\ Sound(started) /\ started.status = "running"
        /\ started.stages = run.stages /\ started.request = run.request
    BY <1>2, StartRunGrows DEF Grown
  <1> HIDE DEF started
  <1>5. CASE c.status = "queued"
    BY <1>5, GrownFromSelf DEF AfterStageCallback
  <1>6. CASE c.status = "running"
    <2>1. AfterStageCallback(run, c) = StartStage(started, i)
      BY <1>6 DEF AfterStageCallback, started
    <2>2. started.stages[i].status \in {"queued", "running"}
      BY <1>2, <1>4, <1>6, StatusesAre
    <2>3. Grown(started, StartStage(started, i))
      BY <1>2, <1>4, <2>2, StartStageGrows
    <2>4. QED
      BY <1>4, <2>1, <2>3, GrownOnceMore
  <1>7. CASE c.status = "succeeded"
    <2>1. AfterStageCallback(run, c) = Aggregate(FinishStage(started, i, "succeeded"), i)
      BY <1>7 DEF AfterStageCallback, started
    <2>2. JobsSucceeded(started, i)
      BY <1>2, <1>4, <1>7 DEF JobsSucceeded
    <2>3. AfterStageCallback(run, c) = started
      BY <1>2, <1>4, <2>1, <2>2, AggregateSame
    <2>4. QED
      BY <1>4, <2>3
  <1>8. CASE c.status = "failed"
    <2>1. AfterStageCallback(run, c) = EndFromStage(started, i, "failed")
      BY <1>8 DEF AfterStageCallback, started
    <2>2. started.stages[i].status \in {"queued", "running"}
      BY <1>2, <1>3, <1>4, <1>8, StatusesAre DEF Ended
    <2>3. Grown(started, EndFromStage(started, i, "failed"))
      BY <1>2, <1>4, <2>2, EndFromStageGrows
    <2>4. QED
      BY <1>4, <2>1, <2>3, GrownOnceMore
  <1>9. CASE c.status = "cancelled"
    <2>1. AfterStageCallback(run, c) = EndFromStage(run, i, "cancelled")
      BY <1>9 DEF AfterStageCallback
    <2>2. run.stages[i].status \in {"queued", "running"}
      BY <1>2, <1>3, <1>9, StatusesAre DEF Ended
    <2>3. QED
      BY <1>2, <2>1, <2>2, EndFromStageGrows
  <1>10. QED
    BY <1>2, <1>5, <1>6, <1>7, <1>8, <1>9, StatusesAre

LEMMA JobCallbackGrows ==
  ASSUME NEW run, Sound(run), NEW c \in RunCallbacks, c.target = "job",
         CallbackAccepted(run, c)
  PROVE  Grown(run, AfterJobCallback(run, c))
  <1> DEFINE i == c.stage
             j == c.job
             begun == StartRun(run)
             started == StartStage(begun, i)
  <1>1. GoodRun(run) /\ RunAgrees(run) /\ DOMAIN run.stages = DOMAIN run.request.stages
    BY StagesOfRun DEF Sound
  <1>2. /\ i \in DOMAIN run.request.stages /\ j \in DOMAIN run.request.stages[i]
        /\ run.status \in {"queued", "running"} /\ run.stages[i].status \in {"queued", "running"}
        /\ c.status \in RunStatuses /\ run.stages[i].jobs[j] \in RunStatuses
        /\ TransitionAllowed(run.stages[i].jobs[j], c.status)
    <2>1. i \in DOMAIN run.request.stages
      BY <1>1 DEF CallbackAccepted, NamesATarget
    <2>2. /\ GoodStage(run.stages[i], DOMAIN run.request.stages[i])
          /\ DOMAIN run.stages[i].jobs = DOMAIN run.request.stages[i]
          /\ run.stages[i].status \in RunStatuses
      BY <1>1, <2>1, StagesOfRun
    <2>3. j \in DOMAIN run.request.stages[i]
      BY <2>2 DEF CallbackAccepted, NamesATarget
    <2>4. run.status \in {"queued", "running"}
      BY <1>1, StatusesAre DEF CallbackAccepted, GoodRun
    <2>5. run.stages[i].status \in {"queued", "running"}
      BY <2>2, StatusesAre DEF CallbackAccepted
    <2>6. run.stages[i].jobs[j] \in RunStatuses
      BY <2>2, <2>3 DEF GoodStage
    <2>7. QED
      BY <2>1, <2>3, <2>4, <2>5, <2>6, CallbackFields DEF CallbackAccepted, TargetStatus
  <1>3. /\ Grown(run, begun) /\ Sound(begun) /\ begun.status = "running"
        /\ begun.stages = run.stages /\ begun.request = run.request
    BY <1>2, StartRunGrows DEF Grown
  <1>4. /\ Grown(begun, started) /\ Sound(started) /\ started.status = "running"
        /\ started.request = run.request
        /\ started.stages[i].status = "running" /\ started.stages[i].jobs = run.stages[i].jobs
    <2> HIDE DEF begun
    <2>1. /\ Grown(begun, started) /\ started.status = "running"
          /\ started.stages[i] = [status |-> "running", jobs |-> begun.stages[i].jobs]
      BY <1>2, <1>3, StartStageGrows
    <2> HIDE DEF started
    <2>2. QED
      BY <1>3, <2>1 DEF Grown
  <1>5. Grown(run, started)
    BY <1>3, <1>4, GrownOnceMore
  <1>6. CASE c.status = "queued"
    BY <1>6, GrownFromSelf DEF AfterJobCallback
  <1> HIDE DEF started
  <1>7. CASE c.status = "running"
    <2>1. AfterJobCallback(run, c) = StartJob(started, i, j)
      BY <1>7 DEF AfterJobCallback, started
    <2>2. started.stages[i].jobs[j] \in {"queued", "running"}
      BY <1>2, <1>4, <1>7, StatusesAre
    <2>3. Grown(started, StartJob(started, i, j))
      BY <1>2, <1>4, <2>2, StartJobGrows
    <2>4. QED
      BY <1>5, <2>1, <2>3, GrownOnceMore
  <1>8. CASE c.status = "succeeded"
    <2>1. AfterJobCallback(run, c) = Aggregate(FinishJob(started, i, j, "succeeded"), i)
      BY <1>8 DEF AfterJobCallback, started
    <2>2. started.stages[i].jobs[j] \in {"queued", "running", "succeeded"}
      BY <1>2, <1>4, <1>8, StatusesAre DEF Ended
    <2>3. Grown(started, Aggregate(FinishJob(started, i, j, "succeeded"), i))
      BY <1>2, <1>4, <2>2, JobSucceeds
    <2>4. QED
      BY <1>5, <2>1, <2>3, GrownOnceMore
  <1>9. CASE c.status = "failed"
    <2>1. AfterJobCallback(run, c) = EndFromJob(started, i, j, "failed")
      BY <1>9 DEF AfterJobCallback, started
    <2>2. started.stages[i].jobs[j] \in {"queued", "running", "failed"}
      BY <1>2, <1>4, <1>9, StatusesAre DEF Ended
    <2>3. Grown(started, EndFromJob(started, i, j, "failed"))
      BY <1>2, <1>4, <2>2, EndFromJobGrows
    <2>4. QED
      BY <1>5, <2>1, <2>3, GrownOnceMore
  <1>10. CASE c.status = "cancelled"
    <2>1. AfterJobCallback(run, c) = EndFromJob(run, i, j, "cancelled")
      BY <1>10 DEF AfterJobCallback
    <2>2. run.stages[i].jobs[j] \in {"queued", "running", "cancelled"}
      BY <1>2, <1>10, StatusesAre DEF Ended
    <2>3. QED
      BY <1>2, <2>1, <2>2, EndFromJobGrows
  <1>11. QED
    BY <1>2, <1>6, <1>7, <1>8, <1>9, <1>10, StatusesAre

LEMMA CallbackGrows ==
  ASSUME NEW run, Sound(run), NEW c \in RunCallbacks, CallbackAccepted(run, c)
  PROVE  Grown(run, AfterCallback(run, c))
  <1>1. CASE c.target = "pipeline"
    BY <1>1, PipelineCallbackGrows DEF AfterCallback
  <1>2. CASE c.target = "stage"
    BY <1>2, StageCallbackGrows DEF AfterCallback
  <1>3. CASE c.target = "job"
    BY <1>3, JobCallbackGrows DEF AfterCallback
  <1>4. QED
    BY <1>1, <1>2, <1>3, CallbackFields

-----------------------------------------------------------------------------
(***************************************************************************)
(* The executor.  Its position belongs to the request of the run, and the  *)
(* stage whose jobs it works on has begun in memory and in whatever memory *)
(* may be set back to.                                                     *)
(***************************************************************************)
Fits(run, at) ==
  /\ at.step \in {"stage", "job", "wait", "close"} => at.stage \in DOMAIN run.request.stages
  /\ at.step \in {"job", "wait"} => at.job \in DOMAIN run.request.stages[at.stage]
  /\ at.step \in {"job", "wait", "close"} => run.stages[at.stage].status # "queued"

Holds(run, at) == run = Absent \/ (Sound(run) /\ Fits(run, at))

Fitting(m, tasks) ==
  /\ m = [r \in Runs |-> m[r]]
  /\ \A r \in Runs : Holds(m[r], tasks[r])

SoundInv ==
  /\ Fitting(memory, executor) /\ Fitting(stored, executor) /\ Fitting(last_saved, executor)
  /\ executor = [r \in Runs |-> executor[r]]
  /\ initialized \in BOOLEAN /\ closed \in BOOLEAN /\ resetting \in BOOLEAN
  /\ told \in [Runs -> {"nothing", "active"} \cup Ended]
  /\ faults \in 0..MaxFaults

\* While a run has a task, wherever it is kept it has one request.
SameRequest(r) ==
  \A a, b \in {memory[r], stored[r], last_saved[r]} :
    a # Absent /\ b # Absent => a.request = b.request

RequestInv == \A r \in Runs : executor[r] # NoTask => SameRequest(r)

(***************************************************************************)
(* What clients were told.  Memory may be behind what is stored, after a   *)
(* save that committed and failed and a reload that failed too, but never  *)
(* disagrees with it.                                                      *)
(***************************************************************************)
OneKey(m) ==
  \A q, r \in Runs :
    m[q] # Absent /\ m[r] # Absent /\ m[q].request.key = m[r].request.key
      => q = r \/ m[q].request.key = "none"

AsTold(run, answer) ==
  answer # "nothing" => run # Absent /\ (answer \in Ended => run.status = answer)

Precedes(run, later) ==
  run # Absent => later # Absent /\ (run.status \in Ended => later.status = run.status)

Truthful(m, answers) == OneKey(m) /\ \A r \in Runs : AsTold(m[r], answers[r])

KeepInv ==
  /\ ~initialized => \A r \in Runs : executor[r] = NoTask
  /\ faults = 0 => memory = stored /\ memory = last_saved
  /\ faults < 3 =>
       /\ Truthful(stored, told)
       /\ initialized => Truthful(memory, told) /\ \A r \in Runs : Precedes(memory[r], stored[r])

(***************************************************************************)
(* How far a run is that only its executor has moved.                      *)
(***************************************************************************)
StagesBy(run, i) ==
  \A k \in DOMAIN run.request.stages :
    /\ k < i => run.stages[k].status = "succeeded"
    /\ k > i => run.stages[k].status = "queued"

JobsBy(run, i, j) ==
  \A k \in DOMAIN run.request.stages[i] :
    /\ k < j => run.stages[i].jobs[k] = "succeeded"
    /\ k > j => run.stages[i].jobs[k] = "queued"

Progress(run, at) ==
  /\ at.step \notin {"end", "done"}
  /\ at.step = "begin" => run.status = "queued"
  /\ at.step \in {"stage", "job", "wait", "close"} => run.status = "running" /\ StagesBy(run, at.stage)
  /\ at.step = "stage" => run.stages[at.stage].status = "queued"
  /\ at.step \in {"job", "wait"} =>
       run.stages[at.stage].status = "running" /\ JobsBy(run, at.stage, at.job)
  /\ at.step = "job" => run.stages[at.stage].jobs[at.job] = "queued"
  /\ at.step = "wait" => run.stages[at.stage].jobs[at.job] = "running"
  /\ at.step = "close" => run.stages[at.stage].status = "succeeded"

Untouched(run) ==
  run.status \in {"queued", "running"} /\ run.events = [e \in EventIds |-> NoEvent]

MovesOn(m, tasks) == \A r \in Runs : Untouched(m[r]) => Progress(m[r], tasks[r])

StayInv ==
  /\ \A r \in Runs : executor[r].step = "failing" => faults > 0
  /\ faults <= 1 => MovesOn(memory, executor)

LEMMA LengthByDomain ==
  ASSUME NEW f, NEW n \in Nat, DOMAIN f = 1..n, f = [k \in DOMAIN f |-> f[k]]
  PROVE  Len(f) = n
  OBVIOUS

LEMMA GrownFits ==
  ASSUME NEW run, NEW new, NEW at, Fits(run, at), Grown(run, new)
  PROVE  Fits(new, at)
  BY DEF Fits, Grown

\* One step of the executor.
Stepped(run, at, outcome) ==
  /\ Grown(run, outcome.run)
  /\ Fits(outcome.run, outcome.at)
  /\ outcome.saves \/ outcome.run = run

LEMMA LeaveSteps ==
  ASSUME NEW run, Sound(run), NEW at
  PROVE  Stepped(run, at, Leave(run))
  <1>1. Leave(run).run = run /\ Leave(run).at = Done
    BY DEF Leave
  <1>2. Fits(run, Done)
    BY DEF Fits, Done, At
  <1>3. Grown(run, run)
    BY GrownFromSelf
  <1> QED BY <1>1, <1>2, <1>3 DEF Stepped

LEMMA SavesSteps ==
  ASSUME NEW run, NEW at, NEW new, NEW next, Grown(run, new), Fits(new, next)
  PROVE  Stepped(run, at, Saves(new, next)) /\ Saves(new, next).run = new /\ Saves(new, next).at = next
  BY DEF Stepped, Saves

LEMMA LengthsOfRun ==
  ASSUME NEW run, Sound(run), NEW i \in DOMAIN run.request.stages
  PROVE  /\ Len(run.stages) \in Nat /\ DOMAIN run.request.stages = 1..Len(run.stages)
         /\ Len(run.stages[i].jobs) \in Nat
         /\ DOMAIN run.request.stages[i] = 1..Len(run.stages[i].jobs)
         /\ run.request.stages[i] # <<>> /\ 1 \in DOMAIN run.request.stages[i]
         /\ 1 \in DOMAIN run.request.stages
  <1>1. /\ DOMAIN run.stages = DOMAIN run.request.stages
        /\ DOMAIN run.stages[i].jobs = DOMAIN run.request.stages[i]
        /\ run.stages = [k \in DOMAIN run.request.stages |-> run.stages[k]]
        /\ run.stages[i].jobs \in [DOMAIN run.request.stages[i] -> RunStatuses]
    BY StagesOfRun DEF Sound, StagesFit, GoodStage
  <1>2. /\ run.request.stages \in Seq(Seq(BOOLEAN) \ {<<>>}) \ {<<>>}
        /\ DOMAIN run.request.stages = 1..Len(run.request.stages)
        /\ Len(run.request.stages) \in Nat \ {0}
        /\ DOMAIN run.request.stages[i] = 1..Len(run.request.stages[i])
        /\ Len(run.request.stages[i]) \in Nat \ {0}
        /\ run.request.stages[i] # <<>>
    <2>1. PICK q \in PipelineRequests : q = run.request
      BY DEF Sound, GoodRun
    <2>2. q.stages \in Seq(Seq(BOOLEAN) \ {<<>>}) \ {<<>>}
      BY PipelineAssumption
    <2>3. Len(q.stages[i]) \in Nat \ {0} /\ DOMAIN q.stages[i] = 1..Len(q.stages[i])
      BY <2>1, RequestHasStages
    <2>4. Len(q.stages) \in Nat \ {0} /\ DOMAIN q.stages = 1..Len(q.stages)
      BY RequestHasStages
    <2>5. q.stages[i] # <<>>
      BY <2>1, <2>2
    <2> QED BY <2>1, <2>2, <2>3, <2>4, <2>5
  <1>3. Len(run.stages) = Len(run.request.stages) /\ Len(run.stages[i].jobs) = Len(run.request.stages[i])
    BY <1>1, <1>2, LengthByDomain
  <1> QED BY <1>1, <1>2, <1>3

LEMMA NextStageFits ==
  ASSUME NEW run, Sound(run), NEW i \in DOMAIN run.request.stages
  PROVE  Fits(run, NextStage(run, i))
  <1>1. CASE i < Len(run.stages)
    <2>1. i + 1 \in DOMAIN run.request.stages
      BY <1>1, LengthsOfRun
    <2> QED BY <1>1, <2>1 DEF NextStage, At, Fits
  <1>2. CASE ~(i < Len(run.stages))
    BY <1>2 DEF NextStage, At, Fits
  <1> QED BY <1>1, <1>2

LEMMA NextJobFits ==
  ASSUME NEW run, Sound(run), NEW i \in DOMAIN run.request.stages,
         run.stages[i].status # "queued", NEW j \in DOMAIN run.request.stages[i]
  PROVE  Fits(run, NextJob(run, i, j))
  <1>1. CASE j < Len(run.stages[i].jobs)
    <2>1. j + 1 \in DOMAIN run.request.stages[i]
      BY <1>1, LengthsOfRun
    <2> QED BY <1>1, <2>1 DEF NextJob, At, Fits
  <1>2. CASE ~(j < Len(run.stages[i].jobs))
    BY <1>2 DEF NextJob, At, Fits
  <1> QED BY <1>1, <1>2

LEMMA BeginSteps ==
  ASSUME NEW run, Sound(run), NEW at
  PROVE  Stepped(run, at, AfterBegin(run))
  <1>1. CASE run.status = "queued"
    <2>1. Grown(run, StartRun(run)) /\ StartRun(run).request = run.request
      BY <1>1, StartRunGrows DEF Grown
    <2>2. 1 \in DOMAIN run.request.stages
      BY RequestHasStages DEF Sound, GoodRun
    <2>3. Fits(StartRun(run), At("stage", 1, 0))
      BY <2>1, <2>2 DEF Fits, At
    <2> QED BY <1>1, <2>1, <2>3, SavesSteps DEF AfterBegin
  <1>2. CASE run.status # "queued"
    BY <1>2, LeaveSteps DEF AfterBegin
  <1> QED BY <1>1, <1>2

LEMMA StageSteps ==
  ASSUME NEW run, Sound(run), run.status = "running", NEW at, NEW i \in DOMAIN run.request.stages
  PROVE  Stepped(run, at, AfterStage(run, i))
  <1>1. CASE run.stages[i].status = "succeeded"
    <2>1. PICK outcome : outcome = [saves |-> FALSE, run |-> run, at |-> NextStage(run, i)]
      OBVIOUS
    <2>2. outcome.run = run /\ outcome.at = NextStage(run, i)
      BY <2>1
    <2>3. Fits(run, NextStage(run, i)) /\ Grown(run, run)
      BY NextStageFits, GrownFromSelf
    <2>4. AfterStage(run, i) = outcome
      BY <1>1, <2>1 DEF AfterStage
    <2> QED BY <2>2, <2>3, <2>4 DEF Stepped
  <1>2. CASE run.stages[i].status # "succeeded"
    <2>1. run.stages[i].status \in {"queued", "running"}
      <3>1. run.stages[i].status \in RunStatuses /\ run.stages[i].status \notin {"failed", "cancelled"}
        BY StagesOfRun DEF Sound, RunAgrees
      <3> QED BY <1>2, <3>1 DEF RunStatuses, Ended
    <2>2. /\ Grown(run, StartStage(run, i)) /\ StartStage(run, i).request = run.request
          /\ StartStage(run, i).stages[i] = [status |-> "running", jobs |-> run.stages[i].jobs]
      BY <2>1, StartStageGrows DEF Grown
    <2>3. 1 \in DOMAIN run.request.stages[i]
      BY LengthsOfRun
    <2>4. Fits(StartStage(run, i), At("job", i, 1))
      BY <2>2, <2>3 DEF Fits, At
    <2> QED BY <1>2, <2>2, <2>4, SavesSteps DEF AfterStage
  <1> QED BY <1>1, <1>2

\* In a running stage that is asked for by the executor, no job has failed.
LEMMA JobsOfRunningStage ==
  ASSUME NEW run, Sound(run), run.status = "running", NEW i \in DOMAIN run.request.stages,
         NEW j \in DOMAIN run.request.stages[i]
  PROVE  /\ run.stages[i].jobs[j] \in {"queued", "running", "succeeded"}
         /\ run.stages[i].status \in {"queued", "running", "succeeded"}
         /\ run.stages[i].jobs[j] # "succeeded" => run.stages[i].status \in {"queued", "running"}
  <1>1. /\ StageAgrees(run.stages[i]) /\ run.stages[i].status \in RunStatuses
        /\ run.stages[i].status \notin {"failed", "cancelled"}
        /\ DOMAIN run.stages[i].jobs = DOMAIN run.request.stages[i]
        /\ run.stages[i].jobs \in [DOMAIN run.request.stages[i] -> RunStatuses]
    BY StagesOfRun DEF Sound, RunAgrees, GoodStage
  <1>2. run.stages[i].jobs[j] \in RunStatuses /\ run.stages[i].jobs[j] \notin {"failed", "cancelled"}
    BY <1>1 DEF StageAgrees
  <1>3. run.stages[i].status = "succeeded" => run.stages[i].jobs[j] = "succeeded"
    BY <1>1 DEF StageAgrees
  <1> QED BY <1>1, <1>2, <1>3 DEF RunStatuses, Ended

LEMMA JobSteps ==
  ASSUME NEW run, Sound(run), run.status = "running", NEW at, NEW i \in DOMAIN run.request.stages,
         NEW j \in DOMAIN run.request.stages[i]
  PROVE  Stepped(run, at, AfterJob(run, i, j))
  <1>1. CASE run.stages[i].status # "running"
    BY <1>1, LeaveSteps DEF AfterJob
  <1>2. CASE run.stages[i].status = "running" /\ run.stages[i].jobs[j] = "succeeded"
    <2>1. Aggregate(run, i) = run /\ Grown(run, run)
      BY AggregateSame, GrownFromSelf
    <2>2. Fits(run, NextJob(run, i, j))
      BY <1>2, NextJobFits
    <2> QED BY <1>2, <2>1, <2>2, SavesSteps DEF AfterJob
  <1>3. CASE run.stages[i].status = "running" /\ run.stages[i].jobs[j] # "succeeded"
    <2>1. run.stages[i].jobs[j] \in {"queued", "running"}
      BY <1>3, JobsOfRunningStage
    <2>2. Grown(run, StartJob(run, i, j)) /\ StartJob(run, i, j).request = run.request
      BY <1>3, <2>1, StartJobGrows DEF Grown
    <2>3. StartJob(run, i, j).stages[i].status # "queued"
      BY <1>3, <2>2 DEF Grown
    <2>4. Fits(StartJob(run, i, j), At("wait", i, j))
      BY <2>2, <2>3 DEF Fits, At
    <2> QED BY <1>3, <2>2, <2>4, SavesSteps DEF AfterJob
  <1> QED BY <1>1, <1>2, <1>3

LEMMA WaitSteps ==
  ASSUME NEW run, Sound(run), run.status = "running", NEW at, NEW i \in DOMAIN run.request.stages,
         NEW j \in DOMAIN run.request.stages[i], run.stages[i].status # "queued"
  PROVE  Stepped(run, at, AfterWait(run, i, j))
  <1>1. CASE run.stages[i].jobs[j] = "succeeded"
    <2>1. Aggregate(run, i) = run /\ Grown(run, run)
      BY AggregateSame, GrownFromSelf
    <2>2. Fits(run, NextJob(run, i, j))
      BY NextJobFits
    <2> QED BY <1>1, <2>1, <2>2, SavesSteps DEF AfterWait
  <1>2. CASE run.stages[i].jobs[j] # "succeeded"
    <2>1. run.stages[i].jobs[j] \in {"queued", "running"} /\ run.stages[i].status = "running"
      BY <1>2, JobsOfRunningStage
    <2>2. CASE run.request.stages[i][j]
      <3>1. Grown(run, EndFromJob(run, i, j, "failed"))
        BY <2>1, EndFromJobGrows
      <3>2. Fits(EndFromJob(run, i, j, "failed"), Done)
        BY DEF Fits, Done, At
      <3> QED BY <1>2, <2>2, <3>1, <3>2, SavesSteps DEF AfterWait
    <2>3. CASE ~run.request.stages[i][j]
      <3>1. PICK new : new = Aggregate(FinishJob(run, i, j, "succeeded"), i)
        OBVIOUS
      <3>2. Grown(run, new)
        BY <2>1, <3>1, JobSucceeds
      <3>3. Sound(new) /\ new.request = run.request /\ new.stages[i].status # "queued"
        BY <3>2 DEF Grown
      <3>4. Fits(new, NextJob(new, i, j))
        BY <3>3, NextJobFits
      <3>5. NextJob(new, i, j) = NextJob(run, i, j)
        <4>1. /\ DOMAIN new.stages[i].jobs = DOMAIN run.request.stages[i]
              /\ DOMAIN run.stages[i].jobs = DOMAIN run.request.stages[i]
          BY <3>3, StagesOfRun DEF Sound
        <4>2. Len(new.stages[i].jobs) = Len(run.stages[i].jobs)
          <5>1. /\ DOMAIN run.request.stages[i] = 1..Len(run.stages[i].jobs)
                /\ Len(run.stages[i].jobs) \in Nat
            BY LengthsOfRun
          <5>2. /\ DOMAIN run.request.stages[i] = 1..Len(new.stages[i].jobs)
                /\ Len(new.stages[i].jobs) \in Nat
            BY <3>3, LengthsOfRun
          <5> QED BY <5>1, <5>2
        <4> QED BY <4>2 DEF NextJob
      <3> QED BY <1>2, <2>3, <3>1, <3>2, <3>4, <3>5, SavesSteps DEF AfterWait
    <2> QED BY <2>2, <2>3
  <1> QED BY <1>1, <1>2

LEMMA AfterStepSteps ==
  ASSUME NEW run, Sound(run), NEW at, Fits(run, at),
         at.step \in {"begin", "stage", "job", "wait", "close", "end"}
  PROVE  Stepped(run, at, AfterStep(run, at))
  <1>1. CASE at.step = "begin"
    BY <1>1, BeginSteps DEF AfterStep
  <1>2. CASE at.step # "begin" /\ run.status # "running"
    BY <1>2, LeaveSteps DEF AfterStep
  <1>3. CASE at.step # "begin" /\ run.status = "running"
    <2>1. CASE at.step = "stage"
      BY <1>3, <2>1, StageSteps DEF AfterStep, Fits
    <2>2. CASE at.step = "job"
      BY <1>3, <2>2, JobSteps DEF AfterStep, Fits
    <2>3. CASE at.step = "wait"
      BY <1>3, <2>3, WaitSteps DEF AfterStep, Fits
    <2>4. CASE at.step = "close"
      <3>1. AfterStep(run, at) = Saves(run, NextStage(run, at.stage))
        BY <1>3, <2>4, AggregateSame DEF AfterStep, Fits
      <3>2. Fits(run, NextStage(run, at.stage)) /\ Grown(run, run)
        BY <2>4, NextStageFits, GrownFromSelf DEF Fits
      <3> QED BY <3>1, <3>2, SavesSteps
    <2>5. CASE at.step = "end"
      <3>1. AfterStep(run, at) = Saves(run, Done)
        <4>1. 1 \in DOMAIN run.request.stages
          BY RequestHasStages DEF Sound, GoodRun
        <4> QED BY <1>3, <2>5, <4>1, AggregateSame DEF AfterStep
      <3>2. Fits(run, Done) /\ Grown(run, run)
        BY GrownFromSelf DEF Fits, Done, At
      <3> QED BY <3>1, <3>2, SavesSteps
    <2> QED BY <1>3, <2>1, <2>2, <2>3, <2>4, <2>5
  <1> QED BY <1>1, <1>2, <1>3

-----------------------------------------------------------------------------
(* Snapshots of all the runs.                                              *)

LEMMA AbsentRun == Absent.status = "absent" /\ "absent" \notin RunStatuses
  BY DEF Absent, RunStatuses, Ended

LEMMA NewRunIsSound ==
  ASSUME NEW q \in PipelineRequests
  PROVE  /\ Sound(NewRun(q)) /\ NewRun(q).status = "queued" /\ NewRun(q).request = q
         /\ NewRun(q).events = [e \in EventIds |-> NoEvent]
         /\ Fits(NewRun(q), NoTask) /\ Fits(NewRun(q), At("begin", 0, 0))
  <1>1. PICK new : new = NewRun(q)
    OBVIOUS
  <1>2. PICK stages :
          stages = [i \in DOMAIN q.stages |->
                      [status |-> "queued", jobs |-> [j \in DOMAIN q.stages[i] |-> "queued"]]]
    OBVIOUS
  <1>3. new = [status |-> "queued", request |-> q, events |-> [e \in EventIds |-> NoEvent],
               stages |-> stages]
    BY <1>1, <1>2 DEF NewRun
  <1>4. /\ new.status = "queued" /\ new.request = q /\ new.stages = stages
        /\ new.events = [e \in EventIds |-> NoEvent]
        /\ new = [status |-> new.status, request |-> new.request, events |-> new.events,
                  stages |-> new.stages]
    BY <1>3
  <1>5. ASSUME NEW i \in DOMAIN q.stages
        PROVE  /\ GoodStage(stages[i], DOMAIN q.stages[i]) /\ StageAgrees(stages[i])
               /\ stages[i].status = "queued"
    <2>1. PICK stage : stage = [status |-> "queued", jobs |-> [j \in DOMAIN q.stages[i] |-> "queued"]]
      OBVIOUS
    <2>2. stage.status = "queued" /\ stage.jobs = [j \in DOMAIN q.stages[i] |-> "queued"]
      BY <2>1
    <2>3. GoodStage(stage, DOMAIN q.stages[i])
      BY <2>1, <2>2 DEF GoodStage, RunStatuses
    <2>4. 1 \in DOMAIN q.stages[i]
      BY RequestHasStages
    <2>5. StageAgrees(stage)
      BY <2>2, <2>4 DEF StageAgrees, Ended
    <2> QED BY <1>2, <2>1, <2>2, <2>3, <2>5
  <1>6. StagesFit(stages, q)
    BY <1>2, <1>5 DEF StagesFit
  <1>7. GoodRun(new)
    BY <1>4, <1>6 DEF GoodRun, RunStatuses
  <1>8. RunAgrees(new)
    <2>1. 1 \in DOMAIN q.stages /\ DOMAIN new.stages = DOMAIN q.stages
      BY <1>2, <1>4, RequestHasStages
    <2> QED BY <1>4, <1>5, <2>1 DEF RunAgrees, StagesSucceeded, Ended
  <1>9. Fits(new, NoTask) /\ Fits(new, At("begin", 0, 0))
    BY DEF Fits, NoTask, At
  <1> QED BY <1>1, <1>4, <1>7, <1>8, <1>9 DEF Sound

\* The run keeps the callback.
WithEvent(run, e, c) == [run EXCEPT !.events[e] = c]

LEMMA EventKept ==
  ASSUME NEW run, Sound(run), NEW e \in EventIds, NEW c \in RunCallbacks
  PROVE  /\ Sound(WithEvent(run, e, c)) /\ WithEvent(run, e, c).status = run.status
         /\ WithEvent(run, e, c).request = run.request /\ WithEvent(run, e, c).stages = run.stages
         /\ WithEvent(run, e, c).events[e] = c
  <1>1. PICK new : new = WithEvent(run, e, c)
    OBVIOUS
  <1>2. /\ run = [status |-> run.status, request |-> run.request, events |-> run.events,
                  stages |-> run.stages]
        /\ run.events \in [EventIds -> RunCallbacks \cup {NoEvent}]
    BY DEF Sound, GoodRun
  <1>3. new = [status |-> run.status, request |-> run.request,
               events |-> [run.events EXCEPT ![e] = c], stages |-> run.stages]
    BY <1>1, <1>2 DEF WithEvent
  <1>4. /\ new.status = run.status /\ new.request = run.request /\ new.stages = run.stages
        /\ new.events = [run.events EXCEPT ![e] = c]
        /\ new = [status |-> new.status, request |-> new.request, events |-> new.events,
                  stages |-> new.stages]
    BY <1>3
  <1>5. new.events \in [EventIds -> RunCallbacks \cup {NoEvent}] /\ new.events[e] = c
    BY <1>2, <1>4
  <1>6. GoodRun(new)
    BY <1>4, <1>5 DEF Sound, GoodRun
  <1>7. RunAgrees(new)
    BY <1>4 DEF Sound, RunAgrees, StagesSucceeded
  <1> QED BY <1>1, <1>4, <1>5, <1>6, <1>7 DEF Sound

\* A run takes another form.
LEMMA OneRunFits ==
  ASSUME NEW m, NEW tasks, Fitting(m, tasks), NEW r \in Runs, NEW run, Holds(run, tasks[r]),
         NEW new, new = [m EXCEPT ![r] = run]
  PROVE  /\ Fitting(new, tasks) /\ new[r] = run
         /\ \A q \in Runs \ {r} : new[q] = m[q]
  <1>2. m = [q \in Runs |-> m[q]] /\ \A q \in Runs : Holds(m[q], tasks[q])
    BY DEF Fitting
  <1>3. new = [q \in Runs |-> IF q = r THEN run ELSE m[q]]
    BY <1>2
  <1>4. new[r] = run /\ \A q \in Runs \ {r} : new[q] = m[q]
    BY <1>3
  <1>5. new = [q \in Runs |-> new[q]]
    BY <1>3
  <1>6. Fitting(new, tasks)
    BY <1>2, <1>4, <1>5 DEF Fitting
  <1> QED BY <1>4, <1>6

LEMMA InterruptedFits ==
  ASSUME NEW m, NEW tasks, Fitting(m, tasks)
  PROVE  /\ Fitting(Interrupted(m), tasks)
         /\ \A r \in Runs :
              /\ Interrupted(m)[r] = IF m[r].status \in {"queued", "running"}
                                       THEN EndRun(m[r], "cancelled") ELSE m[r]
              /\ Interrupted(m)[r].status \notin {"queued", "running"}
              /\ m[r] # Absent => Grown(m[r], Interrupted(m)[r])
              /\ m[r] = Absent <=> Interrupted(m)[r] = Absent
  <1>1. PICK new : new = Interrupted(m)
    OBVIOUS
  <1>2. /\ new = [r \in Runs |-> new[r]]
        /\ \A r \in Runs : new[r] = IF m[r].status \in {"queued", "running"}
                                      THEN EndRun(m[r], "cancelled") ELSE m[r]
    BY <1>1 DEF Interrupted
  <1>3. ASSUME NEW r \in Runs
        PROVE  /\ Holds(new[r], tasks[r]) /\ new[r].status \notin {"queued", "running"}
               /\ m[r] # Absent => Grown(m[r], new[r])
               /\ m[r] = Absent <=> new[r] = Absent
    <2>1. CASE m[r] = Absent
      <3>1. new[r] = Absent
        BY <1>2, <2>1, AbsentRun
      <3> QED BY <2>1, <3>1, AbsentRun DEF Holds
    <2>2. CASE m[r] # Absent
      <3>1. Sound(m[r]) /\ Fits(m[r], tasks[r])
        BY <2>2 DEF Fitting, Holds
      <3>2. Grown(m[r], new[r]) /\ new[r].status \notin {"queued", "running"}
        <4>1. CASE m[r].status \in {"queued", "running"}
          BY <1>2, <3>1, <4>1, EndRunGrows
        <4>2. CASE m[r].status \notin {"queued", "running"}
          BY <1>2, <3>1, <4>2, GrownFromSelf
        <4> QED BY <4>1, <4>2
      <3>3. Sound(new[r]) /\ Fits(new[r], tasks[r])
        BY <3>1, <3>2, GrownFits DEF Grown
      <3>4. new[r] # Absent
        BY <3>3, AbsentRun DEF Sound, GoodRun
      <3> QED BY <2>2, <3>2, <3>3, <3>4 DEF Holds
    <2> QED BY <2>1, <2>2
  <1>4. Fitting(new, tasks)
    BY <1>2, <1>3 DEF Fitting
  <1> QED BY <1>1, <1>2, <1>3, <1>4

\* A checkpoint, successful or not, leaves what was there before or what is
\* to be saved.
LEMMA SavingFits ==
  ASSUME NEW tasks, Fitting(memory, tasks), Fitting(stored, tasks), Fitting(last_saved, tasks),
         NEW new, Fitting(new, tasks), faults \in 0..MaxFaults, Saved(new) \/ SaveFails(new)
  PROVE  /\ Fitting(memory', tasks) /\ Fitting(stored', tasks) /\ Fitting(last_saved', tasks)
         /\ faults' \in 0..MaxFaults
  <1>1. CASE Saved(new)
    BY <1>1 DEF Saved
  <1>2. CASE SaveFails(new)
    <2>1. stored' \in {stored, new} /\ memory' \in {stored', last_saved} /\ last_saved' = last_saved
      BY <1>2 DEF SaveFails
    <2>2. faults' \in 0..MaxFaults
      BY <1>2, FaultsAssumption DEF SaveFails
    <2> QED BY <2>1, <2>2
  <1> QED BY <1>1, <1>2

LEMMA RunIsSound ==
  ASSUME NEW m, NEW tasks, Fitting(m, tasks), NEW r \in Runs, m[r] # Absent
  PROVE  Sound(m[r]) /\ Fits(m[r], tasks[r])
  BY DEF Fitting, Holds

LEMMA SoundIsPresent == ASSUME NEW run, Sound(run) PROVE run # Absent
  BY AbsentRun DEF Sound, GoodRun

-----------------------------------------------------------------------------
(* Every run is sound wherever it is kept.                                 *)

LEMMA SoundInit == PipelineInit => SoundInv
  <1> SUFFICES ASSUME PipelineInit PROVE SoundInv
    OBVIOUS
  <1>1. \A m : m = [r \in Runs |-> Absent] => Fitting(m, executor)
    BY DEF Fitting, Holds
  <1>2. 0 \in 0..MaxFaults
    BY FaultsAssumption
  <1> QED BY <1>1, <1>2 DEF PipelineInit, SoundInv

LEMMA NothingFits ==
  ASSUME NEW tasks
  PROVE  Fitting([r \in Runs |-> Absent], tasks)
  BY DEF Fitting, Holds

\* A task that has stopped, or will do nothing but handle its failure, fits
\* any run.
LEMMA StoppedFits ==
  ASSUME NEW m, NEW tasks, NEW others, Fitting(m, tasks),
         \A r \in Runs : others[r] = tasks[r] \/ others[r] \in {NoTask, Done, At("failing", 0, 0)}
  PROVE  Fitting(m, others)
  <1>1. ASSUME NEW r \in Runs PROVE Holds(m[r], others[r])
    <2>1. \A at \in {NoTask, Done, At("failing", 0, 0)} : Fits(m[r], at)
      BY DEF Fits, NoTask, Done, At
    <2> QED BY <2>1 DEF Fitting, Holds
  <1> QED BY <1>1 DEF Fitting

LEMMA ToldFits ==
  ASSUME told \in [Runs -> {"nothing", "active"} \cup Ended], NEW r \in Runs, NEW run, Tells(r, run)
  PROVE  /\ told' \in [Runs -> {"nothing", "active"} \cup Ended]
         /\ told'[r] = IF run.status \in Ended THEN run.status ELSE "active"
         /\ \A q \in Runs \ {r} : told'[q] = told[q]
  BY DEF Tells

LEMMA CommitFits ==
  ASSUME SoundInv, NEW r \in Runs, NEW run, Holds(run, executor[r]), Commits(r, run),
         UNCHANGED <<initialized, closed, resetting, executor>>
  PROVE  SoundInv'
  <1>1. PICK new : new = [memory EXCEPT ![r] = run]
    OBVIOUS
  <1>2. Fitting(new, executor)
    BY <1>1, OneRunFits DEF SoundInv
  <1>3. Saved(new) \/ SaveFails(new)
    BY <1>1 DEF Commits
  <1>4. /\ Fitting(memory', executor) /\ Fitting(stored', executor) /\ Fitting(last_saved', executor)
        /\ faults' \in 0..MaxFaults
    BY <1>2, <1>3, SavingFits DEF SoundInv
  <1>5. told' \in [Runs -> {"nothing", "active"} \cup Ended]
    BY ToldFits DEF Commits, SoundInv
  <1> QED BY <1>4, <1>5 DEF SoundInv

LEMMA SoundInitialize == ASSUME SoundInv, Initialize PROVE SoundInv'
  <1>1. Fitting(Interrupted(stored), executor)
    BY InterruptedFits DEF SoundInv
  <1>2. initialized' \in BOOLEAN /\ UNCHANGED <<closed, resetting, executor, told>>
    BY DEF Initialize, SoundInv
  <1>3. /\ Fitting(memory', executor) /\ Fitting(stored', executor) /\ Fitting(last_saved', executor)
        /\ faults' \in 0..MaxFaults
    <2>1. CASE Saved(Interrupted(stored))
      BY <1>1, <2>1, SavingFits DEF SoundInv
    <2>2. CASE memory' = stored /\ last_saved' = stored /\ UNCHANGED <<stored, faults>>
      BY <2>2 DEF SoundInv
    <2>3. CASE /\ stored' \in {stored, Interrupted(stored)}
               /\ faults < MaxFaults /\ faults' = faults + 1
               /\ UNCHANGED <<memory, last_saved>>
      BY <1>1, <2>3, FaultsAssumption DEF SoundInv
    <2> QED BY <2>1, <2>2, <2>3 DEF Initialize
  <1> QED BY <1>2, <1>3 DEF SoundInv

LEMMA SoundTrigger ==
  ASSUME SoundInv, NEW r \in Runs, NEW q \in PipelineRequests, Trigger(r, q)
  PROVE  SoundInv'
  <1>1. PICK new : new = [memory EXCEPT ![r] = NewRun(q)]
    OBVIOUS
  <1>2. executor[r] = NoTask /\ UNCHANGED <<initialized, closed, resetting>>
    BY DEF Trigger
  <1>3. Fitting(new, executor)
    BY <1>1, <1>2, OneRunFits, NewRunIsSound DEF SoundInv, Holds
  <1>4. CASE Saved(new) /\ Tells(r, NewRun(q))
             /\ executor' = IF q.auto THEN [executor EXCEPT ![r] = At("begin", 0, 0)] ELSE executor
    <2>1. Fitting(new, executor')
      <3>1. new[r] = NewRun(q)
        BY <1>1 DEF SoundInv, Fitting
      <3>2. ASSUME NEW s \in Runs PROVE Holds(new[s], executor'[s])
        <4>1. CASE s = r /\ q.auto
          <5>1. executor'[s] = At("begin", 0, 0)
            BY <1>4, <4>1 DEF SoundInv
          <5> QED BY <3>1, <4>1, <5>1, NewRunIsSound DEF Holds
        <4>2. CASE ~(s = r /\ q.auto)
          <5>1. executor'[s] = executor[s]
            BY <1>4, <4>2 DEF SoundInv
          <5> QED BY <1>3, <5>1 DEF Fitting
        <4> QED BY <4>1, <4>2
      <3> QED BY <1>3, <3>2 DEF Fitting
    <2>2. memory' = new /\ stored' = new /\ last_saved' = new /\ faults' = faults
      BY <1>4 DEF Saved
    <2>3. executor' = [s \in Runs |-> executor'[s]]
      BY <1>4 DEF SoundInv
    <2>4. told' \in [Runs -> {"nothing", "active"} \cup Ended]
      BY <1>4, ToldFits DEF SoundInv
    <2> QED BY <1>2, <2>1, <2>2, <2>3, <2>4 DEF SoundInv
  <1>5. CASE SaveFails(new) /\ UNCHANGED <<told, executor>>
    <2>1. /\ Fitting(memory', executor) /\ Fitting(stored', executor) /\ Fitting(last_saved', executor)
          /\ faults' \in 0..MaxFaults
      BY <1>3, <1>5, SavingFits DEF SoundInv
    <2> QED BY <1>2, <1>5, <2>1 DEF SoundInv
  <1> QED BY <1>1, <1>4, <1>5 DEF Trigger

LEMMA SoundCancel == ASSUME SoundInv, NEW r \in Runs, Cancel(r) PROVE SoundInv'
  <1>1. memory[r].status \in {"queued", "running"} /\ memory[r] # Absent
    BY AbsentRun DEF Cancel
  <1>2. Sound(memory[r]) /\ Fits(memory[r], executor[r])
    BY <1>1, RunIsSound DEF SoundInv
  <1>3. Holds(EndRun(memory[r], "cancelled"), executor[r])
    <2>1. Grown(memory[r], EndRun(memory[r], "cancelled"))
      BY <1>1, <1>2, EndRunGrows
    <2> QED BY <1>2, <2>1, GrownFits DEF Holds, Grown
  <1> QED BY <1>3, CommitFits DEF Cancel

\* What a callback makes of a run.
LEMMA CallbackApplies ==
  ASSUME NEW run, Sound(run), NEW e \in EventIds, NEW c \in RunCallbacks, CallbackAccepted(run, c),
         NEW new, new = WithEvent(AfterCallback(run, c), e, c)
  PROVE  /\ Sound(new) /\ new.request = run.request
         /\ run.status \in Ended => new.status = run.status
         /\ new.events[e] = c
         /\ \A at : Fits(run, at) => Fits(new, at)
  <1>1. PICK after : after = AfterCallback(run, c)
    OBVIOUS
  <1>2. new = WithEvent(after, e, c)
    BY <1>1
  <1>3. Grown(run, after)
    BY <1>1, CallbackGrows
  <1>4. /\ Sound(new) /\ new.status = after.status /\ new.request = after.request
        /\ new.stages = after.stages /\ new.events[e] = c
    BY <1>2, <1>3, EventKept DEF Grown
  <1>5. ASSUME NEW at, Fits(run, at) PROVE Fits(new, at)
    <2>1. Fits(after, at)
      BY <1>3, <1>5, GrownFits
    <2> QED BY <1>4, <2>1 DEF Fits
  <1> QED BY <1>1, <1>2, <1>3, <1>4, <1>5 DEF Grown

LEMMA SoundCallback ==
  ASSUME SoundInv, NEW r \in Runs, NEW e \in EventIds, NEW c \in RunCallbacks, ApplyCallback(r, e, c)
  PROVE  SoundInv'
  <1>1. memory[r] # Absent /\ CallbackAccepted(memory[r], c)
    BY DEF ApplyCallback
  <1>2. Sound(memory[r]) /\ Fits(memory[r], executor[r])
    BY <1>1, RunIsSound DEF SoundInv
  <1>3. PICK run : run = WithEvent(AfterCallback(memory[r], c), e, c)
    OBVIOUS
  <1>4. Holds(run, executor[r])
    BY <1>1, <1>2, <1>3, CallbackApplies DEF Holds
  <1>5. Commits(r, run) /\ UNCHANGED <<initialized, closed, resetting, executor>>
    BY <1>3 DEF ApplyCallback, WithEvent
  <1> QED BY <1>4, <1>5, CommitFits

LEMMA SoundShutdown == ASSUME SoundInv, Shutdown PROVE SoundInv'
  <1>1. PICK new : new = Interrupted(memory)
    OBVIOUS
  <1>2. Fitting(new, executor)
    BY <1>1, InterruptedFits DEF SoundInv
  <1>3. Saved(new) \/ SaveFails(new)
    BY <1>1 DEF Shutdown
  <1>4. /\ Fitting(memory', executor) /\ Fitting(stored', executor) /\ Fitting(last_saved', executor)
        /\ faults' \in 0..MaxFaults
    BY <1>2, <1>3, SavingFits DEF SoundInv
  <1>5. executor' = executor \/ executor' = [r \in Runs |-> NoTask]
    BY DEF Shutdown
  <1>6. \A r \in Runs : executor'[r] = executor[r] \/ executor'[r] \in {NoTask, Done, At("failing", 0, 0)}
    BY <1>5
  <1>7. Fitting(memory', executor') /\ Fitting(stored', executor') /\ Fitting(last_saved', executor')
    BY <1>4, <1>6, StoppedFits
  <1>8. closed' \in BOOLEAN /\ UNCHANGED <<initialized, resetting, told>>
    BY DEF Shutdown
  <1> QED BY <1>4, <1>5, <1>7, <1>8 DEF SoundInv

LEMMA SoundReset ==
  ASSUME SoundInv, ResetBegins \/ ResetEnds \/ ProcessRestarts
  PROVE  SoundInv'
  <1>1. executor' = [r \in Runs |-> NoTask]
    BY DEF ResetBegins, ResetEnds, ProcessRestarts
  <1>2. \A r \in Runs : executor'[r] = executor[r] \/ executor'[r] \in {NoTask, Done, At("failing", 0, 0)}
    BY <1>1
  <1>3. Fitting(memory, executor') /\ Fitting(stored, executor') /\ Fitting(last_saved, executor')
    BY <1>2, StoppedFits DEF SoundInv
  <1>4. PICK nothing : nothing = [r \in Runs |-> Absent]
    OBVIOUS
  <1>5. Fitting(nothing, executor')
    BY <1>4, NothingFits
  <1>6. /\ memory' \in {memory, nothing} /\ stored' \in {stored, nothing}
        /\ last_saved' \in {last_saved, nothing}
        /\ initialized' \in BOOLEAN /\ closed' \in BOOLEAN /\ resetting' \in BOOLEAN
        /\ faults' = faults \/ (faults < MaxFaults /\ faults' = faults + 1)
        /\ told' = told \/ told' = [r \in Runs |-> "nothing"]
    BY <1>4 DEF ResetBegins, ResetEnds, ProcessRestarts, SoundInv
  <1>7. faults' \in 0..MaxFaults
    BY <1>6, FaultsAssumption DEF SoundInv
  <1>8. told' \in [Runs -> {"nothing", "active"} \cup Ended]
    BY <1>6 DEF SoundInv
  <1> QED BY <1>1, <1>3, <1>5, <1>6, <1>7, <1>8 DEF SoundInv

\* A position that the executor takes without a checkpoint fits the run
\* wherever it is kept.
LEMMA UnsavedFits ==
  ASSUME NEW run, Sound(run), NEW at, Fits(run, at), ~AfterStep(run, at).saves,
         at.step \in {"begin", "stage", "job", "wait", "close", "end"},
         NEW other, Holds(other, at), other # Absent => other.request = run.request
  PROVE  Holds(other, AfterStep(run, at).at)
  <1>1. SUFFICES ASSUME other # Absent PROVE Fits(other, AfterStep(run, at).at)
    BY DEF Holds
  <1>2. PICK outcome : outcome = AfterStep(run, at)
    OBVIOUS
  <1>3. \A new, next : Saves(new, next).saves
    BY DEF Saves
  <1>4. \/ outcome = Leave(run)
        \/ /\ at.step = "stage"
           /\ outcome = [saves |-> FALSE, run |-> run, at |-> NextStage(run, at.stage)]
    BY <1>2, <1>3 DEF AfterStep, AfterBegin, AfterStage, AfterJob, AfterWait
  <1>5. CASE outcome = Leave(run)
    BY <1>2, <1>5 DEF Leave, Fits, Done, At
  <1>6. CASE /\ at.step = "stage"
             /\ outcome = [saves |-> FALSE, run |-> run, at |-> NextStage(run, at.stage)]
    <2>1. at.stage \in DOMAIN run.request.stages /\ outcome.at = NextStage(run, at.stage)
      BY <1>6 DEF Fits
    <2>2. NextStage(run, at.stage).step \in {"stage", "end"}
      BY DEF NextStage, At
    <2>3. NextStage(run, at.stage).step = "stage" =>
            NextStage(run, at.stage).stage \in DOMAIN other.request.stages
      BY <1>1, <2>1, NextStageFits DEF Fits
    <2> QED BY <1>2, <2>1, <2>2, <2>3 DEF Fits
  <1> QED BY <1>4, <1>5, <1>6

\* The executor moves to another position, with or without a checkpoint.
LEMMA SoundExecutorStep ==
  ASSUME SoundInv, RequestInv, NEW r \in Runs, ExecutorStep(r)
  PROVE  SoundInv'
  <1>1. UNCHANGED <<initialized, closed, resetting, told>>
    BY DEF ExecutorStep
  <1>2. CASE memory[r] = Absent
    <2>1. executor' = [executor EXCEPT ![r] = Done] /\ UNCHANGED <<memory, stored, last_saved, faults>>
      BY <1>2 DEF ExecutorStep
    <2>2. /\ \A s \in Runs : executor'[s] = executor[s] \/ executor'[s] \in {NoTask, Done, At("failing", 0, 0)}
          /\ executor' = [s \in Runs |-> executor'[s]]
      BY <2>1 DEF SoundInv
    <2>3. Fitting(memory, executor') /\ Fitting(stored, executor') /\ Fitting(last_saved, executor')
      BY <2>2, StoppedFits DEF SoundInv
    <2> QED BY <1>1, <2>1, <2>2, <2>3 DEF SoundInv
  <1>3. CASE memory[r] # Absent
    <2>1. PICK outcome : outcome = AfterStep(memory[r], executor[r])
      OBVIOUS
    <2>2. PICK new : new = [memory EXCEPT ![r] = outcome.run]
      OBVIOUS
    <2>3. Sound(memory[r]) /\ Fits(memory[r], executor[r])
      BY <1>3, RunIsSound DEF SoundInv
    <2>4. Stepped(memory[r], executor[r], outcome)
      BY <2>1, <2>3, AfterStepSteps DEF ExecutorStep
    <2>5. Sound(outcome.run) /\ Fits(outcome.run, executor[r])
      BY <2>3, <2>4, GrownFits DEF Stepped, Grown
    <2>6. /\ Fitting(new, executor) /\ new[r] = outcome.run
          /\ \A s \in Runs \ {r} : new[s] = memory[s]
      <3>1. Fitting(memory, executor) /\ Holds(outcome.run, executor[r])
        BY <2>5 DEF SoundInv, Holds
      <3>2. PICK run : run = outcome.run
        OBVIOUS
      <3>3. Holds(run, executor[r]) /\ new = [memory EXCEPT ![r] = run]
        BY <2>2, <3>1, <3>2
      <3>4. Fitting(new, executor)
        BY <3>1, <3>3, OneRunFits
      <3>5. new[r] = run /\ \A s \in Runs \ {r} : new[s] = memory[s]
        <4>1. memory = [s \in Runs |-> memory[s]]
          BY <3>1 DEF Fitting
        <4> QED BY <3>3, <4>1
      <3> QED BY <3>2, <3>4, <3>5
    <2>7. CASE /\ IF outcome.saves THEN Saved(new) ELSE UNCHANGED <<memory, stored, last_saved, faults>>
               /\ executor' = [executor EXCEPT ![r] = outcome.at]
      <3>1. /\ executor'[r] = outcome.at /\ \A s \in Runs \ {r} : executor'[s] = executor[s]
            /\ executor' = [s \in Runs |-> executor'[s]]
        BY <2>7 DEF SoundInv
      <3>2. Fits(outcome.run, outcome.at)
        BY <2>4 DEF Stepped
      <3>3. CASE outcome.saves
        <4>1. ASSUME NEW s \in Runs PROVE Holds(new[s], executor'[s])
          <5>1. CASE s = r
            BY <2>5, <2>6, <3>1, <3>2, <5>1 DEF Holds
          <5>2. CASE s # r
            BY <2>6, <3>1, <5>2 DEF Fitting
          <5> QED BY <5>1, <5>2
        <4>2. Fitting(new, executor')
          BY <2>6, <4>1 DEF Fitting
        <4>3. memory' = new /\ stored' = new /\ last_saved' = new /\ faults' = faults
          BY <2>7, <3>3 DEF Saved
        <4> QED BY <1>1, <3>1, <4>2, <4>3 DEF SoundInv
      <3>4. CASE ~outcome.saves
        <4>1. UNCHANGED <<memory, stored, last_saved, faults>>
          BY <2>7, <3>4
        <4>2. ASSUME NEW m, m \in {memory, stored, last_saved}, Fitting(m, executor)
              PROVE  Fitting(m, executor')
          <5>1. m[r] # Absent => m[r].request = memory[r].request
            <6>1. executor[r] # NoTask
              BY DEF ExecutorStep, NoTask, At
            <6>2. SameRequest(r) /\ m[r] \in {memory[r], stored[r], last_saved[r]}
              BY <4>2, <6>1 DEF RequestInv
            <6> QED BY <1>3, <6>2 DEF SameRequest
          <5>2. Holds(m[r], outcome.at)
            BY <2>1, <2>3, <3>4, <4>2, <5>1, UnsavedFits DEF ExecutorStep, Fitting
          <5>3. ASSUME NEW s \in Runs PROVE Holds(m[s], executor'[s])
            BY <3>1, <4>2, <5>2 DEF Fitting
          <5> QED BY <4>2, <5>3 DEF Fitting
        <4> QED BY <4>1, <4>2, <1>1, <3>1 DEF SoundInv
      <3> QED BY <3>3, <3>4
    <2>8. CASE outcome.saves /\ SaveFails(new) /\ executor' = [executor EXCEPT ![r] = At("failing", 0, 0)]
      <3>1. /\ Fitting(memory', executor) /\ Fitting(stored', executor) /\ Fitting(last_saved', executor)
            /\ faults' \in 0..MaxFaults
        BY <2>6, <2>8, SavingFits DEF SoundInv
      <3>2. /\ \A s \in Runs : executor'[s] = executor[s] \/ executor'[s] \in {NoTask, Done, At("failing", 0, 0)}
            /\ executor' = [s \in Runs |-> executor'[s]]
        BY <2>8 DEF SoundInv
      <3>3. Fitting(memory', executor') /\ Fitting(stored', executor') /\ Fitting(last_saved', executor')
        BY <3>1, <3>2, StoppedFits
      <3> QED BY <1>1, <3>1, <3>2, <3>3 DEF SoundInv
    <2> QED BY <1>3, <2>1, <2>2, <2>7, <2>8 DEF ExecutorStep
  <1> QED BY <1>2, <1>3

LEMMA SoundExecutorFails == ASSUME SoundInv, NEW r \in Runs, ExecutorFails(r) PROVE SoundInv'
  <1>1. UNCHANGED <<initialized, closed, resetting, told>> /\ executor' = [executor EXCEPT ![r] = Done]
    BY DEF ExecutorFails
  <1>2. /\ Fitting(memory', executor) /\ Fitting(stored', executor) /\ Fitting(last_saved', executor)
        /\ faults' \in 0..MaxFaults
    <2>1. CASE memory[r].status \in {"queued", "running"}
      <3>1. PICK new : new = [memory EXCEPT ![r] = EndRun(memory[r], "failed")]
        OBVIOUS
      <3>2. memory[r] # Absent
        BY <2>1, AbsentRun
      <3>3. Sound(memory[r]) /\ Fits(memory[r], executor[r])
        BY <3>2, RunIsSound DEF SoundInv
      <3>4. Grown(memory[r], EndRun(memory[r], "failed"))
        BY <2>1, <3>3, EndRunGrows
      <3>5. Holds(EndRun(memory[r], "failed"), executor[r])
        BY <3>3, <3>4, GrownFits DEF Holds, Grown
      <3>6. Fitting(new, executor)
        BY <3>1, <3>5, OneRunFits DEF SoundInv
      <3>7. Saved(new) \/ SaveFails(new)
        BY <2>1, <3>1 DEF ExecutorFails
      <3> QED BY <3>6, <3>7, SavingFits DEF SoundInv
    <2>2. CASE memory[r].status \notin {"queued", "running"}
      BY <2>2 DEF ExecutorFails, SoundInv
    <2> QED BY <2>1, <2>2
  <1>3. /\ \A s \in Runs : executor'[s] = executor[s] \/ executor'[s] \in {NoTask, Done, At("failing", 0, 0)}
        /\ executor' = [s \in Runs |-> executor'[s]]
    BY <1>1 DEF SoundInv
  <1>4. Fitting(memory', executor') /\ Fitting(stored', executor') /\ Fitting(last_saved', executor')
    BY <1>2, <1>3, StoppedFits
  <1> QED BY <1>1, <1>2, <1>3, <1>4 DEF SoundInv

LEMMA SoundNext == ASSUME SoundInv, RequestInv, [PipelineNext]_pipelineVars PROVE SoundInv'
  <1>1. CASE Initialize
    BY <1>1, SoundInitialize
  <1>2. CASE \E r \in Runs, q \in PipelineRequests : Trigger(r, q)
    BY <1>2, SoundTrigger
  <1>3. CASE \E r \in Runs : Query(r)
    <2>1. PICK r \in Runs : Query(r)
      BY <1>3
    <2>2. told' \in [Runs -> {"nothing", "active"} \cup Ended]
      BY <2>1, ToldFits DEF Query, SoundInv
    <2>3. UNCHANGED <<memory, stored, last_saved, initialized, closed, resetting, executor, faults>>
      BY <2>1 DEF Query
    <2> QED BY <2>2, <2>3 DEF SoundInv
  <1>4. CASE \E r \in Runs : Cancel(r)
    BY <1>4, SoundCancel
  <1>5. CASE \E r \in Runs, e \in EventIds, c \in RunCallbacks : ApplyCallback(r, e, c)
    BY <1>5, SoundCallback
  <1>6. CASE Shutdown
    BY <1>6, SoundShutdown
  <1>7. CASE ResetBegins \/ ResetEnds \/ ProcessRestarts
    BY <1>7, SoundReset
  <1>8. CASE \E r \in Runs : ExecutorStep(r)
    BY <1>8, SoundExecutorStep
  <1>9. CASE \E r \in Runs : ExecutorFails(r)
    BY <1>9, SoundExecutorFails
  <1>10. CASE UNCHANGED pipelineVars
    BY <1>10 DEF pipelineVars, SoundInv, Fitting
  <1> QED BY <1>1, <1>2, <1>3, <1>4, <1>5, <1>6, <1>7, <1>8, <1>9, <1>10 DEF PipelineNext

-----------------------------------------------------------------------------
(* A run with a task has one request.                                      *)

\* Each store becomes another one, or one whose runs have the requests they had.
LEMMA RequestsKept ==
  ASSUME RequestInv, NEW new,
         \A r \in Runs : executor'[r] # NoTask =>
           /\ executor[r] # NoTask
           /\ new[r] # Absent =>
                \E x \in {memory[r], stored[r], last_saved[r]} : x # Absent /\ new[r].request = x.request
           /\ {memory'[r], stored'[r], last_saved'[r]} \subseteq {memory[r], stored[r], last_saved[r], new[r]}
  PROVE  RequestInv'
  <1>1. ASSUME NEW r \in Runs, executor'[r] # NoTask,
               NEW a \in {memory'[r], stored'[r], last_saved'[r]},
               NEW b \in {memory'[r], stored'[r], last_saved'[r]}, a # Absent, b # Absent
        PROVE  a.request = b.request
    <2>1. SameRequest(r)
      BY <1>1 DEF RequestInv
    <2>2. ASSUME NEW x \in {memory'[r], stored'[r], last_saved'[r]}, x # Absent
          PROVE  \E y \in {memory[r], stored[r], last_saved[r]} : y # Absent /\ x.request = y.request
      BY <1>1, <2>2
    <2>3. PICK y \in {memory[r], stored[r], last_saved[r]} : y # Absent /\ a.request = y.request
      BY <1>1, <2>2
    <2>4. PICK z \in {memory[r], stored[r], last_saved[r]} : z # Absent /\ b.request = z.request
      BY <1>1, <2>2
    <2> QED BY <2>1, <2>3, <2>4 DEF SameRequest
  <1> QED BY <1>1 DEF RequestInv, SameRequest

LEMMA RequestsSaved == ASSUME NEW new, Saved(new) PROVE RequestInv'
  BY DEF Saved, RequestInv, SameRequest

\* A checkpoint of runs that have the requests they had.
LEMMA RequestsAfterSave ==
  ASSUME RequestInv, NEW new, Saved(new) \/ SaveFails(new),
         \A r \in Runs : executor'[r] # NoTask => executor[r] # NoTask,
         \A r \in Runs : executor[r] # NoTask /\ new[r] # Absent =>
           memory[r] # Absent /\ new[r].request = memory[r].request
  PROVE  RequestInv'
  <1>1. CASE Saved(new)
    BY <1>1, RequestsSaved
  <1>2. CASE SaveFails(new)
    <2>1. stored' \in {stored, new} /\ memory' \in {stored', last_saved} /\ last_saved' = last_saved
      BY <1>2 DEF SaveFails
    <2>2. \A r \in Runs :
            {memory'[r], stored'[r], last_saved'[r]} \subseteq {memory[r], stored[r], last_saved[r], new[r]}
      BY <2>1
    <2> QED BY <2>2, RequestsKept
  <1> QED BY <1>1, <1>2

\* The same, of one run.
LEMMA RequestAfterSave ==
  ASSUME RequestInv, SoundInv, NEW r \in Runs, NEW run, NEW new, new = [memory EXCEPT ![r] = run],
         memory[r] # Absent, run.request = memory[r].request, Saved(new) \/ SaveFails(new),
         \A s \in Runs : executor'[s] # NoTask => executor[s] # NoTask
  PROVE  RequestInv'
  <1>1. memory = [s \in Runs |-> memory[s]]
    BY DEF SoundInv, Fitting
  <1>2. new[r] = run /\ \A s \in Runs \ {r} : new[s] = memory[s]
    BY <1>1
  <1>3. \A s \in Runs : new[s] # Absent => memory[s] # Absent /\ new[s].request = memory[s].request
    BY <1>2
  <1> QED BY <1>3, RequestsAfterSave

LEMMA RequestNext == ASSUME SoundInv, RequestInv, [PipelineNext]_pipelineVars PROVE RequestInv'
  <1>1. CASE Initialize
    <2>1. UNCHANGED executor
      BY <1>1 DEF Initialize
    <2>2. CASE Saved(Interrupted(stored))
      BY <2>2, RequestsSaved
    <2>3. CASE ~Saved(Interrupted(stored))
      <3>1. PICK new : new = Interrupted(stored)
        OBVIOUS
      <3>2. \A r \in Runs : new[r] # Absent => stored[r] # Absent /\ new[r].request = stored[r].request
        BY <3>1, InterruptedFits DEF SoundInv, Grown
      <3>3. stored' \in {stored, new} /\ memory' \in {memory, stored} /\ last_saved' \in {last_saved, stored}
        BY <1>1, <2>3, <3>1 DEF Initialize
      <3>4. \A r \in Runs :
              {memory'[r], stored'[r], last_saved'[r]} \subseteq {memory[r], stored[r], last_saved[r], new[r]}
        BY <3>3
      <3> QED BY <2>1, <3>2, <3>4, RequestsKept
    <2> QED BY <2>2, <2>3
  <1>2. CASE \E r \in Runs, q \in PipelineRequests : Trigger(r, q)
    <2>1. PICK r \in Runs, q \in PipelineRequests : Trigger(r, q)
      BY <1>2
    <2>2. PICK new : new = [memory EXCEPT ![r] = NewRun(q)]
      OBVIOUS
    <2>3. CASE Saved(new)
      BY <2>3, RequestsSaved
    <2>4. CASE SaveFails(new) /\ UNCHANGED executor
      <3>1. executor[r] = NoTask /\ memory = [s \in Runs |-> memory[s]]
        BY <2>1 DEF Trigger, SoundInv, Fitting
      <3>2. \A s \in Runs : executor[s] # NoTask => new[s] = memory[s]
        BY <2>2, <3>1
      <3> QED BY <2>4, <3>2, RequestsAfterSave
    <2> QED BY <2>1, <2>2, <2>3, <2>4 DEF Trigger
  <1>3. CASE \E r \in Runs : Query(r)
    BY <1>3 DEF Query, RequestInv, SameRequest
  <1>4. CASE \E r \in Runs : Cancel(r)
    <2>1. PICK r \in Runs : Cancel(r)
      BY <1>4
    <2>2. memory[r] # Absent /\ memory[r].status \in {"queued", "running"} /\ UNCHANGED executor
      BY <2>1, AbsentRun DEF Cancel
    <2>3. PICK run : run = EndRun(memory[r], "cancelled")
      OBVIOUS
    <2>4. run.request = memory[r].request
      BY <2>2, <2>3, RunIsSound, EndRunGrows DEF SoundInv, Grown
    <2>5. PICK new : new = [memory EXCEPT ![r] = run]
      OBVIOUS
    <2>6. Saved(new) \/ SaveFails(new)
      BY <2>1, <2>3, <2>5 DEF Cancel, Commits
    <2> QED BY <2>2, <2>4, <2>5, <2>6, RequestAfterSave
  <1>5. CASE \E r \in Runs, e \in EventIds, c \in RunCallbacks : ApplyCallback(r, e, c)
    <2>1. PICK r \in Runs, e \in EventIds, c \in RunCallbacks : ApplyCallback(r, e, c)
      BY <1>5
    <2>2. memory[r] # Absent /\ CallbackAccepted(memory[r], c) /\ UNCHANGED executor
      BY <2>1 DEF ApplyCallback
    <2>3. PICK run : run = WithEvent(AfterCallback(memory[r], c), e, c)
      OBVIOUS
    <2>4. run.request = memory[r].request
      <3>1. Sound(memory[r])
        BY <2>2, RunIsSound DEF SoundInv
      <3> QED BY <2>2, <2>3, <3>1, CallbackApplies
    <2>5. PICK new : new = [memory EXCEPT ![r] = run]
      OBVIOUS
    <2>6. Saved(new) \/ SaveFails(new)
      BY <2>1, <2>3, <2>5 DEF ApplyCallback, WithEvent, Commits
    <2> QED BY <2>2, <2>4, <2>5, <2>6, RequestAfterSave
  <1>6. CASE Shutdown
    <2>1. PICK new : new = Interrupted(memory)
      OBVIOUS
    <2>2. \A r \in Runs : new[r] # Absent => memory[r] # Absent /\ new[r].request = memory[r].request
      BY <2>1, InterruptedFits DEF SoundInv, Grown
    <2>3. Saved(new) \/ SaveFails(new)
      BY <1>6, <2>1 DEF Shutdown
    <2>4. \A r \in Runs : executor'[r] # NoTask => executor[r] # NoTask
      BY <1>6 DEF Shutdown
    <2> QED BY <2>2, <2>3, <2>4, RequestsAfterSave
  <1>7. CASE ResetBegins \/ ResetEnds \/ ProcessRestarts
    <2>1. executor' = [r \in Runs |-> NoTask]
      BY <1>7 DEF ResetBegins, ResetEnds, ProcessRestarts
    <2> QED BY <2>1 DEF RequestInv
  <1>8. CASE \E r \in Runs : ExecutorStep(r)
    <2>1. PICK r \in Runs : ExecutorStep(r)
      BY <1>8
    <2>2. executor[r] # NoTask
      BY <2>1 DEF ExecutorStep, NoTask, At
    <2>3. \A s \in Runs : executor'[s] # NoTask => executor[s] # NoTask
      <3>1. \A s \in Runs \ {r} : executor'[s] = executor[s]
        BY <2>1 DEF ExecutorStep, SoundInv
      <3> QED BY <2>2, <3>1
    <2>4. CASE UNCHANGED <<memory, stored, last_saved>>
      BY <2>3, <2>4 DEF RequestInv, SameRequest
    <2>5. CASE memory[r] # Absent /\ ~UNCHANGED <<memory, stored, last_saved>>
      <3>1. PICK run : run = AfterStep(memory[r], executor[r]).run
        OBVIOUS
      <3>2. PICK new : new = [memory EXCEPT ![r] = run]
        OBVIOUS
      <3>3. Saved(new) \/ SaveFails(new)
        BY <2>1, <2>5, <3>1, <3>2 DEF ExecutorStep
      <3>4. run.request = memory[r].request
        BY <2>1, <2>5, <3>1, RunIsSound, AfterStepSteps DEF ExecutorStep, SoundInv, Stepped, Grown
      <3> QED BY <2>3, <2>5, <3>2, <3>3, <3>4, RequestAfterSave
    <2> QED BY <2>1, <2>4, <2>5 DEF ExecutorStep
  <1>9. CASE \E r \in Runs : ExecutorFails(r)
    <2>1. PICK r \in Runs : ExecutorFails(r)
      BY <1>9
    <2>2. \A s \in Runs : executor'[s] # NoTask => executor[s] # NoTask
      <3>1. executor[r] # NoTask /\ \A s \in Runs \ {r} : executor'[s] = executor[s]
        BY <2>1 DEF ExecutorFails, SoundInv, NoTask, At
      <3> QED BY <3>1
    <2>3. CASE UNCHANGED <<memory, stored, last_saved>>
      BY <2>2, <2>3 DEF RequestInv, SameRequest
    <2>4. CASE ~UNCHANGED <<memory, stored, last_saved>>
      <3>1. PICK run : run = EndRun(memory[r], "failed")
        OBVIOUS
      <3>2. PICK new : new = [memory EXCEPT ![r] = run]
        OBVIOUS
      <3>3. memory[r].status \in {"queued", "running"} /\ (Saved(new) \/ SaveFails(new))
        BY <2>1, <2>4, <3>1, <3>2 DEF ExecutorFails
      <3>4. memory[r] # Absent
        BY <3>3, AbsentRun
      <3>5. run.request = memory[r].request
        BY <3>1, <3>3, <3>4, RunIsSound, EndRunGrows DEF SoundInv, Grown
      <3> QED BY <2>2, <3>2, <3>3, <3>4, <3>5, RequestAfterSave
    <2> QED BY <2>3, <2>4
  <1>10. CASE UNCHANGED pipelineVars
    BY <1>10 DEF pipelineVars, RequestInv, SameRequest
  <1> QED BY <1>1, <1>2, <1>3, <1>4, <1>5, <1>6, <1>7, <1>8, <1>9, <1>10 DEF PipelineNext

-----------------------------------------------------------------------------
(* What clients were told stays.                                           *)

\* The runs of n are those of m, further on.
Carries(m, n) ==
  \A r \in Runs :
    /\ m[r] = Absent <=> n[r] = Absent
    /\ m[r] # Absent => n[r].request = m[r].request
    /\ m[r] # Absent /\ m[r].status \in Ended => n[r].status = m[r].status

LEMMA CarriedTruth ==
  ASSUME NEW m, NEW n, Carries(m, n)
  PROVE  /\ \A r \in Runs : Precedes(m[r], n[r])
         /\ \A answers : Truthful(m, answers) => Truthful(n, answers)
  <1>1. ASSUME OneKey(m) PROVE OneKey(n)
    BY <1>1 DEF OneKey, Carries
  <1>2. ASSUME NEW r \in Runs, NEW answer, AsTold(m[r], answer) PROVE AsTold(n[r], answer)
    BY <1>2 DEF AsTold, Carries
  <1>3. \A r \in Runs : Precedes(m[r], n[r])
    BY DEF Carries, Precedes
  <1> QED BY <1>1, <1>2, <1>3 DEF Truthful

\* One run is further on.
LEMMA OneRunCarries ==
  ASSUME SoundInv, NEW r \in Runs, memory[r] # Absent, NEW run, Sound(run),
         run.request = memory[r].request, memory[r].status \in Ended => run.status = memory[r].status,
         NEW new, new = [memory EXCEPT ![r] = run]
  PROVE  Carries(memory, new) /\ new[r] = run
  <1>1. memory = [s \in Runs |-> memory[s]]
    BY DEF SoundInv, Fitting
  <1>2. new[r] = run /\ \A s \in Runs \ {r} : new[s] = memory[s]
    BY <1>1
  <1>3. run # Absent
    BY SoundIsPresent
  <1> QED BY <1>2, <1>3 DEF Carries

LEMMA InterruptedCarries ==
  ASSUME NEW m, NEW tasks, Fitting(m, tasks)
  PROVE  Carries(m, Interrupted(m))
  BY InterruptedFits DEF Carries, Grown

LEMMA NothingIsTrue ==
  \A answers : Truthful([r \in Runs |-> Absent], answers) <=> \A r \in Runs : answers[r] = "nothing"
  BY DEF Truthful, OneKey, AsTold

\* A successful checkpoint.
LEMMA KeepsAfterSaved ==
  ASSUME KeepInv, NEW new, Saved(new), faults < 3 => Truthful(new, told'),
         \A r \in Runs : initialized' \/ executor'[r] = NoTask
  PROVE  KeepInv'
  <1>1. memory' = new /\ stored' = new /\ last_saved' = new /\ faults' = faults
    BY DEF Saved
  <1>2. \A r \in Runs : Precedes(new[r], new[r])
    BY DEF Precedes
  <1> QED BY <1>1, <1>2 DEF KeepInv

\* A failed one.
LEMMA KeepsAfterFailure ==
  ASSUME KeepInv, SoundInv, initialized, initialized', UNCHANGED told, NEW new, SaveFails(new),
         faults < 3 => Truthful(new, told) /\ \A r \in Runs : Precedes(memory[r], new[r])
  PROVE  KeepInv'
  <1>1. /\ faults \in Nat /\ stored' \in {stored, new}
        /\ \/ memory' = stored' /\ faults' = faults + 1
           \/ memory' = last_saved /\ faults' = faults + 2
    BY DEF SaveFails, SoundInv
  <1>2. SUFFICES ASSUME faults' < 3
                 PROVE  /\ Truthful(stored', told) /\ Truthful(memory', told)
                        /\ \A r \in Runs : Precedes(memory'[r], stored'[r])
    BY <1>1 DEF KeepInv
  <1>3. Truthful(stored, told) /\ Truthful(new, told) /\ Truthful(memory, told) /\ faults < 3
    BY <1>1, <1>2 DEF KeepInv
  <1>4. CASE memory' = stored' /\ faults' = faults + 1
    BY <1>1, <1>3, <1>4 DEF Precedes
  <1>5. CASE memory' = last_saved /\ faults' = faults + 2
    <2>1. faults = 0
      BY <1>1, <1>2, <1>5
    <2>2. memory' = memory
      BY <1>5, <2>1 DEF KeepInv
    <2>3. \A r \in Runs : Precedes(memory[r], stored[r]) /\ Precedes(memory[r], new[r])
      BY <1>3 DEF KeepInv
    <2> QED BY <1>1, <1>3, <2>2, <2>3
  <1> QED BY <1>1, <1>4, <1>5

\* An operation that makes something of one run or of all.
LEMMA KeepsAfterCarrying ==
  ASSUME KeepInv, SoundInv, initialized, initialized', UNCHANGED told, NEW new, Carries(memory, new),
         Saved(new) \/ SaveFails(new)
  PROVE  KeepInv'
  <1>1. faults < 3 => Truthful(new, told) /\ \A r \in Runs : Precedes(memory[r], new[r])
    BY CarriedTruth DEF KeepInv
  <1> QED BY <1>1, KeepsAfterSaved, KeepsAfterFailure

LEMMA ToldTruth ==
  ASSUME SoundInv, NEW r \in Runs, NEW run, run # Absent, Tells(r, run), NEW m, Truthful(m, told),
         Precedes(run, m[r])
  PROVE  Truthful(m, told')
  <1>1. /\ told'[r] = IF run.status \in Ended THEN run.status ELSE "active"
        /\ \A q \in Runs \ {r} : told'[q] = told[q]
    BY ToldFits DEF SoundInv
  <1>2. AsTold(m[r], told'[r])
    BY <1>1 DEF AsTold, Precedes, Ended
  <1> QED BY <1>1, <1>2 DEF Truthful

LEMMA KeepsAfterCommit ==
  ASSUME KeepInv, SoundInv, initialized, initialized', NEW r \in Runs, memory[r] # Absent, NEW run,
         Sound(run), run.request = memory[r].request,
         memory[r].status \in Ended => run.status = memory[r].status, Commits(r, run)
  PROVE  KeepInv'
  <1>1. PICK new : new = [memory EXCEPT ![r] = run]
    OBVIOUS
  <1>2. Carries(memory, new) /\ new[r] = run
    BY <1>1, OneRunCarries
  <1>3. CASE Saved(new) /\ Tells(r, run)
    <2>1. faults < 3 => Truthful(new, told')
      <3>1. SUFFICES ASSUME faults < 3 PROVE Truthful(new, told')
        OBVIOUS
      <3>2. Truthful(new, told)
        BY <1>2, <3>1, CarriedTruth DEF KeepInv
      <3>3. run # Absent /\ Precedes(run, new[r])
        BY <1>2, SoundIsPresent DEF Precedes
      <3> QED BY <1>3, <3>2, <3>3, ToldTruth
    <2> QED BY <1>3, <2>1, KeepsAfterSaved
  <1>4. CASE SaveFails(new) /\ UNCHANGED told
    BY <1>2, <1>4, KeepsAfterCarrying
  <1> QED BY <1>1, <1>3, <1>4 DEF Commits

LEMMA KeepInit == PipelineInit => KeepInv
  BY NothingIsTrue DEF PipelineInit, KeepInv, Precedes

LEMMA KeepInitialize == ASSUME SoundInv, KeepInv, Initialize PROVE KeepInv'
  <1>1. ~initialized /\ UNCHANGED <<executor, told>>
    BY DEF Initialize
  <1>2. PICK new : new = Interrupted(stored)
    OBVIOUS
  <1>3. faults < 3 => Truthful(stored, told) /\ Truthful(new, told)
    <2>1. Carries(stored, new)
      BY <1>2, InterruptedCarries DEF SoundInv
    <2> QED BY <2>1, CarriedTruth DEF KeepInv
  <1>4. CASE initialized' = TRUE /\ memory' = stored /\ last_saved' = stored /\ UNCHANGED <<stored, faults>>
    <2>1. \A r \in Runs : Precedes(stored[r], stored[r])
      BY DEF Precedes
    <2> QED BY <1>1, <1>3, <1>4, <2>1 DEF KeepInv
  <1>5. CASE Saved(new) /\ initialized' = TRUE
    BY <1>1, <1>3, <1>5, KeepsAfterSaved
  <1>6. CASE /\ stored' \in {stored, new} /\ faults' = faults + 1
             /\ UNCHANGED <<memory, last_saved, initialized>>
    <2>1. faults \in Nat
      BY DEF SoundInv
    <2> QED BY <1>1, <1>3, <1>6, <2>1 DEF KeepInv
  <1> QED BY <1>2, <1>4, <1>5, <1>6 DEF Initialize

LEMMA KeepTrigger ==
  ASSUME SoundInv, KeepInv, NEW r \in Runs, NEW q \in PipelineRequests, Trigger(r, q)
  PROVE  KeepInv'
  <1>1. /\ initialized /\ initialized' = initialized
        /\ memory[r] = Absent /\ stored[r] = Absent /\ told[r] = "nothing"
        /\ q.key # "none" => KeyOwners(q.key) = {}
    BY DEF Trigger, Open
  <1>2. PICK run : run = NewRun(q)
    OBVIOUS
  <1>3. Sound(run) /\ run.request = q /\ run # Absent
    BY <1>2, NewRunIsSound, SoundIsPresent
  <1>4. PICK new : new = [memory EXCEPT ![r] = run]
    OBVIOUS
  <1>5. new[r] = run /\ \A s \in Runs \ {r} : new[s] = memory[s]
    <2>1. memory = [s \in Runs |-> memory[s]]
      BY DEF SoundInv, Fitting
    <2> QED BY <1>4, <2>1
  <1>6. faults < 3 => Truthful(new, told) /\ \A s \in Runs : Precedes(memory[s], new[s])
    <2>1. SUFFICES ASSUME faults < 3
                   PROVE  Truthful(new, told) /\ \A s \in Runs : Precedes(memory[s], new[s])
      OBVIOUS
    <2>2. Truthful(memory, told)
      BY <1>1, <2>1 DEF KeepInv
    <2>3. ASSUME NEW s \in Runs, NEW t \in Runs, new[s] # Absent, new[t] # Absent,
                 new[s].request.key = new[t].request.key
          PROVE  s = t \/ new[s].request.key = "none"
      <3>1. CASE s # r /\ t # r
        BY <1>5, <2>2, <2>3, <3>1 DEF Truthful, OneKey
      <3>2. CASE s = r /\ t # r
        BY <1>1, <1>3, <1>5, <2>3, <3>2 DEF KeyOwners
      <3>3. CASE s # r /\ t = r
        BY <1>1, <1>3, <1>5, <2>3, <3>3 DEF KeyOwners
      <3> QED BY <3>1, <3>2, <3>3
    <2>4. ASSUME NEW s \in Runs PROVE AsTold(new[s], told[s]) /\ Precedes(memory[s], new[s])
      BY <1>1, <1>5, <2>2 DEF Truthful, AsTold, Precedes
    <2> QED BY <2>3, <2>4 DEF Truthful, OneKey
  <1>7. CASE Saved(new) /\ Tells(r, run)
    <2>1. faults < 3 => Truthful(new, told')
      <3>1. SUFFICES ASSUME faults < 3 PROVE Truthful(new, told')
        OBVIOUS
      <3>2. Truthful(new, told) /\ Precedes(run, new[r])
        BY <1>3, <1>5, <1>6, <3>1 DEF Precedes
      <3> QED BY <1>3, <1>7, <3>2, ToldTruth
    <2> QED BY <1>1, <1>7, <2>1, KeepsAfterSaved
  <1>8. CASE SaveFails(new) /\ UNCHANGED told
    BY <1>1, <1>6, <1>8, KeepsAfterFailure
  <1> QED BY <1>2, <1>4, <1>7, <1>8 DEF Trigger

LEMMA KeepQuery == ASSUME SoundInv, KeepInv, NEW r \in Runs, Query(r) PROVE KeepInv'
  <1>1. /\ initialized /\ memory[r] # Absent /\ Tells(r, memory[r])
        /\ UNCHANGED <<memory, stored, last_saved, initialized, executor, faults>>
    BY DEF Query
  <1>2. ASSUME faults < 3 PROVE Truthful(stored, told') /\ Truthful(memory, told')
    <2>1. Truthful(stored, told) /\ Precedes(memory[r], stored[r])
      BY <1>1, <1>2 DEF KeepInv
    <2>2. Truthful(memory, told) /\ Precedes(memory[r], memory[r])
      BY <1>1, <1>2 DEF KeepInv, Precedes
    <2> QED BY <1>1, <2>1, <2>2, ToldTruth
  <1> QED BY <1>1, <1>2 DEF KeepInv

LEMMA KeepReset == ASSUME SoundInv, KeepInv, ResetBegins \/ ResetEnds \/ ProcessRestarts PROVE KeepInv'
  <1>1. executor' = [r \in Runs |-> NoTask] /\ faults \in Nat
    BY DEF ResetBegins, ResetEnds, ProcessRestarts, SoundInv
  <1>2. CASE ResetBegins
    BY <1>1, <1>2 DEF ResetBegins, KeepInv
  <1>3. CASE ResetEnds
    <2>1. PICK nothing : nothing = [r \in Runs |-> Absent]
      OBVIOUS
    <2>2. /\ memory' = nothing /\ told' = [r \in Runs |-> "nothing"]
          /\ \/ stored' = nothing /\ last_saved' = nothing /\ faults' = faults
             \/ stored' = stored /\ faults' = faults + 1
      BY <1>3, <2>1 DEF ResetEnds
    <2>3. Truthful(nothing, told')
      BY <2>1, <2>2, NothingIsTrue
    <2>4. faults < 3 => Truthful(stored, told')
      BY <2>2 DEF KeepInv, Truthful, AsTold
    <2>5. \A r \in Runs : Precedes(nothing[r], stored'[r])
      BY <2>1 DEF Precedes
    <2>6. CASE stored' = nothing /\ last_saved' = nothing /\ faults' = faults
      BY <1>1, <2>2, <2>3, <2>5, <2>6 DEF KeepInv
    <2>7. CASE stored' = stored /\ faults' = faults + 1
      BY <1>1, <2>2, <2>3, <2>4, <2>5, <2>7 DEF KeepInv
    <2> QED BY <2>2, <2>6, <2>7
  <1>4. CASE ProcessRestarts
    BY <1>1, <1>4 DEF ProcessRestarts, KeepInv
  <1> QED BY <1>2, <1>3, <1>4

LEMMA KeepExecutor ==
  ASSUME SoundInv, KeepInv, NEW r \in Runs, ExecutorStep(r) \/ ExecutorFails(r)
  PROVE  KeepInv'
  <1>1. executor[r] # NoTask /\ UNCHANGED <<initialized, told>>
    BY DEF ExecutorStep, ExecutorFails, NoTask, At
  <1>2. initialized
    BY <1>1 DEF KeepInv
  <1>3. CASE UNCHANGED <<memory, stored, last_saved, faults>>
    BY <1>1, <1>2, <1>3 DEF KeepInv
  <1>4. CASE ~UNCHANGED <<memory, stored, last_saved, faults>>
    <2>1. PICK run, new :
            /\ memory[r] # Absent /\ Grown(memory[r], run) /\ new = [memory EXCEPT ![r] = run]
            /\ Saved(new) \/ SaveFails(new)
      <3>1. CASE ExecutorStep(r)
        <4>1. memory[r] # Absent
          BY <1>4, <3>1 DEF ExecutorStep
        <4>2. Grown(memory[r], AfterStep(memory[r], executor[r]).run)
          BY <3>1, <4>1, RunIsSound, AfterStepSteps DEF ExecutorStep, SoundInv, Stepped
        <4>3. LET new == [memory EXCEPT ![r] = AfterStep(memory[r], executor[r]).run]
              IN  Saved(new) \/ SaveFails(new)
          BY <1>4, <3>1, <4>1 DEF ExecutorStep
        <4> QED BY <4>1, <4>2, <4>3
      <3>2. CASE ExecutorFails(r)
        <4>1. memory[r].status \in {"queued", "running"}
          BY <1>4, <3>2 DEF ExecutorFails
        <4>2. memory[r] # Absent
          BY <4>1, AbsentRun
        <4>3. Grown(memory[r], EndRun(memory[r], "failed"))
          BY <4>1, <4>2, RunIsSound, EndRunGrows DEF SoundInv
        <4>4. LET new == [memory EXCEPT ![r] = EndRun(memory[r], "failed")]
              IN  Saved(new) \/ SaveFails(new)
          BY <3>2, <4>1 DEF ExecutorFails
        <4> QED BY <4>2, <4>3, <4>4
      <3> QED BY <3>1, <3>2
    <2>2. Carries(memory, new)
      BY <2>1, OneRunCarries DEF Grown
    <2> QED BY <1>1, <1>2, <2>1, <2>2, KeepsAfterCarrying
  <1> QED BY <1>3, <1>4

LEMMA KeepNext == ASSUME SoundInv, KeepInv, [PipelineNext]_pipelineVars PROVE KeepInv'
  <1>1. CASE Initialize
    BY <1>1, KeepInitialize
  <1>2. CASE \E r \in Runs, q \in PipelineRequests : Trigger(r, q)
    BY <1>2, KeepTrigger
  <1>3. CASE \E r \in Runs : Query(r)
    BY <1>3, KeepQuery
  <1>4. CASE \E r \in Runs : Cancel(r)
    <2>1. PICK r \in Runs : Cancel(r)
      BY <1>4
    <2>2. /\ initialized /\ initialized' /\ memory[r].status \in {"queued", "running"}
          /\ memory[r] # Absent /\ Commits(r, EndRun(memory[r], "cancelled"))
      BY <2>1, AbsentRun DEF Cancel, Open
    <2>3. Grown(memory[r], EndRun(memory[r], "cancelled"))
      BY <2>2, RunIsSound, EndRunGrows DEF SoundInv
    <2> QED BY <2>2, <2>3, KeepsAfterCommit DEF Grown
  <1>5. CASE \E r \in Runs, e \in EventIds, c \in RunCallbacks : ApplyCallback(r, e, c)
    <2>1. PICK r \in Runs, e \in EventIds, c \in RunCallbacks : ApplyCallback(r, e, c)
      BY <1>5
    <2>2. PICK run : run = WithEvent(AfterCallback(memory[r], c), e, c)
      OBVIOUS
    <2>3. /\ initialized /\ initialized' /\ memory[r] # Absent /\ CallbackAccepted(memory[r], c)
          /\ Commits(r, run)
      BY <2>1, <2>2 DEF ApplyCallback, WithEvent, Open
    <2>4. Sound(memory[r])
      BY <2>3, RunIsSound DEF SoundInv
    <2>5. /\ Sound(run) /\ run.request = memory[r].request
          /\ memory[r].status \in Ended => run.status = memory[r].status
      BY <2>2, <2>3, <2>4, CallbackApplies
    <2> QED BY <2>3, <2>5, KeepsAfterCommit
  <1>6. CASE Shutdown
    <2>1. PICK new : new = Interrupted(memory)
      OBVIOUS
    <2>2. Carries(memory, new)
      BY <2>1, InterruptedCarries DEF SoundInv
    <2>3. initialized /\ initialized' /\ UNCHANGED told /\ (Saved(new) \/ SaveFails(new))
      BY <1>6, <2>1 DEF Shutdown
    <2> QED BY <2>2, <2>3, KeepsAfterCarrying
  <1>7. CASE ResetBegins \/ ResetEnds \/ ProcessRestarts
    BY <1>7, KeepReset
  <1>8. CASE \E r \in Runs : ExecutorStep(r)
    BY <1>8, KeepExecutor
  <1>9. CASE \E r \in Runs : ExecutorFails(r)
    BY <1>9, KeepExecutor
  <1>10. CASE UNCHANGED pipelineVars
    BY <1>10 DEF pipelineVars, KeepInv
  <1> QED BY <1>1, <1>2, <1>3, <1>4, <1>5, <1>6, <1>7, <1>8, <1>9, <1>10 DEF PipelineNext

-----------------------------------------------------------------------------
(* The executor takes its run to the end.                                  *)

LEMMA BeginProgress ==
  ASSUME NEW run, Sound(run), run.status = "queued"
  PROVE  Progress(StartRun(run), At("stage", 1, 0))
  <1>1. /\ StartRun(run).status = "running" /\ StartRun(run).stages = run.stages
        /\ StartRun(run).request = run.request
    BY StartRunGrows DEF Grown
  <1>2. /\ DOMAIN run.stages = DOMAIN run.request.stages
        /\ \A i \in DOMAIN run.request.stages : run.stages[i].status = "queued"
    BY StagesOfRun DEF Sound, RunAgrees
  <1>3. DOMAIN run.request.stages = 1..Len(run.request.stages) /\ 1 \in DOMAIN run.request.stages
    BY RequestHasStages DEF Sound, GoodRun
  <1>4. \A k \in DOMAIN run.request.stages : k \in Nat /\ ~(k < 1)
    BY <1>3
  <1>5. StagesBy(StartRun(run), 1)
    BY <1>1, <1>2, <1>4 DEF StagesBy
  <1> QED BY <1>1, <1>2, <1>3, <1>5 DEF Progress, At

LEMMA StageProgress ==
  ASSUME NEW run, Sound(run), run.status = "running", NEW i \in DOMAIN run.request.stages,
         run.stages[i].status = "queued", StagesBy(run, i)
  PROVE  Progress(StartStage(run, i), At("job", i, 1))
  <1>1. PICK new : new = StartStage(run, i)
    OBVIOUS
  <1>2. /\ new.status = "running" /\ new.request = run.request
        /\ new.stages[i].status = "running" /\ new.stages[i].jobs = run.stages[i].jobs
        /\ \A k \in DOMAIN run.request.stages \ {i} : new.stages[k] = run.stages[k]
    <2>1. /\ Grown(run, new) /\ new.status = "running"
          /\ new.stages[i] = [status |-> "running", jobs |-> run.stages[i].jobs]
          /\ \A k \in DOMAIN run.request.stages \ {i} : new.stages[k] = run.stages[k]
      BY <1>1, StartStageGrows
    <2> QED BY <2>1 DEF Grown
  <1>3. /\ DOMAIN run.stages[i].jobs = DOMAIN run.request.stages[i]
        /\ DOMAIN run.stages = DOMAIN run.request.stages
        /\ \A j \in DOMAIN run.request.stages[i] : run.stages[i].jobs[j] = "queued"
    BY StagesOfRun DEF Sound, RunAgrees, StageAgrees
  <1>4. /\ DOMAIN run.request.stages = 1..Len(run.stages)
        /\ DOMAIN run.request.stages[i] = 1..Len(run.stages[i].jobs)
        /\ Len(run.stages) \in Nat /\ Len(run.stages[i].jobs) \in Nat
        /\ 1 \in DOMAIN run.request.stages[i]
    BY LengthsOfRun
  <1>5. \A k \in DOMAIN run.request.stages : k \in Nat /\ (k < i => k # i) /\ (k > i => k # i)
    BY <1>4
  <1>6. StagesBy(new, i)
    BY <1>2, <1>5 DEF StagesBy
  <1>7. \A k \in DOMAIN run.request.stages[i] : k \in Nat /\ ~(k < 1)
    BY <1>4
  <1>8. JobsBy(new, i, 1)
    BY <1>2, <1>3, <1>7 DEF JobsBy
  <1> QED BY <1>1, <1>2, <1>3, <1>4, <1>6, <1>8 DEF Progress, At

LEMMA JobProgress ==
  ASSUME NEW run, Sound(run), run.status = "running", NEW i \in DOMAIN run.request.stages,
         run.stages[i].status = "running", StagesBy(run, i),
         NEW j \in DOMAIN run.request.stages[i], run.stages[i].jobs[j] = "queued", JobsBy(run, i, j)
  PROVE  Progress(StartJob(run, i, j), At("wait", i, j))
  <1>1. PICK new : new = StartJob(run, i, j)
    OBVIOUS
  <1>2. /\ new.status = "running" /\ new.request = run.request
        /\ new.stages[i] = WithJob(run.stages[i], j, "running")
        /\ \A k \in DOMAIN run.request.stages \ {i} : new.stages[k] = run.stages[k]
    BY <1>1, StartJobGrows DEF Grown
  <1>3. /\ new.stages[i].status = "running" /\ new.stages[i].jobs[j] = "running"
        /\ \A k \in DOMAIN run.request.stages[i] \ {j} : new.stages[i].jobs[k] = run.stages[i].jobs[k]
    BY <1>2, StagesOfRun, WithJobIsGood DEF Sound, RunStatuses
  <1>4. /\ DOMAIN run.request.stages = 1..Len(run.stages)
        /\ DOMAIN run.request.stages[i] = 1..Len(run.stages[i].jobs)
        /\ Len(run.stages) \in Nat /\ Len(run.stages[i].jobs) \in Nat
    BY LengthsOfRun
  <1>5. \A k \in DOMAIN run.request.stages : k \in Nat /\ (k < i => k # i) /\ (k > i => k # i)
    BY <1>4
  <1>6. StagesBy(new, i)
    BY <1>2, <1>5 DEF StagesBy
  <1>7. \A k \in DOMAIN run.request.stages[i] : k \in Nat /\ (k < j => k # j) /\ (k > j => k # j)
    BY <1>4
  <1>8. JobsBy(new, i, j)
    BY <1>2, <1>3, <1>7 DEF JobsBy
  <1> QED BY <1>1, <1>2, <1>3, <1>6, <1>8 DEF Progress, At

LEMMA WaitProgress ==
  ASSUME NEW run, Sound(run), run.status = "running", NEW i \in DOMAIN run.request.stages,
         run.stages[i].status = "running", StagesBy(run, i),
         NEW j \in DOMAIN run.request.stages[i], run.stages[i].jobs[j] = "running", JobsBy(run, i, j),
         NEW new, new = Aggregate(FinishJob(run, i, j, "succeeded"), i), new.status \notin Ended
  PROVE  Progress(new, NextJob(run, i, j))
  <1>1. /\ Grown(run, new) /\ new.status \in {"running", "succeeded"}
        /\ new.stages[i].jobs = WithJob(run.stages[i], j, "succeeded").jobs
        /\ new.stages[i].status \in {"running", "succeeded"}
        /\ \A k \in DOMAIN run.request.stages \ {i} : new.stages[k] = run.stages[k]
    BY JobSucceeds
  <1>2. new.status = "running" /\ new.request = run.request /\ Sound(new)
    BY <1>1 DEF Ended, Grown
  <1>3. /\ new.stages[i].jobs[j] = "succeeded"
        /\ \A k \in DOMAIN run.request.stages[i] \ {j} : new.stages[i].jobs[k] = run.stages[i].jobs[k]
    <2>1. GoodStage(run.stages[i], DOMAIN run.request.stages[i]) /\ "succeeded" \in RunStatuses
      BY StagesOfRun DEF Sound, RunStatuses, Ended
    <2>2. PICK stage : stage = WithJob(run.stages[i], j, "succeeded")
      OBVIOUS
    <2>3. /\ stage.jobs[j] = "succeeded"
          /\ \A k \in DOMAIN run.request.stages[i] \ {j} : stage.jobs[k] = run.stages[i].jobs[k]
      BY <2>1, <2>2, WithJobIsGood
    <2> QED BY <1>1, <2>2, <2>3
  <1>4. /\ DOMAIN run.request.stages = 1..Len(run.stages)
        /\ DOMAIN run.request.stages[i] = 1..Len(run.stages[i].jobs)
        /\ Len(run.stages) \in Nat /\ Len(run.stages[i].jobs) \in Nat
    BY LengthsOfRun
  <1>5. \A k \in DOMAIN run.request.stages : k \in Nat /\ (k < i => k # i) /\ (k > i => k # i)
    BY <1>4
  <1>6. StagesBy(new, i)
    BY <1>1, <1>2, <1>5 DEF StagesBy
  <1>7. /\ DOMAIN new.stages = DOMAIN run.request.stages
        /\ DOMAIN new.stages[i].jobs = DOMAIN run.request.stages[i] /\ StageAgrees(new.stages[i])
    BY <1>2, StagesOfRun DEF Sound, RunAgrees
  <1>8. CASE j < Len(run.stages[i].jobs)
    <2>1. j + 1 \in DOMAIN run.request.stages[i] /\ j + 1 # j
      BY <1>4, <1>8
    <2>2. new.stages[i].jobs[j + 1] = "queued"
      <3>1. j + 1 > j
        BY <1>4
      <3> QED BY <1>3, <2>1, <3>1 DEF JobsBy
    <2>3. new.stages[i].status = "running"
      BY <1>1, <1>7, <2>1, <2>2 DEF StageAgrees
    <2>4. \A k \in DOMAIN run.request.stages[i] :
            /\ k < j + 1 => k < j \/ k = j
            /\ k > j + 1 => k > j /\ k # j
            /\ k < j => k # j
      BY <1>4
    <2>5. JobsBy(new, i, j + 1)
      BY <1>2, <1>3, <2>4 DEF JobsBy
    <2> QED BY <1>2, <1>6, <1>8, <2>2, <2>3, <2>5 DEF Progress, NextJob, At
  <1>9. CASE ~(j < Len(run.stages[i].jobs))
    <2>1. \A k \in DOMAIN run.request.stages[i] : k = j \/ (k < j /\ k # j)
      BY <1>4, <1>9
    <2>2. \A k \in DOMAIN new.stages[i].jobs : new.stages[i].jobs[k] = "succeeded"
      BY <1>3, <1>7, <2>1 DEF JobsBy
    <2>3. new.stages[i].status = "succeeded"
      BY <1>7, <2>2 DEF StageAgrees
    <2> QED BY <1>2, <1>6, <1>9, <2>3 DEF Progress, NextJob, At
  <1> QED BY <1>8, <1>9

LEMMA CloseProgress ==
  ASSUME NEW run, Sound(run), run.status = "running", NEW i \in DOMAIN run.request.stages,
         run.stages[i].status = "succeeded", StagesBy(run, i)
  PROVE  Progress(run, NextStage(run, i))
  <1>1. DOMAIN run.request.stages = 1..Len(run.stages) /\ Len(run.stages) \in Nat
    BY LengthsOfRun
  <1>2. CASE i < Len(run.stages)
    <2>1. i + 1 \in DOMAIN run.request.stages /\ i + 1 > i
      BY <1>1, <1>2
    <2>2. \A k \in DOMAIN run.request.stages : (k < i + 1 => k < i \/ k = i) /\ (k > i + 1 => k > i)
      BY <1>1
    <2>3. StagesBy(run, i + 1)
      BY <2>2 DEF StagesBy
    <2>4. run.stages[i + 1].status = "queued"
      BY <2>1 DEF StagesBy
    <2> QED BY <1>2, <2>3, <2>4 DEF Progress, NextStage, At
  <1>3. CASE ~(i < Len(run.stages))
    <2>1. \A k \in DOMAIN run.request.stages : k = i \/ k < i
      BY <1>1, <1>3
    <2>2. \A k \in DOMAIN run.stages : run.stages[k].status = "succeeded"
      BY <2>1, StagesOfRun DEF Sound, StagesBy
    <2>3. run.status = "succeeded"
      BY <2>2 DEF Sound, RunAgrees, StagesSucceeded
    <2> QED BY <2>3
  <1> QED BY <1>2, <1>3

LEMMA StepProgress ==
  ASSUME NEW run, Sound(run), NEW at, Fits(run, at), Progress(run, at),
         at.step \in {"begin", "stage", "job", "wait", "close", "end"},
         NEW outcome, outcome = AfterStep(run, at), outcome.run.status \notin Ended
  PROVE  Progress(outcome.run, outcome.at)
  <1>1. \A new, next : Saves(new, next).run = new /\ Saves(new, next).at = next
    BY DEF Saves
  <1>2. CASE at.step = "begin"
    <2>1. run.status = "queued" /\ outcome = Saves(StartRun(run), At("stage", 1, 0))
      BY <1>2 DEF Progress, AfterStep, AfterBegin
    <2> QED BY <1>1, <2>1, BeginProgress
  <1>3. CASE at.step = "stage"
    <2>1. /\ run.status = "running" /\ at.stage \in DOMAIN run.request.stages
          /\ run.stages[at.stage].status = "queued" /\ StagesBy(run, at.stage)
      BY <1>3 DEF Progress, Fits
    <2>2. outcome = Saves(StartStage(run, at.stage), At("job", at.stage, 1))
      BY <1>3, <2>1 DEF AfterStep, AfterStage
    <2> QED BY <1>1, <2>1, <2>2, StageProgress
  <1>4. CASE at.step = "job"
    <2>1. /\ run.status = "running" /\ at.stage \in DOMAIN run.request.stages
          /\ run.stages[at.stage].status = "running" /\ StagesBy(run, at.stage)
          /\ at.job \in DOMAIN run.request.stages[at.stage]
          /\ run.stages[at.stage].jobs[at.job] = "queued" /\ JobsBy(run, at.stage, at.job)
      BY <1>4 DEF Progress, Fits
    <2>2. outcome = Saves(StartJob(run, at.stage, at.job), At("wait", at.stage, at.job))
      BY <1>4, <2>1 DEF AfterStep, AfterJob
    <2> QED BY <1>1, <2>1, <2>2, JobProgress
  <1>5. CASE at.step = "wait"
    <2>1. /\ run.status = "running" /\ at.stage \in DOMAIN run.request.stages
          /\ run.stages[at.stage].status = "running" /\ StagesBy(run, at.stage)
          /\ at.job \in DOMAIN run.request.stages[at.stage]
          /\ run.stages[at.stage].jobs[at.job] = "running" /\ JobsBy(run, at.stage, at.job)
      BY <1>5 DEF Progress, Fits
    <2>2. outcome = AfterWait(run, at.stage, at.job)
      BY <1>5, <2>1 DEF AfterStep
    <2>3. CASE run.request.stages[at.stage][at.job]
      <3>1. outcome = Saves(EndFromJob(run, at.stage, at.job, "failed"), Done)
        BY <2>1, <2>2, <2>3 DEF AfterWait
      <3>2. EndFromJob(run, at.stage, at.job, "failed").status = "failed"
        BY <2>1, EndFromJobGrows
      <3> QED BY <1>1, <3>1, <3>2 DEF Ended
    <2>4. CASE ~run.request.stages[at.stage][at.job]
      <3>1. outcome = Saves(Aggregate(FinishJob(run, at.stage, at.job, "succeeded"), at.stage),
                            NextJob(run, at.stage, at.job))
        BY <2>1, <2>2, <2>4 DEF AfterWait
      <3> QED BY <1>1, <2>1, <3>1, WaitProgress
    <2> QED BY <2>3, <2>4
  <1>6. CASE at.step = "close"
    <2>1. /\ run.status = "running" /\ at.stage \in DOMAIN run.request.stages
          /\ run.stages[at.stage].status = "succeeded" /\ StagesBy(run, at.stage)
      BY <1>6 DEF Progress, Fits
    <2>2. outcome = Saves(run, NextStage(run, at.stage))
      BY <1>6, <2>1, AggregateSame DEF AfterStep
    <2> QED BY <1>1, <2>1, <2>2, CloseProgress
  <1>7. CASE at.step = "end"
    BY <1>7 DEF Progress
  <1> QED BY <1>2, <1>3, <1>4, <1>5, <1>6, <1>7

\* The executor itself never takes the position of its failure handler.
LEMMA PositionsTaken ==
  ASSUME NEW run, NEW at, at.step \in {"begin", "stage", "job", "wait", "close", "end"}
  PROVE  AfterStep(run, at).at.step # "failing"
  <1>1. /\ \A new, next : Saves(new, next).at = next
        /\ \A new : Leave(new).at = Done
    BY DEF Saves, Leave
  <1>2. /\ \A step, i, j : At(step, i, j).step = step
        /\ Done.step = "done"
    BY DEF At, Done
  <1>3. /\ \A new, i : NextStage(new, i).step # "failing"
        /\ \A new, i, j : NextJob(new, i, j).step # "failing"
    BY <1>2 DEF NextStage, NextJob
  <1>4. AfterBegin(run).at.step # "failing"
    BY <1>1, <1>2 DEF AfterBegin
  <1>5. ASSUME NEW i PROVE AfterStage(run, i).at.step # "failing"
    <2>1. CASE run.stages[i].status = "succeeded"
      <3>1. AfterStage(run, i).at = NextStage(run, i)
        BY <2>1 DEF AfterStage
      <3> QED BY <1>3, <3>1
    <2>2. CASE run.stages[i].status # "succeeded"
      <3>1. AfterStage(run, i).at = At("job", i, 1)
        BY <1>1, <2>2 DEF AfterStage
      <3> QED BY <1>2, <3>1
    <2> QED BY <2>1, <2>2
  <1>6. ASSUME NEW i, NEW j PROVE AfterJob(run, i, j).at.step # "failing"
    <2>1. AfterJob(run, i, j).at \in {Done, NextJob(run, i, j), At("wait", i, j)}
      BY <1>1 DEF AfterJob
    <2> QED BY <1>2, <1>3, <2>1
  <1>7. ASSUME NEW i, NEW j PROVE AfterWait(run, i, j).at.step # "failing"
    <2>1. AfterWait(run, i, j).at \in {Done, NextJob(run, i, j)}
      BY <1>1 DEF AfterWait
    <2> QED BY <1>2, <1>3, <2>1
  <1>8. CASE at.step = "begin" \/ run.status # "running"
    BY <1>1, <1>2, <1>4, <1>8 DEF AfterStep
  <1>9. CASE at.step # "begin" /\ run.status = "running"
    <2>1. CASE at.step = "stage"
      BY <1>5, <1>9, <2>1 DEF AfterStep
    <2>2. CASE at.step = "job"
      BY <1>6, <1>9, <2>2 DEF AfterStep
    <2>3. CASE at.step = "wait"
      BY <1>7, <1>9, <2>3 DEF AfterStep
    <2>4. CASE at.step = "close"
      BY <1>1, <1>3, <1>9, <2>4 DEF AfterStep
    <2>5. CASE at.step = "end"
      BY <1>1, <1>2, <1>9, <2>5 DEF AfterStep
    <2> QED BY <1>9, <2>1, <2>2, <2>3, <2>4, <2>5
  <1> QED BY <1>8, <1>9

LEMMA MovesAfterSaved ==
  ASSUME StayInv, NEW new, Saved(new), faults <= 1 => MovesOn(new, executor'),
         \A r \in Runs : executor'[r].step = "failing" => executor[r].step = "failing"
  PROVE  StayInv'
  BY DEF Saved, StayInv

LEMMA MovesAfterFailure ==
  ASSUME SoundInv, KeepInv, NEW new, SaveFails(new),
         faults = 0 => MovesOn(memory, executor') /\ MovesOn(new, executor')
  PROVE  StayInv'
  <1>1. /\ faults \in Nat /\ stored' \in {stored, new}
        /\ \/ memory' = stored' /\ faults' = faults + 1
           \/ memory' = last_saved /\ faults' = faults + 2
    BY DEF SaveFails, SoundInv
  <1>2. faults' > 0
    BY <1>1
  <1>3. ASSUME faults' <= 1 PROVE MovesOn(memory', executor')
    <2>1. faults = 0 /\ memory' = stored'
      BY <1>1, <1>3
    <2>2. memory = stored
      BY <2>1 DEF KeepInv
    <2> QED BY <1>1, <2>1, <2>2
  <1> QED BY <1>2, <1>3 DEF StayInv

\* An operation after which no run is left that only its executor has moved,
\* but for those it leaves alone.
LEMMA MovesAfterSave ==
  ASSUME SoundInv, KeepInv, StayInv, UNCHANGED executor, NEW new, Saved(new) \/ SaveFails(new),
         \A r \in Runs : Untouched(new[r]) => new[r] = memory[r]
  PROVE  StayInv'
  <1>1. faults <= 1 => MovesOn(memory, executor') /\ MovesOn(new, executor')
    BY DEF StayInv, MovesOn
  <1>2. faults \in Nat
    BY DEF SoundInv
  <1> QED BY <1>1, <1>2, MovesAfterSaved, MovesAfterFailure

LEMMA InterruptedStays ==
  ASSUME NEW m, NEW tasks, Fitting(m, tasks)
  PROVE  \A r \in Runs : ~Untouched(Interrupted(m)[r])
  BY InterruptedFits DEF Untouched

LEMMA StayInit == PipelineInit => StayInv
  BY AbsentRun DEF PipelineInit, StayInv, MovesOn, Untouched, NoTask, At

LEMMA StayInitialize == ASSUME SoundInv, KeepInv, StayInv, Initialize PROVE StayInv'
  <1>1. UNCHANGED executor /\ faults \in Nat
    BY DEF Initialize, SoundInv
  <1>2. PICK new : new = Interrupted(stored)
    OBVIOUS
  <1>3. \A r \in Runs : ~Untouched(new[r])
    BY <1>2, InterruptedStays DEF SoundInv
  <1>4. CASE memory' = new /\ faults' = faults
    BY <1>1, <1>3, <1>4 DEF StayInv, MovesOn
  <1>5. CASE UNCHANGED memory /\ faults' = faults + 1
    BY <1>1, <1>5 DEF StayInv, MovesOn
  <1> QED BY <1>2, <1>4, <1>5 DEF Initialize, Saved

LEMMA StayTrigger ==
  ASSUME SoundInv, KeepInv, StayInv, NEW r \in Runs, NEW q \in PipelineRequests, Trigger(r, q)
  PROVE  StayInv'
  <1>1. /\ executor[r] = NoTask
        /\ memory = [s \in Runs |-> memory[s]] /\ executor = [s \in Runs |-> executor[s]]
    BY DEF Trigger, SoundInv, Fitting
  <1>2. PICK run : run = NewRun(q)
    OBVIOUS
  <1>3. run.status = "queued"
    BY <1>2, NewRunIsSound
  <1>4. PICK new : new = [memory EXCEPT ![r] = run]
    OBVIOUS
  <1>5. new[r] = run /\ \A s \in Runs \ {r} : new[s] = memory[s]
    BY <1>1, <1>4
  <1>6. Progress(run, NoTask) /\ Progress(run, At("begin", 0, 0))
    BY <1>3 DEF Progress, NoTask, At
  <1>7. CASE /\ Saved(new)
             /\ executor' = IF q.auto THEN [executor EXCEPT ![r] = At("begin", 0, 0)] ELSE executor
    <2>1. /\ executor'[r] \in {NoTask, At("begin", 0, 0)}
          /\ \A s \in Runs \ {r} : executor'[s] = executor[s]
      BY <1>1, <1>7
    <2>2. faults <= 1 => MovesOn(new, executor')
      BY <1>5, <1>6, <2>1 DEF StayInv, MovesOn
    <2>3. \A s \in Runs : executor'[s].step = "failing" => executor[s].step = "failing"
      BY <2>1 DEF NoTask, At
    <2> QED BY <1>7, <2>2, <2>3, MovesAfterSaved
  <1>8. CASE SaveFails(new) /\ UNCHANGED executor
    <2>1. faults = 0 => MovesOn(memory, executor') /\ MovesOn(new, executor')
      BY <1>1, <1>5, <1>6, <1>8 DEF StayInv, MovesOn
    <2> QED BY <1>8, <2>1, MovesAfterFailure
  <1> QED BY <1>2, <1>4, <1>7, <1>8 DEF Trigger

\* One run becomes one that has ended or has had a callback.
LEMMA StayOneRun ==
  ASSUME SoundInv, KeepInv, StayInv, UNCHANGED executor, NEW r \in Runs, NEW run, ~Untouched(run),
         NEW new, new = [memory EXCEPT ![r] = run], Saved(new) \/ SaveFails(new)
  PROVE  StayInv'
  <1>1. memory = [s \in Runs |-> memory[s]]
    BY DEF SoundInv, Fitting
  <1>2. new[r] = run /\ \A s \in Runs \ {r} : new[s] = memory[s]
    BY <1>1
  <1> QED BY <1>2, MovesAfterSave

LEMMA StayShutdown == ASSUME SoundInv, KeepInv, StayInv, Shutdown PROVE StayInv'
  <1>1. PICK new : new = Interrupted(memory)
    OBVIOUS
  <1>2. \A r \in Runs : ~Untouched(new[r])
    BY <1>1, InterruptedStays DEF SoundInv
  <1>3. CASE Saved(new) /\ executor' = [r \in Runs |-> NoTask]
    BY <1>2, <1>3, MovesAfterSaved DEF MovesOn, NoTask, At
  <1>4. CASE SaveFails(new) /\ UNCHANGED executor
    BY <1>2, <1>4, MovesAfterSave
  <1> QED BY <1>1, <1>3, <1>4 DEF Shutdown

LEMMA StayReset == ASSUME ResetBegins \/ ResetEnds \/ ProcessRestarts PROVE StayInv'
  <1>1. executor' = [r \in Runs |-> NoTask]
    BY DEF ResetBegins, ResetEnds, ProcessRestarts
  <1>2. \A run : Progress(run, NoTask)
    BY DEF Progress, NoTask, At
  <1> QED BY <1>1, <1>2 DEF StayInv, MovesOn, NoTask, At

LEMMA StayExecutorStep ==
  ASSUME SoundInv, KeepInv, StayInv, NEW r \in Runs, ExecutorStep(r)
  PROVE  StayInv'
  <1>1. executor = [s \in Runs |-> executor[s]] /\ memory = [s \in Runs |-> memory[s]] /\ faults \in Nat
    BY DEF SoundInv, Fitting
  <1>2. CASE memory[r] = Absent
    <2>1. executor' = [executor EXCEPT ![r] = Done] /\ UNCHANGED <<memory, faults>>
      BY <1>2 DEF ExecutorStep
    <2>2. executor'[r] = Done /\ \A s \in Runs \ {r} : executor'[s] = executor[s]
      BY <1>1, <2>1
    <2>3. ~Untouched(memory[r])
      BY <1>2, AbsentRun DEF Untouched
    <2> QED BY <2>1, <2>2, <2>3 DEF StayInv, MovesOn, Done, At
  <1>3. CASE memory[r] # Absent
    <2>1. PICK outcome : outcome = AfterStep(memory[r], executor[r])
      OBVIOUS
    <2>2. PICK run : run = outcome.run
      OBVIOUS
    <2>3. PICK new : new = [memory EXCEPT ![r] = run]
      OBVIOUS
    <2>4. new[r] = run /\ \A s \in Runs \ {r} : new[s] = memory[s]
      BY <1>1, <2>3
    <2>5. Sound(memory[r]) /\ Fits(memory[r], executor[r])
      BY <1>3, RunIsSound DEF SoundInv
    <2>6. Grown(memory[r], run) /\ (outcome.saves \/ run = memory[r])
      BY <2>1, <2>2, <2>5, AfterStepSteps DEF ExecutorStep, Stepped
    <2>7. ASSUME faults <= 1, Untouched(run) PROVE Progress(run, outcome.at)
      <3>1. run.status \notin Ended
        BY <2>7 DEF Untouched, Ended
      <3>2. Untouched(memory[r])
        <4>1. memory[r].status \in RunStatuses /\ memory[r].status \notin Ended
          BY <2>5, <2>6, <3>1 DEF Sound, GoodRun, Grown
        <4> QED BY <2>6, <2>7, <4>1 DEF RunStatuses, Untouched, Grown
      <3>3. Progress(memory[r], executor[r])
        BY <2>7, <3>2 DEF StayInv, MovesOn
      <3> QED BY <2>1, <2>2, <2>5, <3>1, <3>3, StepProgress DEF ExecutorStep
    <2>8. CASE /\ IF outcome.saves THEN Saved(new) ELSE UNCHANGED <<memory, stored, last_saved, faults>>
               /\ executor' = [executor EXCEPT ![r] = outcome.at]
      <3>1. executor'[r] = outcome.at /\ \A s \in Runs \ {r} : executor'[s] = executor[s]
        BY <1>1, <2>8
      <3>2. outcome.at.step # "failing"
        BY <2>1, PositionsTaken DEF ExecutorStep
      <3>3. faults <= 1 => MovesOn(new, executor')
        BY <2>4, <2>7, <3>1 DEF StayInv, MovesOn
      <3>4. \A s \in Runs : executor'[s].step = "failing" => executor[s].step = "failing"
        BY <3>1, <3>2
      <3>5. CASE outcome.saves
        BY <2>8, <3>3, <3>4, <3>5, MovesAfterSaved
      <3>6. CASE ~outcome.saves
        <4>1. UNCHANGED <<memory, faults>> /\ new = memory
          BY <1>1, <2>3, <2>6, <2>8, <3>6
        <4> QED BY <3>3, <3>4, <4>1 DEF StayInv
      <3> QED BY <3>5, <3>6
    <2>9. CASE outcome.saves /\ SaveFails(new) /\ executor' = [executor EXCEPT ![r] = At("failing", 0, 0)]
      <3>1. executor'[r] = At("failing", 0, 0) /\ \A s \in Runs \ {r} : executor'[s] = executor[s]
        BY <1>1, <2>9
      <3>2. \A x : Progress(x, At("failing", 0, 0))
        BY DEF Progress, At
      <3>3. faults = 0 => MovesOn(memory, executor') /\ MovesOn(new, executor')
        BY <2>4, <3>1, <3>2 DEF StayInv, MovesOn
      <3> QED BY <2>9, <3>3, MovesAfterFailure
    <2> QED BY <1>3, <2>1, <2>2, <2>3, <2>8, <2>9 DEF ExecutorStep
  <1> QED BY <1>2, <1>3

LEMMA StayExecutorFails ==
  ASSUME SoundInv, KeepInv, StayInv, NEW r \in Runs, ExecutorFails(r)
  PROVE  StayInv'
  <1>1. executor = [s \in Runs |-> executor[s]] /\ memory = [s \in Runs |-> memory[s]] /\ faults \in Nat
    BY DEF SoundInv, Fitting
  <1>2. executor'[r] = Done /\ \A s \in Runs \ {r} : executor'[s] = executor[s]
    BY <1>1 DEF ExecutorFails
  <1>3. faults > 0
    BY DEF ExecutorFails, StayInv
  <1>4. \A s \in Runs : executor'[s].step = "failing" => executor[s].step = "failing"
    BY <1>2 DEF Done, At
  <1>5. CASE memory[r].status \in {"queued", "running"}
    <2>1. PICK run : run = EndRun(memory[r], "failed")
      OBVIOUS
    <2>2. PICK new : new = [memory EXCEPT ![r] = run]
      OBVIOUS
    <2>3. new[r] = run /\ \A s \in Runs \ {r} : new[s] = memory[s]
      BY <1>1, <2>2
    <2>4. memory[r] # Absent
      BY <1>5, AbsentRun
    <2>5. run.status = "failed"
      BY <1>5, <2>1, <2>4, RunIsSound, EndRunGrows DEF SoundInv
    <2>6. faults <= 1 => MovesOn(new, executor')
      BY <1>2, <2>3, <2>5 DEF StayInv, MovesOn, Untouched
    <2>7. Saved(new) \/ SaveFails(new)
      BY <1>5, <2>1, <2>2 DEF ExecutorFails
    <2> QED BY <1>3, <1>1, <1>4, <2>6, <2>7, MovesAfterSaved, MovesAfterFailure
  <1>6. CASE memory[r].status \notin {"queued", "running"}
    <2>1. UNCHANGED <<memory, faults>>
      BY <1>6 DEF ExecutorFails
    <2>2. ~Untouched(memory[r])
      BY <1>6 DEF Untouched
    <2> QED BY <1>2, <1>3, <2>1, <2>2 DEF StayInv, MovesOn
  <1> QED BY <1>5, <1>6

LEMMA StayNext ==
  ASSUME SoundInv, KeepInv, StayInv, [PipelineNext]_pipelineVars
  PROVE  StayInv'
  <1>1. CASE Initialize
    BY <1>1, StayInitialize
  <1>2. CASE \E r \in Runs, q \in PipelineRequests : Trigger(r, q)
    BY <1>2, StayTrigger
  <1>3. CASE \E r \in Runs : Query(r)
    BY <1>3 DEF Query, StayInv, MovesOn
  <1>4. CASE \E r \in Runs : Cancel(r)
    <2>1. PICK r \in Runs : Cancel(r)
      BY <1>4
    <2>2. PICK run : run = EndRun(memory[r], "cancelled")
      OBVIOUS
    <2>3. memory[r].status \in {"queued", "running"} /\ memory[r] # Absent /\ UNCHANGED executor
      BY <2>1, AbsentRun DEF Cancel
    <2>4. run.status = "cancelled"
      BY <2>2, <2>3, RunIsSound, EndRunGrows DEF SoundInv
    <2>5. PICK new : new = [memory EXCEPT ![r] = run]
      OBVIOUS
    <2>6. Saved(new) \/ SaveFails(new)
      BY <2>1, <2>2, <2>5 DEF Cancel, Commits
    <2>7. ~Untouched(run)
      BY <2>4 DEF Untouched
    <2> QED BY <2>3, <2>5, <2>6, <2>7, StayOneRun
  <1>5. CASE \E r \in Runs, e \in EventIds, c \in RunCallbacks : ApplyCallback(r, e, c)
    <2>1. PICK r \in Runs, e \in EventIds, c \in RunCallbacks : ApplyCallback(r, e, c)
      BY <1>5
    <2>2. PICK run : run = WithEvent(AfterCallback(memory[r], c), e, c)
      OBVIOUS
    <2>3. memory[r] # Absent /\ CallbackAccepted(memory[r], c) /\ UNCHANGED executor
      BY <2>1 DEF ApplyCallback
    <2>4. Sound(memory[r])
      BY <2>3, RunIsSound DEF SoundInv
    <2>5. run.events[e] = c /\ c # NoEvent
      BY <2>2, <2>3, <2>4, CallbackApplies, CallbackFields
    <2>6. ~Untouched(run)
      BY <2>5 DEF Untouched
    <2>7. PICK new : new = [memory EXCEPT ![r] = run]
      OBVIOUS
    <2>8. Saved(new) \/ SaveFails(new)
      BY <2>1, <2>2, <2>7 DEF ApplyCallback, WithEvent, Commits
    <2> QED BY <2>3, <2>6, <2>7, <2>8, StayOneRun
  <1>6. CASE Shutdown
    BY <1>6, StayShutdown
  <1>7. CASE ResetBegins \/ ResetEnds \/ ProcessRestarts
    BY <1>7, StayReset
  <1>8. CASE \E r \in Runs : ExecutorStep(r)
    BY <1>8, StayExecutorStep
  <1>9. CASE \E r \in Runs : ExecutorFails(r)
    BY <1>9, StayExecutorFails
  <1>10. CASE UNCHANGED pipelineVars
    BY <1>10 DEF pipelineVars, StayInv, MovesOn
  <1> QED BY <1>1, <1>2, <1>3, <1>4, <1>5, <1>6, <1>7, <1>8, <1>9, <1>10 DEF PipelineNext

-----------------------------------------------------------------------------
LEMMA SoundRunAgrees ==
  ASSUME NEW m, NEW tasks, Fitting(m, tasks), NEW r \in Runs
  PROVE  RunOK(m[r]) /\ TreeAgrees(m[r])
  <1>1. CASE m[r] = Absent
    BY <1>1 DEF RunOK, TreeAgrees
  <1>2. CASE m[r] # Absent
    <2>1. PICK run : run = m[r]
      OBVIOUS
    <2>2. Sound(run)
      BY <1>2, <2>1, RunIsSound
    <2>3. \A i \in DOMAIN run.stages :
            GoodStage(run.stages[i], DOMAIN run.request.stages[i])
      BY <2>2, StagesOfRun DEF Sound
    <2>4. \A i \in DOMAIN run.stages : StageOK(run.stages[i])
      BY <2>3 DEF GoodStage, StageOK
    <2>5. RunOK(run)
      BY <2>2, <2>4 DEF Sound, GoodRun, RunOK
    <2>6. TreeAgrees(run)
      BY <2>2 DEF Sound, RunAgrees, StageAgrees, TreeAgrees, JobsSucceeded
    <2> QED BY <2>1, <2>5, <2>6
  <1> QED BY <1>1, <1>2

LEMMA WholeRuns == ASSUME SoundInv, KeepInv, StayInv PROVE RunsStayWhole
  <1>1. TreesAgree
    <2>1. \A r \in Runs :
            /\ RunOK(memory[r]) /\ RunOK(stored[r]) /\ RunOK(last_saved[r])
            /\ TreeAgrees(memory[r]) /\ TreeAgrees(stored[r])
      BY SoundRunAgrees DEF SoundInv
    <2>2. {initialized, closed, resetting} \subseteq BOOLEAN
      BY DEF SoundInv
    <2> QED BY <2>1, <2>2 DEF SoundInv, TreesAgree, PipelineTypeOK
  <1>2. AnswersAreKept
    <2>1. SUFFICES ASSUME faults < 3
                   PROVE  /\ Truthful(stored, told)
                          /\ initialized => Truthful(memory, told)
      BY <2>1 DEF AnswersAreKept, OneRunPerKey, Truthful, OneKey, AsTold
    <2> QED BY <2>1 DEF KeepInv
  <1>3. ExecutorStays
    <2>1. \A run : ~Progress(run, Done)
      BY DEF Progress, Done, At
    <2> QED BY <2>1 DEF ExecutorStays, StayInv, MovesOn, Untouched
  <1> QED BY <1>1, <1>2, <1>3 DEF RunsStayWhole

\* Whatever the executor, callbacks, cancellations, restarts and failed
\* checkpoints do to the runs of the simulator, every run is consistent in
\* memory and in the tables, no run that only its executor has moved is left
\* unfinished, and what clients were told stays.
THEOREM PipelinesStayWhole == PipelineSpec => []RunsStayWhole
  <1>1. PipelineInit => SoundInv /\ RequestInv /\ KeepInv /\ StayInv
    <2>1. PipelineInit => RequestInv
      BY DEF PipelineInit, RequestInv
    <2> QED BY <2>1, SoundInit, KeepInit, StayInit
  <1>2. SoundInv /\ RequestInv /\ KeepInv /\ StayInv /\ [PipelineNext]_pipelineVars
          => (SoundInv /\ RequestInv /\ KeepInv /\ StayInv)'
    BY SoundNext, RequestNext, KeepNext, StayNext
  <1>3. SoundInv /\ RequestInv /\ KeepInv /\ StayInv => RunsStayWhole
    BY WholeRuns
  <1> QED BY <1>1, <1>2, <1>3, PTL DEF PipelineSpec
=============================================================================
