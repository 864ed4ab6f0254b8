----------------------------- MODULE TeachingQueue -----------------------------
(***************************************************************************)
(* InMemoryTaskQueue of app/automation: the task queue of the lessons, in  *)
(* the memory of one process.  Its lock is never held across an await that *)
(* suspends, so every operation is one step.                               *)
(*                                                                         *)
(* A claim is named by its number, which stands for the worker and the     *)
(* token it was given.                                                     *)
(***************************************************************************)
EXTENDS Integers, FiniteSets

CONSTANTS
  Jobs,
  JobBudget,     \* max_attempts
  JobLease,      \* bound on lease_seconds
  JobBackoff     \* bound on the delay of a retry

ASSUME TeachingQueueAssumption ==
  JobBudget \in Nat \ {0} /\ JobLease \in Nat \ {0} /\ JobBackoff \in Nat \ {0}

VARIABLE jobs

NoJob ==
  [status |-> "absent", attempts |-> 0, cancel |-> FALSE, delay |-> 0, lease |-> 0,
   keyed |-> FALSE, scheduled |-> FALSE, result |-> 0]

UnfinishedStatuses == {"queued", "running", "retry_wait"}
Unfinished == {t \in Jobs : jobs[t].status \in UnfinishedStatuses}

JobsInit == jobs = [t \in Jobs |-> NoJob]

NewJob(keyed, scheduled, delay) ==
  [NoJob EXCEPT !.status = "queued", !.keyed = keyed, !.scheduled = scheduled, !.delay = delay]

\* The clients use one idempotency key.  A second request with it is answered
\* with the first task or refused.
EnqueueJob(t, keyed, delay) ==
  /\ jobs[t].status = "absent"
  /\ keyed => \A u \in Jobs : ~jobs[u].keyed
  /\ jobs' = [jobs EXCEPT ![t] = NewJob(keyed, FALSE, delay)]

Settled(job, status) == [job EXCEPT !.status = status, !.lease = 0]
RetryLater(job, delay) == [job EXCEPT !.status = "retry_wait", !.lease = 0, !.delay = delay]

\* _recover_expired_locked
RecoveredJob(job, delay) ==
  IF ~(job.status = "running" /\ job.lease = 0) THEN job
  ELSE IF job.cancel THEN Settled(job, "cancelled")
  ELSE IF job.attempts < JobBudget THEN RetryLater(job, delay)
  ELSE Settled(job, "dead_letter")
RecoveredJobs(delay) == [t \in Jobs |-> RecoveredJob(jobs[t], delay)]

RecoverExpiredJobs == \E delay \in 1..JobBackoff : jobs' = RecoveredJobs(delay)

ClaimableJob(job) == job.status \in {"queued", "retry_wait"} /\ job.delay = 0 /\ ~job.cancel

\* Priorities and times of creation decide which claimable task it is.
ClaimJob(t) ==
  \E delay \in 1..JobBackoff, seconds \in 1..JobLease :
    LET swept == RecoveredJobs(delay) IN
    /\ ClaimableJob(swept[t])
    /\ jobs' = [swept EXCEPT ![t].status = "running", ![t].attempts = @ + 1, ![t].lease = seconds]

\* Faulty variant: a lease that expired counts until it is recovered.
ValidJobLeaseByToken(t, claim) == jobs[t].status = "running" /\ jobs[t].attempts = claim
ValidJobLease(t, claim) ==
  jobs[t].status = "running" /\ jobs[t].attempts = claim /\ jobs[t].lease > 0

HeartbeatJob(t, claim) ==
  /\ ValidJobLease(t, claim)
  /\ \E seconds \in 1..JobLease : jobs' = [jobs EXCEPT ![t].lease = seconds]

CompleteJob(t, claim) ==
  /\ ValidJobLease(t, claim)
  /\ jobs' = [jobs EXCEPT ![t] =
       IF @.cancel THEN Settled(@, "cancelled")
       ELSE [Settled(@, "succeeded") EXCEPT !.result = claim]]

FailJob(t, claim, retryable) ==
  /\ ValidJobLease(t, claim)
  /\ \E delay \in 1..JobBackoff :
       jobs' = [jobs EXCEPT ![t] =
         IF @.cancel THEN Settled(@, "cancelled")
         ELSE IF ~retryable THEN Settled(@, "failed")
         ELSE IF @.attempts < JobBudget THEN RetryLater(@, delay)
         ELSE Settled(@, "dead_letter")]

AcknowledgeCancel(t, claim) ==
  /\ ValidJobLease(t, claim)
  /\ jobs[t].cancel
  /\ jobs' = [jobs EXCEPT ![t] = Settled(@, "cancelled")]

\* request_cancel
CancelledJob(job) ==
  IF job.status \in {"queued", "retry_wait"} THEN [Settled(job, "cancelled") EXCEPT !.cancel = TRUE]
  ELSE IF job.status = "running" THEN [job EXCEPT !.cancel = TRUE]
  ELSE job
RequestCancel(t) == jobs' = [jobs EXCEPT ![t] = CancelledJob(@)]

Sooner(n) == IF n > 0 THEN n - 1 ELSE 0
JobTimePasses == jobs' = [t \in Jobs |-> [jobs[t] EXCEPT !.lease = Sooner(@), !.delay = Sooner(@)]]

JobStep ==
  \/ \E t \in Jobs : ClaimJob(t) \/ RequestCancel(t)
  \/ \E t \in Jobs : \E claim \in 1..jobs[t].attempts :
       \/ HeartbeatJob(t, claim) \/ CompleteJob(t, claim) \/ AcknowledgeCancel(t, claim)
       \/ \E retryable \in BOOLEAN : FailJob(t, claim, retryable)
  \/ RecoverExpiredJobs

-----------------------------------------------------------------------------
\* What the queue of the lessons promises about a task is what the one on the
\* database promises.
JobPhase(status) ==
  CASE status = "absent" -> "absent"
    [] status \in {"queued", "retry_wait"} -> "open"
    [] status = "running" -> "held"
    [] status = "failed" -> "parked"
    [] OTHER -> "closed"

TeachingJob(t) == INSTANCE LeasedJob WITH
  Budget <- JobBudget,
  phase <- JobPhase(jobs[t].status),
  claims <- jobs[t].attempts,
  live <- jobs[t].lease > 0,
  outcome <- jobs[t].result
=============================================================================
