------------------------------ MODULE TaskQueue ------------------------------
(***************************************************************************)
(* The persistent at-least-once task queue of PersistentRuntimeService     *)
(* (runtime/service.py) on the table automation_tasks, with the ledger of  *)
(* wake-up hints (automation_task_wakeup_outbox) that every transaction    *)
(* which makes a task claimable writes along with it.                      *)
(*                                                                         *)
(* Each action is one committed transaction: rows are locked FOR UPDATE on *)
(* PostgreSQL and the whole store by one lock on SQLite.  Timestamps are   *)
(* kept as the time left until they are reached on the database clock, so  *)
(* "expires_at <= now" reads "nothing left", and no bound on time is       *)
(* needed.  A lease token is named by the number of the claim that drew    *)
(* it: tokens are random and never repeat.                                 *)
(***************************************************************************)
EXTENDS Integers, FiniteSets

CONSTANTS
  Tasks,        \* the rows that may be enqueued
  Workers,      \* worker_id values
  MaxAttempts,  \* max_attempts of each row
  MaxLease,     \* bound on the lease_seconds a caller may ask for
  MaxDelay,     \* bound on how far ahead available_at may be set by a caller
  MaxBackoff,   \* the cap of the retry delay (300 seconds in the code)
  NoWorker      \* lease_owner of a row without a lease

\* The table's check constraint: max_attempts BETWEEN 1 AND 100.
ASSUME MaxAttemptsAssumption == MaxAttempts \in [Tasks -> 1..100]
ASSUME TimesAssumption ==
  /\ MaxLease \in Nat \ {0}
  /\ MaxDelay \in Nat
  /\ MaxBackoff \in Nat \ {0}
ASSUME NoWorkerAssumption == NoWorker \notin Workers

VARIABLES
  status,            \* "absent" before the row is inserted
  attempts,          \* claims so far
  cancel_requested,
  wait_left,         \* time until available_at
  lease_owner,
  lease_token,       \* the claim that drew the token, 0 for none
  lease_left,        \* time until lease_expires_at
  result,            \* the claim whose result the row stores, 0 for none
  wakeups,           \* outbox rows, as <<task, generation>>
  grants,            \* history: every <<worker, task, token>> ever handed out
  settled            \* history: the grants that ended their attempt

leaseVars == <<lease_owner, lease_token, lease_left>>
vars == <<status, attempts, cancel_requested, wait_left, leaseVars, result,
          wakeups, grants, settled>>

Waiting == {"queued", "retry_wait"}
Closed  == {"succeeded", "cancelled", "dead_letter"}
Statuses == {"absent", "running", "failed"} \cup Waiting \cup Closed

Init ==
  /\ status = [t \in Tasks |-> "absent"]
  /\ attempts = [t \in Tasks |-> 0]
  /\ cancel_requested = [t \in Tasks |-> FALSE]
  /\ wait_left = [t \in Tasks |-> 0]
  /\ lease_owner = [t \in Tasks |-> NoWorker]
  /\ lease_token = [t \in Tasks |-> 0]
  /\ lease_left = [t \in Tasks |-> 0]
  /\ result = [t \in Tasks |-> 0]
  /\ wakeups = {}
  /\ grants = {}
  /\ settled = {}

-----------------------------------------------------------------------------
(* Helpers.                                                                *)

\* Faulty variant: the token is not compared.
ValidLeaseByOwner(t, w, k) ==
  status[t] = "running" /\ lease_owner[t] = w /\ lease_left[t] > 0

ValidLease(t, w, k) ==
  /\ status[t] = "running"
  /\ lease_owner[t] = w
  /\ lease_token[t] = k
  /\ lease_left[t] > 0

\* The retry delay after attempt n: min(cap, 2^(n-1)), 2^9 being over any cap.
Backoff(n) ==
  LET delay == IF n > 9 THEN MaxBackoff
               ELSE <<1, 2, 4, 8, 16, 32, 64, 128, 256>>[n]
  IN  IF delay > MaxBackoff THEN MaxBackoff ELSE delay

\* Faulty variant: every hint of a task has the same generation.
WakeupOnce(t) == <<t, 0>>

\* The row a transaction inserts for t; (task_id, generation) is unique, so a
\* second insert of one generation aborts the whole transaction.
Wakeup(t) == <<t, attempts[t]>>
Insertable(ts) == \A t \in ts : Wakeup(t) \notin wakeups
Insert(ts) == wakeups' = wakeups \cup {Wakeup(t) : t \in ts}

ClearLease(ts) ==
  /\ lease_owner' = [t \in Tasks |-> IF t \in ts THEN NoWorker ELSE lease_owner[t]]
  /\ lease_token' = [t \in Tasks |-> IF t \in ts THEN 0 ELSE lease_token[t]]
  /\ lease_left' = [t \in Tasks |-> IF t \in ts THEN 0 ELSE lease_left[t]]

-----------------------------------------------------------------------------
(* Operations of clients and administrators.                               *)

\* available_at is the caller's, or the clock of the process that enqueues.
Enqueue(t) ==
  /\ status[t] = "absent"
  /\ status' = [status EXCEPT ![t] = "queued"]
  /\ \E d \in 0..MaxDelay : wait_left' = [wait_left EXCEPT ![t] = d]
  /\ Insertable({t})
  /\ Insert({t})
  /\ UNCHANGED <<attempts, cancel_requested, leaseVars, result, grants, settled>>

\* A waiting task is cancelled at once, a running one is only asked to stop.
CancelTask(t) ==
  /\ status[t] \in Waiting \cup {"running"}
  /\ cancel_requested' = [cancel_requested EXCEPT ![t] = TRUE]
  /\ IF status[t] \in Waiting
     THEN status' = [status EXCEPT ![t] = "cancelled"] /\ ClearLease({t})
     ELSE UNCHANGED <<status, leaseVars>>
  /\ UNCHANGED <<attempts, wait_left, result, wakeups, grants,
                 settled>>

RetryTask(t) ==
  /\ status[t] = "failed"
  /\ attempts[t] < MaxAttempts[t]
  /\ status' = [status EXCEPT ![t] = "retry_wait"]
  /\ wait_left' = [wait_left EXCEPT ![t] = 0]
  /\ Insertable({t})
  /\ Insert({t})
  /\ UNCHANGED <<attempts, cancel_requested, leaseVars, result, grants, settled>>

DeadLetterTask(t) ==
  /\ status[t] \notin {"absent", "running", "succeeded", "cancelled"}
  /\ status' = [status EXCEPT ![t] = "dead_letter"]
  /\ ClearLease({t})
  /\ UNCHANGED <<attempts, cancel_requested, wait_left, result, wakeups, grants,
                 settled>>

-----------------------------------------------------------------------------
(* Operations of workers.                                                  *)

\* Faulty variant: the expiry is not compared with the clock.
ExpiredAtAnyTime == {t \in Tasks : status[t] = "running"}
Expired == {t \in Tasks : status[t] = "running" /\ lease_left[t] = 0}

Claimable ==
  {t \in Tasks : /\ status[t] \in Waiting
                 /\ attempts[t] < MaxAttempts[t]
                 /\ wait_left[t] = 0
                 /\ ~cancel_requested[t]}

\* Faulty variant: recovery forgets the attempt budget.
RecoveredUnbudgeted(t) ==
  IF cancel_requested[t] THEN "cancelled" ELSE "retry_wait"

\* What becomes of a running task whose lease ran out.
Recovered(t) ==
  IF cancel_requested[t] THEN "cancelled"
  ELSE IF attempts[t] < MaxAttempts[t] THEN "retry_wait" ELSE "dead_letter"

\* One transaction first recovers expired leases and then claims at most one
\* row.  SKIP LOCKED passes over rows that other transactions hold, so any
\* part of the expired rows is recovered, and any claimable row may be the
\* first unlocked one in (priority, available_at, created_at) order.  A task
\* recovered here waits at least a second and is not claimed here.
ClaimTask(w, recovered, claimed, lease) ==
  LET again == {t \in recovered : Recovered(t) = "retry_wait"}
      touched == recovered \cup claimed
  IN
  /\ Insertable(again)
  /\ Insert(again)
  /\ status' = [t \in Tasks |-> IF t \in claimed THEN "running"
                                ELSE IF t \in recovered THEN Recovered(t)
                                ELSE status[t]]
  /\ attempts' = [t \in Tasks |-> IF t \in claimed THEN attempts[t] + 1
                                  ELSE attempts[t]]
  /\ wait_left' = [t \in Tasks |-> IF t \in again THEN Backoff(attempts[t])
                                   ELSE wait_left[t]]
  /\ lease_owner' = [t \in Tasks |-> IF t \in claimed THEN w
                                     ELSE IF t \in recovered THEN NoWorker
                                     ELSE lease_owner[t]]
  /\ lease_token' = [t \in Tasks |-> IF t \in claimed THEN attempts[t] + 1
                                     ELSE IF t \in recovered THEN 0
                                     ELSE lease_token[t]]
  /\ lease_left' = [t \in Tasks |-> IF t \in claimed THEN lease
                                    ELSE IF t \in recovered THEN 0
                                    ELSE lease_left[t]]
  /\ result' = [t \in Tasks |-> IF t \in claimed THEN 0 ELSE result[t]]
  /\ grants' = grants \cup {<<w, t, attempts[t] + 1>> : t \in claimed}
  /\ UNCHANGED <<cancel_requested, settled>>

AtMostOne(S) == {{}} \cup {{x} : x \in S}

HeartbeatTask(w, t, k) ==
  /\ ValidLease(t, w, k)
  /\ \E s \in 1..MaxLease : lease_left' = [lease_left EXCEPT ![t] = s]
  /\ UNCHANGED <<status, attempts, cancel_requested, wait_left, lease_owner,
                 lease_token, result, wakeups, grants,
                 settled>>

Completed(t) == IF cancel_requested[t] THEN "cancelled" ELSE "succeeded"

CompleteTask(w, t, k) ==
  /\ ValidLease(t, w, k)
  /\ status' = [status EXCEPT ![t] = Completed(t)]
  /\ result' = [result EXCEPT ![t] = IF Completed(t) = "cancelled" THEN 0 ELSE k]
  /\ ClearLease({t})
  /\ settled' = settled \cup {<<w, t, k>>}
  /\ UNCHANGED <<attempts, cancel_requested, wait_left, wakeups, grants>>

Failed(t, retryable) ==
  IF cancel_requested[t] THEN "cancelled"
  ELSE IF retryable /\ attempts[t] < MaxAttempts[t] THEN "retry_wait"
  ELSE IF retryable THEN "dead_letter" ELSE "failed"

FailTask(w, t, k, retryable) ==
  LET again == IF Failed(t, retryable) = "retry_wait" THEN {t} ELSE {} IN
  /\ ValidLease(t, w, k)
  /\ status' = [status EXCEPT ![t] = Failed(t, retryable)]
  /\ wait_left' = [wait_left EXCEPT ![t] =
                     IF t \in again THEN Backoff(attempts[t]) ELSE @]
  /\ Insertable(again)
  /\ Insert(again)
  /\ ClearLease({t})
  /\ settled' = settled \cup {<<w, t, k>>}
  /\ UNCHANGED <<attempts, cancel_requested, result, grants>>

-----------------------------------------------------------------------------
(* The database clock.                                                     *)

Sooner(left) == [t \in Tasks |-> IF left[t] > 0 THEN left[t] - 1 ELSE 0]

Tick ==
  /\ wait_left' = Sooner(wait_left)
  /\ lease_left' = Sooner(lease_left)
  /\ UNCHANGED <<status, attempts, cancel_requested, lease_owner, lease_token,
                 result, wakeups, grants,
                 settled>>

-----------------------------------------------------------------------------
(* A worker may use a grant late, again, or never: a process that crashed  *)
(* or hung is one that stops using its grants.                             *)

ClientStep ==
  \E t \in Tasks : \/ Enqueue(t) \/ CancelTask(t)
                   \/ RetryTask(t) \/ DeadLetterTask(t)

ClaimStep ==
  \E w \in Workers, recovered \in SUBSET Expired, claimed \in AtMostOne(Claimable),
     lease \in 1..MaxLease : ClaimTask(w, recovered, claimed, lease)

GrantStep ==
  \E g \in grants :
    \/ HeartbeatTask(g[1], g[2], g[3])
    \/ CompleteTask(g[1], g[2], g[3])
    \/ \E retryable \in BOOLEAN : FailTask(g[1], g[2], g[3], retryable)

Next == ClientStep \/ ClaimStep \/ GrantStep \/ Tick

Spec == Init /\ [][Next]_vars

-----------------------------------------------------------------------------
(* Properties.                                                             *)

\* Type correctness of the two tables and of the grants handed out.
TypeOK ==
  /\ status \in [Tasks -> Statuses]
  /\ attempts \in [Tasks -> Nat]
  /\ cancel_requested \in [Tasks -> BOOLEAN]
  /\ wait_left \in [Tasks -> Nat]
  /\ lease_owner \in [Tasks -> Workers \cup {NoWorker}]
  /\ lease_token \in [Tasks -> Nat]
  /\ lease_left \in [Tasks -> Nat]
  /\ result \in [Tasks -> Nat]
  /\ wakeups \subseteq Tasks \X Nat
  /\ grants \subseteq Workers \X Tasks \X Nat
  /\ settled \subseteq grants

\* The ledger of hints: a task that waits for a worker has the hint of its
\* generation, and a task that may come back to waiting (it runs, or failed
\* and can be retried by hand) has not.  The second part is what keeps the
\* unique constraint (task_id, generation) from aborting the transaction that
\* recovers, fails or retries a task, and with it every claim by any worker.
WakeupLedger ==
  \A t \in Tasks :
    /\ status[t] \in Waiting => Wakeup(t) \in wakeups
    /\ status[t] \in {"running", "failed"} => Wakeup(t) \notin wakeups

\* A waiting task has an attempt left.  The claim query skips a row whose
\* attempts are used up and nothing else would ever move it, so the ways back
\* to waiting (fail, recovery, manual retry) must all respect the budget.
WaitingIsClaimable ==
  \A t \in Tasks :
    status[t] \in Waiting => attempts[t] < MaxAttempts[t] /\ ~cancel_requested[t]

\* An accepted cancellation is never lost: from then on the task can only be
\* running its last attempt or be cancelled; it never succeeds, fails, waits
\* for another attempt or is dead-lettered.
CancelIsKept ==
  \A t \in Tasks : cancel_requested[t] => status[t] \in {"running", "cancelled"}

\* The stored result of a succeeded task is that of the latest claim, however
\* late earlier holders answer and although one worker may hold both claims.
ResultOfLatestClaim ==
  \A t \in Tasks :
    /\ status[t] = "succeeded" => result[t] = attempts[t]
    /\ status[t] # "succeeded" => result[t] = 0

\* No task is stranded: one that waits has a hint, an attempt and no request
\* to cancel it, so that the next claim can take it up.
NoTaskIsStranded == WakeupLedger /\ WaitingIsClaimable

\* A task ends as it should: cancelled once that was accepted, succeeded only
\* with the result of its latest claim.
EndsAreDue == CancelIsKept /\ ResultOfLatestClaim

\* A lease that has time left is only ended by its holder: a claim, another
\* worker's recovery, an old grant or an administrator never takes it away.
LiveLeaseIsExclusive ==
  [][\A t \in Tasks :
       status[t] = "running" /\ lease_left[t] > 0 =>
         \/ /\ status'[t] = "running"
            /\ lease_owner'[t] = lease_owner[t]
            /\ lease_token'[t] = lease_token[t]
         \/ <<lease_owner[t], t, lease_token[t]>> \in settled' \ settled]_vars

-----------------------------------------------------------------------------
(* Refinement: every single task behaves as LeasedJob promises.            *)

Phase(s) ==
  CASE s = "absent" -> "absent"
    [] s \in Waiting -> "open"
    [] s = "running" -> "held"
    [] s = "failed" -> "parked"
    [] s \in Closed -> "closed"

Job(t) == INSTANCE LeasedJob WITH
  Budget  <- MaxAttempts[t],
  phase   <- Phase(status[t]),
  claims  <- attempts[t],
  live    <- lease_left[t] > 0,
  outcome <- result[t]

\* The table, its recovery sweep and the claims of all workers together never
\* do to a task what its client was not promised: no attempt beyond the
\* budget, no result but from a live lease, no way out of a settled state.
\* This is \A t \in Tasks : Job(t)!Spec with the quantifier moved inside.
EveryTaskIsALeasedJob ==
  /\ \A t \in Tasks : Job(t)!Init
  /\ [][\A t \in Tasks : [Job(t)!Next]_(Job(t)!jobVars)]_vars
=============================================================================
