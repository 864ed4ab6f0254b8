--------------------------- MODULE TaskQueueProofs ---------------------------
(***************************************************************************)
(* Proofs about TaskQueue for any number of tasks and workers, any attempt *)
(* budgets and any lease lengths.                                          *)
(***************************************************************************)
EXTENDS TaskQueue, TLAPS

(***************************************************************************)
(* The inductive invariant.  WakeupLedger alone does not survive a claim:  *)
(* that no row of the new generation exists follows from every row of the  *)
(* task being of an earlier one.  ResultOfLatestClaim and the ownership of *)
(* leases need that a running task's token is that of its latest claim.    *)
(***************************************************************************)
LeaseShape ==
  \A t \in Tasks :
    IF status[t] = "running"
    THEN /\ lease_token[t] = attempts[t]
         /\ attempts[t] > 0
         /\ <<lease_owner[t], t, lease_token[t]>> \in grants
    ELSE /\ lease_token[t] = 0
         /\ lease_owner[t] = NoWorker
         /\ lease_left[t] = 0

Generations ==
  \A t \in Tasks :
    /\ \A g \in Nat : <<t, g>> \in wakeups => g <= attempts[t]
    /\ status[t] \in Waiting => Wakeup(t) \in wakeups
    /\ status[t] \in {"absent", "running", "failed"} => Wakeup(t) \notin wakeups

AttemptBudget ==
  \A t \in Tasks :
    /\ attempts[t] <= MaxAttempts[t]
    /\ status[t] = "absent" => attempts[t] = 0

GrantBounds ==
  \A w \in Workers, t \in Tasks, k \in Nat :
    /\ <<w, t, k>> \in grants => k <= attempts[t]
    /\ <<w, t, k>> \in settled /\ status[t] = "running" => k < attempts[t]

IInv ==
  /\ TypeOK
  /\ LeaseShape
  /\ Generations
  /\ AttemptBudget
  /\ WaitingIsClaimable
  /\ CancelIsKept
  /\ ResultOfLatestClaim
  /\ GrantBounds

-----------------------------------------------------------------------------
\* The retry delay is a natural number of ticks.
LEMMA BackoffNat == \A n \in Nat : n > 0 => Backoff(n) \in Nat
  <1> SUFFICES ASSUME NEW n \in Nat, n > 0 PROVE Backoff(n) \in Nat
    OBVIOUS
  <1>1. CASE n > 9
    BY <1>1, TimesAssumption DEF Backoff
  <1>2. CASE n \in 1..9
    BY <1>2, TimesAssumption DEF Backoff
  <1> QED
    BY <1>1, <1>2

\* Every task has at least one attempt.
LEMMA MaxAttemptsPositive == \A t \in Tasks : MaxAttempts[t] \in Nat /\ MaxAttempts[t] > 0
  BY MaxAttemptsAssumption

\* The invariant holds of the empty tables.
LEMMA InitIInv == Init => IInv
  BY MaxAttemptsAssumption
  DEF Init, IInv, TypeOK, LeaseShape, Generations, AttemptBudget, WaitingIsClaimable,
      CancelIsKept, ResultOfLatestClaim, GrantBounds, Statuses, Waiting, Closed, Wakeup

\* A new row starts with no attempt and the hint of generation 0, which keeps
\* the invariant.
LEMMA EnqueueKeepsIInv ==
  ASSUME IInv,
         NEW t \in Tasks, Enqueue(t)
  PROVE  IInv'
  <1> USE DEF IInv, TypeOK, Enqueue, Insertable, Insert, Wakeup,
              leaseVars, Statuses, Waiting, Closed
  <1>1. TypeOK'
    BY TimesAssumption DEF LeaseShape
  <1>2. LeaseShape'
    BY NoWorkerAssumption DEF LeaseShape
  <1>3. Generations'
    BY DEF Generations, LeaseShape
  <1>4. AttemptBudget'
    BY MaxAttemptsAssumption DEF AttemptBudget, WaitingIsClaimable, LeaseShape
  <1>5. WaitingIsClaimable'
    <2>1. attempts[t] = 0 /\ ~cancel_requested[t]
      BY DEF AttemptBudget, CancelIsKept
    <2>2. MaxAttempts[t] > 0
      BY MaxAttemptsPositive
    <2> QED
      BY <2>1, <2>2, MaxAttemptsAssumption DEF WaitingIsClaimable
  <1>6. CancelIsKept'
    BY DEF CancelIsKept, WaitingIsClaimable
  <1>7. ResultOfLatestClaim'
    BY DEF ResultOfLatestClaim, LeaseShape
  <1>8. GrantBounds'
    BY DEF GrantBounds, LeaseShape
  <1> QED
    BY <1>1, <1>2, <1>3, <1>4, <1>5, <1>6, <1>7, <1>8

\* The invariant survives cancelling.
LEMMA CancelTaskKeepsIInv ==
  ASSUME IInv,
         NEW t \in Tasks, CancelTask(t)
  PROVE  IInv'
  <1> USE DEF IInv, TypeOK, CancelTask, ClearLease, Wakeup,
              leaseVars, Statuses, Waiting, Closed
  <1>1. TypeOK'
    BY TimesAssumption DEF LeaseShape
  <1>2. LeaseShape'
    BY NoWorkerAssumption DEF LeaseShape
  <1>3. Generations'
    BY DEF Generations, LeaseShape
  <1>4. AttemptBudget'
    BY MaxAttemptsAssumption DEF AttemptBudget, WaitingIsClaimable, LeaseShape
  <1>5. WaitingIsClaimable'
    BY MaxAttemptsAssumption DEF WaitingIsClaimable, AttemptBudget, CancelIsKept
  <1>6. CancelIsKept'
    BY DEF CancelIsKept, WaitingIsClaimable
  <1>7. ResultOfLatestClaim'
    BY DEF ResultOfLatestClaim, LeaseShape
  <1>8. GrantBounds'
    BY DEF GrantBounds, LeaseShape
  <1> QED
    BY <1>1, <1>2, <1>3, <1>4, <1>5, <1>6, <1>7, <1>8

\* The invariant survives a manual retry.
LEMMA RetryTaskKeepsIInv ==
  ASSUME IInv,
         NEW t \in Tasks, RetryTask(t)
  PROVE  IInv'
  <1> USE DEF IInv, TypeOK, RetryTask, Insertable, Insert, Wakeup,
              leaseVars, Statuses, Waiting, Closed
  <1>1. TypeOK'
    BY TimesAssumption DEF LeaseShape
  <1>2. LeaseShape'
    BY NoWorkerAssumption DEF LeaseShape
  <1>3. Generations'
    BY DEF Generations, LeaseShape
  <1>4. AttemptBudget'
    BY MaxAttemptsAssumption DEF AttemptBudget, WaitingIsClaimable, LeaseShape
  <1>5. WaitingIsClaimable'
    BY MaxAttemptsAssumption DEF WaitingIsClaimable, AttemptBudget, CancelIsKept
  <1>6. CancelIsKept'
    BY DEF CancelIsKept, WaitingIsClaimable
  <1>7. ResultOfLatestClaim'
    BY DEF ResultOfLatestClaim, LeaseShape
  <1>8. GrantBounds'
    BY DEF GrantBounds, LeaseShape
  <1> QED
    BY <1>1, <1>2, <1>3, <1>4, <1>5, <1>6, <1>7, <1>8

\* The invariant survives dead-lettering by an administrator.
LEMMA DeadLetterTaskKeepsIInv ==
  ASSUME IInv,
         NEW t \in Tasks, DeadLetterTask(t)
  PROVE  IInv'
  <1> USE DEF IInv, TypeOK, DeadLetterTask, ClearLease, Wakeup,
              leaseVars, Statuses, Waiting, Closed
  <1>1. TypeOK'
    BY TimesAssumption DEF LeaseShape
  <1>2. LeaseShape'
    BY NoWorkerAssumption DEF LeaseShape
  <1>3. Generations'
    BY DEF Generations, LeaseShape
  <1>4. AttemptBudget'
    BY MaxAttemptsAssumption DEF AttemptBudget, WaitingIsClaimable, LeaseShape
  <1>5. WaitingIsClaimable'
    BY MaxAttemptsAssumption DEF WaitingIsClaimable, AttemptBudget, CancelIsKept
  <1>6. CancelIsKept'
    BY DEF CancelIsKept, WaitingIsClaimable
  <1>7. ResultOfLatestClaim'
    BY DEF ResultOfLatestClaim, LeaseShape
  <1>8. GrantBounds'
    BY DEF GrantBounds, LeaseShape
  <1> QED
    BY <1>1, <1>2, <1>3, <1>4, <1>5, <1>6, <1>7, <1>8

\* The invariant survives recovery of expired leases together with a claim.
LEMMA ClaimTaskKeepsIInv ==
  ASSUME IInv,
         NEW w \in Workers, NEW recovered \in SUBSET Expired,
         NEW claimed \in AtMostOne(Claimable), NEW s \in 1..MaxLease,
         ClaimTask(w, recovered, claimed, s)
  PROVE  IInv'
  <1> USE DEF IInv, TypeOK, ClaimTask, Recovered, Insertable, Insert, Wakeup,
              leaseVars, Statuses, Waiting, Closed
  <1>a. \A u \in recovered : u \in Tasks /\ status[u] = "running"
    BY DEF Expired
  <1>b. \A u \in claimed : u \in Tasks /\ status[u] \in Waiting
                        /\ attempts[u] < MaxAttempts[u] /\ ~cancel_requested[u]
    BY DEF AtMostOne, Claimable
  <1>1. TypeOK'
    <2>1. status' \in [Tasks -> Statuses]
      OBVIOUS
    <2>2. attempts' \in [Tasks -> Nat] /\ result' \in [Tasks -> Nat]
      OBVIOUS
    <2>3. wait_left' \in [Tasks -> Nat]
      BY <1>a, BackoffNat DEF LeaseShape
    <2>4. /\ lease_owner' \in [Tasks -> Workers \cup {NoWorker}]
          /\ lease_token' \in [Tasks -> Nat]
          /\ lease_left' \in [Tasks -> Nat]
      OBVIOUS
    <2>5. wakeups' \subseteq Tasks \X Nat
      BY <1>a
    <2>6. grants' \subseteq Workers \X Tasks \X Nat /\ settled' \subseteq grants'
      BY <1>b
    <2> QED
      BY <2>1, <2>2, <2>3, <2>4, <2>5, <2>6
  <1>2. LeaseShape'
    BY <1>a, <1>b, NoWorkerAssumption DEF LeaseShape
  <1>3. Generations'
    BY <1>a, <1>b DEF Generations, LeaseShape
  <1>4. AttemptBudget'
    BY <1>a, <1>b, MaxAttemptsAssumption DEF AttemptBudget, WaitingIsClaimable, LeaseShape
  <1>5. WaitingIsClaimable'
    BY <1>a, <1>b, MaxAttemptsAssumption DEF WaitingIsClaimable, AttemptBudget, CancelIsKept
  <1>6. CancelIsKept'
    BY <1>a, <1>b DEF CancelIsKept, WaitingIsClaimable
  <1>7. ResultOfLatestClaim'
    BY <1>a, <1>b DEF ResultOfLatestClaim, LeaseShape
  <1>8. GrantBounds'
    <2> SUFFICES ASSUME NEW v \in Workers, NEW t \in Tasks, NEW k \in Nat
                 PROVE  /\ <<v, t, k>> \in grants' => k <= attempts'[t]
                        /\ <<v, t, k>> \in settled /\ status'[t] = "running"
                             => k < attempts'[t]
      BY DEF GrantBounds
    <2>1. /\ <<v, t, k>> \in grants => k <= attempts[t]
          /\ <<v, t, k>> \in settled => k <= attempts[t]
          /\ <<v, t, k>> \in settled /\ status[t] = "running" => k < attempts[t]
      BY DEF GrantBounds
    <2>2. attempts'[t] = IF t \in claimed THEN attempts[t] + 1 ELSE attempts[t]
      OBVIOUS
    <2>3. status'[t] = "running" => t \in claimed \/ status[t] = "running"
      BY <1>a, <1>b
    <2>4. <<v, t, k>> \in grants' =>
            <<v, t, k>> \in grants \/ (t \in claimed /\ k = attempts[t] + 1)
      <3> SUFFICES ASSUME <<v, t, k>> \in grants', <<v, t, k>> \notin grants
                   PROVE  t \in claimed /\ k = attempts[t] + 1
        OBVIOUS
      <3>1. grants' = grants \cup {<<w, u, attempts[u] + 1>> : u \in claimed}
        BY DEF ClaimTask
      <3>2. PICK u \in claimed : <<v, t, k>> = <<w, u, attempts[u] + 1>>
        BY <3>1
      <3> QED
        BY <3>2
    <2> QED
      BY <2>1, <2>2, <2>3, <2>4
  <1> QED
    BY <1>1, <1>2, <1>3, <1>4, <1>5, <1>6, <1>7, <1>8

\* The invariant survives a heartbeat.
LEMMA HeartbeatTaskKeepsIInv ==
  ASSUME IInv,
         NEW w, NEW t \in Tasks, NEW k, HeartbeatTask(w, t, k)
  PROVE  IInv'
  <1> USE DEF IInv, TypeOK, HeartbeatTask, ValidLease, Wakeup,
              leaseVars, Statuses, Waiting, Closed
  <1>1. TypeOK'
    BY TimesAssumption DEF LeaseShape
  <1>2. LeaseShape'
    BY NoWorkerAssumption DEF LeaseShape
  <1>3. Generations'
    BY DEF Generations, LeaseShape
  <1>4. AttemptBudget'
    BY MaxAttemptsAssumption DEF AttemptBudget, WaitingIsClaimable, LeaseShape
  <1>5. WaitingIsClaimable'
    BY MaxAttemptsAssumption DEF WaitingIsClaimable, AttemptBudget, CancelIsKept
  <1>6. CancelIsKept'
    BY DEF CancelIsKept, WaitingIsClaimable
  <1>7. ResultOfLatestClaim'
    BY DEF ResultOfLatestClaim, LeaseShape
  <1>8. GrantBounds'
    BY DEF GrantBounds, LeaseShape
  <1> QED
    BY <1>1, <1>2, <1>3, <1>4, <1>5, <1>6, <1>7, <1>8

\* The invariant survives completion.
LEMMA CompleteTaskKeepsIInv ==
  ASSUME IInv,
         NEW w, NEW t \in Tasks, NEW k, <<w, t, k>> \in grants,
         CompleteTask(w, t, k)
  PROVE  IInv'
  <1> USE DEF IInv, TypeOK, CompleteTask, ValidLease, Completed, ClearLease,
              Wakeup,
              leaseVars, Statuses, Waiting, Closed
  <1>1. TypeOK'
    BY TimesAssumption DEF LeaseShape
  <1>2. LeaseShape'
    BY NoWorkerAssumption DEF LeaseShape
  <1>3. Generations'
    BY DEF Generations, LeaseShape
  <1>4. AttemptBudget'
    BY MaxAttemptsAssumption DEF AttemptBudget, WaitingIsClaimable, LeaseShape
  <1>5. WaitingIsClaimable'
    BY MaxAttemptsAssumption DEF WaitingIsClaimable, AttemptBudget, CancelIsKept
  <1>6. CancelIsKept'
    BY DEF CancelIsKept, WaitingIsClaimable
  <1>7. ResultOfLatestClaim'
    BY DEF ResultOfLatestClaim, LeaseShape
  <1>8. GrantBounds'
    BY DEF GrantBounds, LeaseShape
  <1> QED
    BY <1>1, <1>2, <1>3, <1>4, <1>5, <1>6, <1>7, <1>8

\* The invariant survives failure.
LEMMA FailTaskKeepsIInv ==
  ASSUME IInv,
         NEW w, NEW t \in Tasks, NEW k, <<w, t, k>> \in grants,
         NEW r \in BOOLEAN, FailTask(w, t, k, r)
  PROVE  IInv'
  <1> USE DEF IInv, TypeOK, FailTask, ValidLease, Failed, ClearLease,
              Insertable, Insert, Wakeup,
              leaseVars, Statuses, Waiting, Closed
  <1>1. TypeOK'
    BY TimesAssumption, BackoffNat DEF LeaseShape
  <1>2. LeaseShape'
    BY NoWorkerAssumption DEF LeaseShape
  <1>3. Generations'
    BY DEF Generations, LeaseShape
  <1>4. AttemptBudget'
    BY MaxAttemptsAssumption DEF AttemptBudget, WaitingIsClaimable, LeaseShape
  <1>5. WaitingIsClaimable'
    BY MaxAttemptsAssumption DEF WaitingIsClaimable, AttemptBudget, CancelIsKept
  <1>6. CancelIsKept'
    BY DEF CancelIsKept, WaitingIsClaimable
  <1>7. ResultOfLatestClaim'
    BY DEF ResultOfLatestClaim, LeaseShape
  <1>8. GrantBounds'
    BY DEF GrantBounds, LeaseShape
  <1> QED
    BY <1>1, <1>2, <1>3, <1>4, <1>5, <1>6, <1>7, <1>8

\* The invariant survives the passing of time.
LEMMA TickKeepsIInv ==
  ASSUME IInv,
         Tick
  PROVE  IInv'
  <1> USE DEF IInv, TypeOK, Tick, Sooner, Wakeup,
              leaseVars, Statuses, Waiting, Closed
  <1>1. TypeOK'
    BY TimesAssumption DEF LeaseShape
  <1>2. LeaseShape'
    BY NoWorkerAssumption DEF LeaseShape
  <1>3. Generations'
    BY DEF Generations, LeaseShape
  <1>4. AttemptBudget'
    BY MaxAttemptsAssumption DEF AttemptBudget, WaitingIsClaimable, LeaseShape
  <1>5. WaitingIsClaimable'
    BY MaxAttemptsAssumption DEF WaitingIsClaimable, AttemptBudget, CancelIsKept
  <1>6. CancelIsKept'
    BY DEF CancelIsKept, WaitingIsClaimable
  <1>7. ResultOfLatestClaim'
    BY DEF ResultOfLatestClaim, LeaseShape
  <1>8. GrantBounds'
    BY DEF GrantBounds, LeaseShape
  <1> QED
    BY <1>1, <1>2, <1>3, <1>4, <1>5, <1>6, <1>7, <1>8

-----------------------------------------------------------------------------
\* Every step of the queue keeps the invariant.
LEMMA NextKeepsIInv == IInv /\ [Next]_vars => IInv'
  <1> SUFFICES ASSUME IInv, [Next]_vars PROVE IInv'
    OBVIOUS
  <1>1. ASSUME NEW t \in Tasks, Enqueue(t) PROVE IInv'
    BY <1>1, EnqueueKeepsIInv
  <1>2. ASSUME NEW t \in Tasks, CancelTask(t) PROVE IInv'
    BY <1>2, CancelTaskKeepsIInv
  <1>3. ASSUME NEW t \in Tasks, RetryTask(t) PROVE IInv'
    BY <1>3, RetryTaskKeepsIInv
  <1>4. ASSUME NEW t \in Tasks, DeadLetterTask(t) PROVE IInv'
    BY <1>4, DeadLetterTaskKeepsIInv
  <1>5. CASE ClaimStep
    BY <1>5, ClaimTaskKeepsIInv DEF ClaimStep
  <1>6. CASE GrantStep
    <2> PICK g \in grants : \/ HeartbeatTask(g[1], g[2], g[3])
                            \/ CompleteTask(g[1], g[2], g[3])
                            \/ \E r \in BOOLEAN : FailTask(g[1], g[2], g[3], r)
      BY <1>6 DEF GrantStep
    <2>1. g[2] \in Tasks /\ <<g[1], g[2], g[3]>> \in grants
      BY DEF IInv, TypeOK
    <2> QED
      BY <2>1, HeartbeatTaskKeepsIInv, CompleteTaskKeepsIInv, FailTaskKeepsIInv
  <1>7. CASE Tick
    BY <1>7, TickKeepsIInv
  <1>8. CASE UNCHANGED vars
    BY <1>8 DEF vars, leaseVars, IInv, TypeOK, LeaseShape, Generations, AttemptBudget,
       WaitingIsClaimable, CancelIsKept, ResultOfLatestClaim, GrantBounds, Wakeup
  <1> QED
    BY <1>1, <1>2, <1>3, <1>4, <1>5, <1>6, <1>7, <1>8 DEF Next, ClientStep

\* The strengthened invariant holds in every reachable state.
THEOREM Invariance == Spec => []IInv
  BY InitIInv, NextKeepsIInv, PTL DEF Spec

\* The two tables and the grants are always well typed.
THEOREM TypeCorrect == Spec => []TypeOK
  <1>1. IInv => TypeOK
    BY DEF IInv
  <1> QED
    BY Invariance, <1>1, PTL

\* The unique constraint on (task_id, generation) never aborts a transaction
\* that recovers, fails or retries a task, and no waiting task lacks its hint.
THEOREM LedgerCorrect == Spec => []WakeupLedger
  <1>1. IInv => WakeupLedger
    BY DEF IInv, Generations, WakeupLedger
  <1> QED
    BY Invariance, <1>1, PTL

\* No task is left waiting where the claim query would never select it.
THEOREM NoTaskStranded == Spec => []WaitingIsClaimable
  <1>1. IInv => WaitingIsClaimable
    BY DEF IInv
  <1> QED
    BY Invariance, <1>1, PTL

\* A cancellation that was accepted cannot be undone by any worker.
THEOREM CancellationKept == Spec => []CancelIsKept
  <1>1. IInv => CancelIsKept
    BY DEF IInv
  <1> QED
    BY Invariance, <1>1, PTL

\* A stored result is never that of a superseded claim.
THEOREM ResultCorrect == Spec => []ResultOfLatestClaim
  <1>1. IInv => ResultOfLatestClaim
    BY DEF IInv
  <1> QED
    BY Invariance, <1>1, PTL

\* A task that waits has its hint, an attempt and no pending cancellation, so
\* that the next claim can take it up (claim_task, _recover_expired_tasks).
THEOREM NeverStranded == Spec => []NoTaskIsStranded
  <1>1. WakeupLedger /\ WaitingIsClaimable => NoTaskIsStranded
    BY DEF NoTaskIsStranded
  <1> QED
    BY LedgerCorrect, NoTaskStranded, <1>1, PTL

\* A task ends cancelled once that was accepted and otherwise with the result
\* of its latest claim (complete_task, fail_task, cancel_task).
THEOREM EndsCorrect == Spec => []EndsAreDue
  <1>1. CancelIsKept /\ ResultOfLatestClaim => EndsAreDue
    BY DEF EndsAreDue
  <1> QED
    BY CancellationKept, ResultCorrect, <1>1, PTL

\* What LiveLeaseIsExclusive says of one task in one step.
KeptOrSettled(t) ==
  status[t] = "running" /\ lease_left[t] > 0 =>
    \/ /\ status'[t] = "running"
       /\ lease_owner'[t] = lease_owner[t]
       /\ lease_token'[t] = lease_token[t]
    \/ <<lease_owner[t], t, lease_token[t]>> \in settled' \ settled

\* No step takes a running task from a lease that has time left, unless it
\* is its holder's own complete or fail.
LEMMA LiveLeaseStep ==
  ASSUME IInv, [Next]_vars, NEW t \in Tasks
  PROVE  KeptOrSettled(t)
  <1> SUFFICES ASSUME status[t] = "running", lease_left[t] > 0
               PROVE  KeptOrSettled(t)
    BY DEF KeptOrSettled
  <1> USE DEF KeptOrSettled
  <1>1. /\ lease_token[t] = attempts[t]
        /\ <<lease_owner[t], t, lease_token[t]>> \in grants
    BY DEF IInv, LeaseShape
  <1>2. lease_owner[t] \in Workers /\ attempts[t] \in Nat
    BY <1>1 DEF IInv, TypeOK
  <1>3. <<lease_owner[t], t, lease_token[t]>> \notin settled
    BY <1>1, <1>2 DEF IInv, GrantBounds
  <1>4. ASSUME NEW u \in Tasks, Enqueue(u) \/ RetryTask(u)
        PROVE  KeptOrSettled(t)
    BY <1>4 DEF Enqueue, RetryTask, leaseVars, IInv, TypeOK
  <1>5. ASSUME NEW u \in Tasks, CancelTask(u) PROVE KeptOrSettled(t)
    BY <1>5 DEF CancelTask, ClearLease, leaseVars, Waiting, IInv, TypeOK
  <1>6. ASSUME NEW u \in Tasks, DeadLetterTask(u) PROVE KeptOrSettled(t)
    BY <1>6 DEF DeadLetterTask, ClearLease, IInv, TypeOK
  <1>7. CASE ClaimStep
    BY <1>7 DEF ClaimStep, ClaimTask, AtMostOne, Claimable, Expired, Waiting,
       IInv, TypeOK
  <1>8. ASSUME NEW g \in grants, HeartbeatTask(g[1], g[2], g[3])
        PROVE  KeptOrSettled(t)
    BY <1>8 DEF HeartbeatTask, IInv, TypeOK
  <1>9. ASSUME NEW g \in grants, CompleteTask(g[1], g[2], g[3])
        PROVE  KeptOrSettled(t)
    BY <1>9, <1>3 DEF CompleteTask, ValidLease, ClearLease, IInv, TypeOK
  <1>10. ASSUME NEW g \in grants, NEW r \in BOOLEAN, FailTask(g[1], g[2], g[3], r)
         PROVE  KeptOrSettled(t)
    BY <1>10, <1>3 DEF FailTask, ValidLease, ClearLease, IInv, TypeOK
  <1>11. CASE Tick
    BY <1>11 DEF Tick
  <1>12. CASE UNCHANGED vars
    BY <1>12 DEF vars, leaseVars
  <1> QED
    BY <1>4, <1>5, <1>6, <1>7, <1>8, <1>9, <1>10, <1>11, <1>12
    DEF Next, ClientStep, GrantStep

\* A lease with time left is only ended by its own holder's complete or fail.
THEOREM LeaseExclusive == Spec => LiveLeaseIsExclusive
  <1>1. IInv /\ [Next]_vars => \A t \in Tasks : KeptOrSettled(t)
    BY LiveLeaseStep
  <1>2. IInv /\ [Next]_vars => [\A t \in Tasks : KeptOrSettled(t)]_vars
    BY <1>1
  <1>3. Spec => [][\A t \in Tasks : KeptOrSettled(t)]_vars
    BY Invariance, <1>2, PTL DEF Spec
  <1> QED
    BY <1>3 DEF LiveLeaseIsExclusive, KeptOrSettled

-----------------------------------------------------------------------------
(***************************************************************************)
(* The refinement.  A step is seen from one task at a time: it is one step *)
(* of that task's LeasedJob or leaves its phase, claims and outcome alone. *)
(***************************************************************************)
JobStep(t) == [Job(t)!Next]_(Job(t)!jobVars)

\* The phase of each status.
LEMMA PhaseOf ==
  /\ Phase("absent") = "absent"
  /\ \A s \in Waiting : Phase(s) = "open"
  /\ Phase("running") = "held"
  /\ Phase("failed") = "parked"
  /\ \A s \in Closed : Phase(s) = "closed"
  BY DEF Phase, Waiting, Closed

\* A row of the empty table is a job that was not submitted.
LEMMA JobInit == Init => \A t \in Tasks : Job(t)!Init
  BY PhaseOf DEF Init, Job!Init

\* A step that leaves what the client sees of a task alone is a stutter.
LEMMA JobStutter ==
  ASSUME NEW t \in Tasks,
         status'[t] = status[t], attempts'[t] = attempts[t],
         lease_left'[t] = lease_left[t], result'[t] = result[t]
  PROVE  JobStep(t)
  BY DEF JobStep, Job!jobVars

\* Every step of the queue is, for each task, a step of its LeasedJob.
LEMMA JobNext ==
  ASSUME IInv, IInv', [Next]_vars, NEW t \in Tasks
  PROVE  JobStep(t)
  <1> USE PhaseOf DEF Statuses, Waiting, Closed
  <1> USE DEF IInv, TypeOK
  <1>1. ASSUME NEW u \in Tasks, Enqueue(u) PROVE JobStep(t)
    <2>1. CASE u # t
      BY <1>1, <2>1, JobStutter DEF Enqueue, leaseVars
    <2>2. CASE u = t
      <3>1. Job(t)!Submit
        BY <1>1, <2>2 DEF Enqueue, leaseVars, Job!Submit
      <3> QED
        BY <3>1 DEF JobStep, Job!Next
    <2> QED
      BY <2>1, <2>2
  <1>2. ASSUME NEW u \in Tasks, CancelTask(u) PROVE JobStep(t)
    <2>1. CASE u # t
      BY <1>2, <2>1, JobStutter DEF CancelTask, ClearLease, leaseVars
    <2>2. CASE u = t /\ status[t] = "running"
      BY <1>2, <2>2, JobStutter DEF CancelTask, leaseVars
    <2>3. CASE u = t /\ status[t] # "running"
      <3>1. Job(t)!Abandon
        BY <1>2, <2>3 DEF CancelTask, ClearLease, Job!Abandon
      <3> QED
        BY <3>1 DEF JobStep, Job!Next
    <2> QED
      BY <2>1, <2>2, <2>3
  <1>3. ASSUME NEW u \in Tasks, RetryTask(u) PROVE JobStep(t)
    <2>1. CASE u # t
      BY <1>3, <2>1, JobStutter DEF RetryTask, leaseVars
    <2>2. CASE u = t
      <3>1. /\ status[t] = "failed" /\ status'[t] = "retry_wait"
            /\ lease_left'[t] = 0 /\ attempts[t] < MaxAttempts[t]
            /\ attempts' = attempts /\ result' = result
        BY <1>3, <2>2 DEF RetryTask, leaseVars, LeaseShape
      <3>2. Job(t)!Reopen
        BY <3>1 DEF Job!Reopen
      <3> QED
        BY <3>2 DEF JobStep, Job!Next
    <2> QED
      BY <2>1, <2>2
  <1>4. ASSUME NEW u \in Tasks, DeadLetterTask(u) PROVE JobStep(t)
    <2>1. CASE u # t
      BY <1>4, <2>1, JobStutter DEF DeadLetterTask, ClearLease
    <2>2. CASE u = t /\ status[t] = "dead_letter"
      BY <1>4, <2>2, JobStutter DEF DeadLetterTask, ClearLease, LeaseShape
    <2>3. CASE u = t /\ status[t] # "dead_letter"
      <3>1. Job(t)!Abandon
        BY <1>4, <2>3 DEF DeadLetterTask, ClearLease, Job!Abandon
      <3> QED
        BY <3>1 DEF JobStep, Job!Next
    <2> QED
      BY <2>1, <2>2, <2>3
  <1>5. CASE ClaimStep
    <2> PICK w \in Workers, recovered \in SUBSET Expired,
             claimed \in AtMostOne(Claimable), lease \in 1..MaxLease :
               ClaimTask(w, recovered, claimed, lease)
      BY <1>5 DEF ClaimStep
    <2> USE DEF ClaimTask
    <2>1. CASE t \in claimed
      <3>1. /\ status[t] \in Waiting /\ status'[t] = "running"
            /\ attempts'[t] = attempts[t] + 1 /\ attempts[t] < MaxAttempts[t]
            /\ lease_left'[t] > 0 /\ result'[t] = result[t]
        BY <2>1 DEF AtMostOne, Claimable, ResultOfLatestClaim
      <3>2. Job(t)!Take
        BY <3>1 DEF Job!Take
      <3> QED
        BY <3>2 DEF JobStep, Job!Next
    <2>2. CASE t \in recovered /\ t \notin claimed
      <3>1. /\ status[t] = "running" /\ status'[t] = Recovered(t)
            /\ attempts'[t] = attempts[t] /\ result'[t] = result[t]
            /\ lease_left'[t] = 0
        BY <2>2 DEF Expired
      <3>2. CASE Recovered(t) = "retry_wait"
        <4>1. attempts[t] < MaxAttempts[t]
          BY <3>2 DEF Recovered
        <4>2. Job(t)!Reopen
          BY <3>1, <3>2, <4>1 DEF Job!Reopen
        <4> QED
          BY <4>2 DEF JobStep, Job!Next
      <3>3. CASE Recovered(t) # "retry_wait"
        <4>1. Job(t)!Abandon
          BY <3>1, <3>3 DEF Job!Abandon, Recovered
        <4> QED
          BY <4>1 DEF JobStep, Job!Next
      <3> QED
        BY <3>2, <3>3
    <2>3. CASE t \notin claimed \cup recovered
      BY <2>3, JobStutter
    <2> QED
      BY <2>1, <2>2, <2>3
  <1>6. ASSUME NEW g \in grants, HeartbeatTask(g[1], g[2], g[3]) PROVE JobStep(t)
    <2>1. CASE g[2] # t
      BY <1>6, <2>1, JobStutter DEF HeartbeatTask
    <2>2. CASE g[2] = t
      BY <1>6, <2>2, TimesAssumption
      DEF HeartbeatTask, ValidLease, JobStep, Job!jobVars
    <2> QED
      BY <2>1, <2>2
  <1>7. ASSUME NEW g \in grants, CompleteTask(g[1], g[2], g[3]) PROVE JobStep(t)
    <2>1. CASE g[2] # t
      BY <1>7, <2>1, JobStutter DEF CompleteTask, ClearLease
    <2>2. CASE g[2] = t
      <3>1. /\ status[t] = "running" /\ lease_left[t] > 0 /\ lease_left'[t] = 0
            /\ attempts' = attempts /\ status'[t] \in {"succeeded", "cancelled"}
            /\ status'[t] = "succeeded" => result'[t] = attempts[t]
            /\ status'[t] = "cancelled" => result'[t] = result[t]
        BY <1>7, <2>2
        DEF CompleteTask, Completed, ValidLease, ClearLease, LeaseShape, ResultOfLatestClaim
      <3>2. CASE status'[t] = "succeeded"
        <4>1. Job(t)!Settle
          BY <3>1, <3>2 DEF Job!Settle
        <4> QED
          BY <4>1 DEF JobStep, Job!Next
      <3>3. CASE status'[t] = "cancelled"
        <4>1. Job(t)!Abandon
          BY <3>1, <3>3 DEF Job!Abandon
        <4> QED
          BY <4>1 DEF JobStep, Job!Next
      <3> QED
        BY <3>1, <3>2, <3>3
    <2> QED
      BY <2>1, <2>2
  <1>8. ASSUME NEW g \in grants, NEW r \in BOOLEAN, FailTask(g[1], g[2], g[3], r)
        PROVE  JobStep(t)
    <2>1. CASE g[2] # t
      BY <1>8, <2>1, JobStutter DEF FailTask, ClearLease
    <2>2. CASE g[2] = t
      <3>1. /\ status[t] = "running" /\ lease_left[t] > 0 /\ lease_left'[t] = 0
            /\ attempts' = attempts /\ result' = result
            /\ status'[t] = Failed(t, r)
        BY <1>8, <2>2 DEF FailTask, ValidLease, ClearLease
      <3>2. CASE Failed(t, r) = "retry_wait"
        <4>1. attempts[t] < MaxAttempts[t]
          BY <3>2 DEF Failed
        <4>2. Job(t)!Reopen
          BY <3>1, <3>2, <4>1 DEF Job!Reopen
        <4> QED
          BY <4>2 DEF JobStep, Job!Next
      <3>3. CASE Failed(t, r) = "failed"
        <4>1. Job(t)!Settle
          BY <3>1, <3>3 DEF Job!Settle
        <4> QED
          BY <4>1 DEF JobStep, Job!Next
      <3>4. CASE Failed(t, r) \in {"cancelled", "dead_letter"}
        <4>1. Job(t)!Abandon
          BY <3>1, <3>4 DEF Job!Abandon
        <4> QED
          BY <4>1 DEF JobStep, Job!Next
      <3> QED
        BY <3>2, <3>3, <3>4 DEF Failed
    <2> QED
      BY <2>1, <2>2
  <1>9. CASE Tick
    <2>1. /\ status' = status /\ attempts' = attempts /\ result' = result
          /\ lease_left'[t] = IF lease_left[t] > 0 THEN lease_left[t] - 1 ELSE 0
      BY <1>9 DEF Tick, Sooner
    <2>2. CASE lease_left[t] = 1
      <3>1. status[t] = "running"
        <4>1. status[t] # "running" => lease_left[t] = 0
          BY DEF LeaseShape
        <4> QED
          BY <4>1, <2>2
      <3>2. lease_left'[t] = 0
        BY <2>1, <2>2
      <3>3. Job(t)!Lapse
        BY <2>1, <2>2, <3>1, <3>2 DEF Job!Lapse
      <3> QED
        BY <3>3 DEF JobStep, Job!Next
    <2>3. CASE lease_left[t] # 1
      BY <2>1, <2>3 DEF JobStep, Job!jobVars
    <2> QED
      BY <2>2, <2>3
  <1>10. CASE UNCHANGED vars
    BY <1>10, JobStutter DEF vars, leaseVars
  <1> QED
    BY <1>1, <1>2, <1>3, <1>4, <1>5, <1>6, <1>7, <1>8, <1>9, <1>10
    DEF Next, ClientStep, GrantStep

\* The queue gives every one of its tasks what LeasedJob promises its client.
THEOREM JobsAreLeased == Spec => EveryTaskIsALeasedJob
  <1>1. Init => \A t \in Tasks : Job(t)!Init
    BY JobInit
  <1>2. IInv /\ IInv' /\ [Next]_vars => \A t \in Tasks : JobStep(t)
    BY JobNext
  <1>3. IInv /\ IInv' /\ [Next]_vars => [\A t \in Tasks : JobStep(t)]_vars
    BY <1>2
  <1>4. Spec => [][\A t \in Tasks : JobStep(t)]_vars
    BY Invariance, <1>3, PTL DEF Spec
  <1>5. Spec => \A t \in Tasks : Job(t)!Init
    BY <1>1, PTL DEF Spec
  <1> QED
    BY <1>4, <1>5 DEF EveryTaskIsALeasedJob, JobStep
=============================================================================
