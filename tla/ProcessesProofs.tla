--------------------------- MODULE ProcessesProofs ---------------------------
(***************************************************************************)
(* Proofs about the processes beside the web process: the workers of the   *)
(* task queue and the dispatchers of its wake-up outbox.                   *)
(***************************************************************************)
EXTENDS WorkerLoop, WakeupOutbox, TaskQueueProofs, FiniteSetTheorems

(***************************************************************************)
(* Workers.  They use the task queue as TaskQueue describes it: each step  *)
(* of the loop is a step of the queue or leaves it alone.  Whatever is     *)
(* proved of the queue therefore holds of the queue with its workers,      *)
(* whatever the workers' timing, crashes and restarts are.  And executions *)
(* of one task overlap no more often than something has failed.            *)
(***************************************************************************)
\* A worker only runs a task it has been granted.
WorkIsGranted ==
  \A w \in Workers :
    pc[w] = "running" => <<w, Task(w), Token(w)>> \in grants

LoopShape ==
  /\ pc \in [Workers -> {"loop", "waiting", "running", "down"}]
  /\ work \in [Workers -> (Tasks \X Nat) \cup {NoWork}]

LoopInv == TypeOK /\ LoopShape /\ WorkIsGranted

\* Grants are never taken back.
LEMMA GrantsGrow == [Next]_vars => grants \subseteq grants'
  BY DEF Next, ClientStep, ClaimStep, GrantStep, Enqueue, CancelTask, RetryTask,
     DeadLetterTask, ClaimTask, HeartbeatTask, CompleteTask, FailTask, Tick, vars

\* A call that records an outcome is a step of the queue or changes nothing.
LEMMA RecordIsAStep ==
  ASSUME NEW w \in Workers, NEW r \in BOOLEAN, NEW c \in BOOLEAN,
         <<w, Task(w), Token(w)>> \in grants, Record(w, r, c)
  PROVE  [Next]_vars
  <1> DEFINE g == <<w, Task(w), Token(w)>>
  <1>1. g \in grants /\ g[1] = w /\ g[2] = Task(w) /\ g[3] = Token(w)
    OBVIOUS
  <1>2. \/ UNCHANGED vars
        \/ CompleteTask(g[1], g[2], g[3])
        \/ FailTask(g[1], g[2], g[3], r)
    BY <1>1 DEF Record
  <1> QED
    BY <1>1, <1>2 DEF Next, GrantStep

\* Every step of the system is a step of the queue.
LEMMA LoopStepIsAStep ==
  ASSUME LoopInv, [LoopNext]_allVars
  PROVE  [Next]_vars
  <1>1. CASE ClientStep /\ UNCHANGED <<loopVars, faults>>
    BY <1>1 DEF Next
  <1>2. CASE LoopTick
    BY <1>2 DEF LoopTick, Next
  <1>3. CASE UNCHANGED allVars
    BY <1>3 DEF allVars
  <1>4. ASSUME NEW w \in Workers, WorkerStep(w) PROVE [Next]_vars
    <2>1. CASE \E recovered \in SUBSET Expired, claimed \in AtMostOne(Claimable) :
                 Claim(w, recovered, claimed)
      BY <2>1, WorkerOptionsAssumption DEF Claim, Next, ClaimStep
    <2>2. CASE ClaimFails(w)
      BY <2>2, WorkerOptionsAssumption DEF ClaimFails, Next, ClaimStep
    <2>3. CASE Beat(w)
      <3> DEFINE g == <<w, Task(w), Token(w)>>
      <3>1. g \in grants /\ HeartbeatTask(g[1], g[2], g[3])
        BY <2>3 DEF Beat, LoopInv, WorkIsGranted
      <3> QED
        BY <3>1 DEF Next, GrantStep
    <2>4. CASE Report(w)
      <3>1. <<w, Task(w), Token(w)>> \in grants
        BY <2>4 DEF Report, LoopInv, WorkIsGranted
      <3>2. /\ (handler[w] = "retryable") \in BOOLEAN
            /\ (handler[w] \in {"ok", "cancelled"}) \in BOOLEAN
        OBVIOUS
      <3> QED
        BY <2>4, <3>1, <3>2, RecordIsAStep DEF Report
    <2>5. CASE GraceOver(w)
      <3>1. <<w, Task(w), Token(w)>> \in grants
        BY <2>5 DEF GraceOver, LoopInv, WorkIsGranted
      <3> QED
        BY <2>5, <3>1, RecordIsAStep DEF GraceOver
    <2>6. CASE \/ Wake(w) \/ Exit(w) \/ HandlerEnds(w) \/ BeatRefused(w)
               \/ BeatFails(w) \/ ReportFails(w) \/ RequestStop(w)
               \/ Crash(w) \/ Start(w)
      BY <2>6 DEF Wake, Exit, HandlerEnds, BeatRefused, BeatFails, ReportFails,
         RequestStop, Crash, Start
    <2> QED
      BY <1>4, <2>1, <2>2, <2>3, <2>4, <2>5, <2>6 DEF WorkerStep
  <1> QED
    BY <1>1, <1>2, <1>3, <1>4 DEF LoopNext

\* The processes start without work.
LEMMA LoopInitInv == LoopInit => LoopInv
  <1>1. LoopInit => TypeOK
    BY InitIInv DEF LoopInit, IInv
  <1> QED
    BY <1>1 DEF LoopInit, LoopInv, LoopShape, WorkIsGranted

\* A process that goes on without a task has none that was not granted.
LEMMA LeaveKeepsWork ==
  ASSUME LoopInv, TypeOK', grants \subseteq grants',
         NEW w \in Workers, NEW next \in {"loop", "waiting", "down"}, Leave(w, next)
  PROVE  LoopInv'
  BY DEF LoopInv, LoopShape, WorkIsGranted, Leave, Task, Token

\* What a worker runs stays granted, and what it takes up was granted to it.
LEMMA LoopStepKeepsInv ==
  ASSUME LoopInv, TypeOK', [LoopNext]_allVars
  PROVE  LoopInv'
  <1>1. grants \subseteq grants'
    BY LoopStepIsAStep, GrantsGrow
  <1>2. CASE UNCHANGED <<pc, work>>
    BY <1>1, <1>2 DEF LoopInv, LoopShape, WorkIsGranted, Task, Token
  <1>3. ASSUME NEW w \in Workers, WorkerStep(w) PROVE LoopInv'
    <2>1. ASSUME NEW recovered \in SUBSET Expired, NEW claimed \in AtMostOne(Claimable),
                 Claim(w, recovered, claimed)
          PROVE  LoopInv'
      <3>1. CASE claimed = {}
        BY <1>1, <2>1, <3>1, LeaveKeepsWork DEF Claim
      <3>2. CASE claimed # {}
        <4>1. PICK t \in claimed :
                /\ pc' = [pc EXCEPT ![w] = "running"]
                /\ work' = [work EXCEPT ![w] = <<t, attempts[t] + 1>>]
          BY <2>1, <3>2 DEF Claim
        <4>2. t \in Tasks /\ attempts[t] + 1 \in Nat
          BY <2>1 DEF AtMostOne, Claimable, LoopInv, TypeOK
        <4>3. <<w, t, attempts[t] + 1>> \in grants'
          BY <2>1 DEF Claim, ClaimTask
        <4>4. LoopShape'
          BY <4>1, <4>2 DEF LoopInv, LoopShape
        <4>5. WorkIsGranted'
          BY <1>1, <4>1, <4>3 DEF LoopInv, LoopShape, WorkIsGranted, Task, Token
        <4> QED
          BY <4>4, <4>5 DEF LoopInv
      <3> QED
        BY <3>1, <3>2
    <2>2. CASE \/ ClaimFails(w) \/ Wake(w) \/ Exit(w) \/ BeatRefused(w) \/ BeatFails(w)
               \/ Report(w) \/ ReportFails(w) \/ GraceOver(w) \/ Crash(w) \/ Start(w)
      <3>1. Leave(w, "loop") \/ Leave(w, "waiting") \/ Leave(w, "down")
        BY <2>2 DEF ClaimFails, Wake, Exit, BeatRefused, BeatFails, Report,
           ReportFails, GraceOver, Crash, Start
      <3> QED
        BY <1>1, <3>1, LeaveKeepsWork
    <2>3. CASE HandlerEnds(w) \/ Beat(w) \/ RequestStop(w)
      BY <1>2, <2>3 DEF HandlerEnds, Beat, RequestStop
    <2> QED
      BY <1>3, <2>1, <2>2, <2>3 DEF WorkerStep
  <1> QED
    BY <1>2, <1>3 DEF LoopNext, LoopTick, loopVars, allVars

\* The invariants of the queue and of the processes hold together.
THEOREM LoopInvariance == LoopSpec => [](LoopInv /\ IInv)
  <1>1. LoopInit => LoopInv /\ IInv
    BY LoopInitInv, InitIInv DEF LoopInit
  <1>2. LoopInv /\ IInv /\ [LoopNext]_allVars => LoopInv' /\ IInv'
    <2> SUFFICES ASSUME LoopInv, IInv, [LoopNext]_allVars PROVE LoopInv' /\ IInv'
      OBVIOUS
    <2>1. IInv'
      BY LoopStepIsAStep, NextKeepsIInv
    <2> QED
      BY <2>1, LoopStepKeepsInv DEF IInv
  <1> QED
    BY <1>1, <1>2, PTL DEF LoopSpec

\* The queue with its worker processes is the queue: TypeOK and with it every
\* theorem about the queue carries over.
THEOREM WorkersUseTheQueue == LoopSpec => Spec
  <1>1. LoopInit => Init
    BY DEF LoopInit
  <1>2. LoopInv /\ IInv /\ [LoopNext]_allVars => [Next]_vars
    BY LoopStepIsAStep
  <1> QED
    BY <1>1, <1>2, LoopInvariance, PTL DEF LoopSpec, Spec

-----------------------------------------------------------------------------
(***************************************************************************)
(* Overlaps.  A worker that is in time with its heartbeats holds a lease   *)
(* that outlasts the time to its next one by what the options put between  *)
(* the two.  It loses that only by a tick that finds it late, which counts *)
(* as a fault; so the faults bound the workers that go on running a task   *)
(* without being in time, and of those in time there is one for a task.    *)
(***************************************************************************)
HoldsInTime(w) ==
  /\ ValidLease(Task(w), w, Token(w))
  /\ lease_left[Task(w)] >= LeaseSeconds - HeartbeatInterval + beat_left[w]

Overrun(t) == {w \in Runners(t) : ~HoldsInTime(w)}

OverrunsArePaid == \A t \in Tasks : Cardinality(Overrun(t)) <= faults

OverlapInv == LoopTypeOK /\ OverrunsArePaid

\* The options leave time between a heartbeat and the end of its lease.
LEMMA OptionsAreNumbers ==
  /\ LeaseSeconds \in Nat /\ HeartbeatInterval \in Nat
  /\ HeartbeatInterval > 0 /\ HeartbeatInterval < LeaseSeconds
  BY WorkerOptionsAssumption, TimesAssumption

\* The workers on a task are finitely many.
LEMMA OverrunFinite ==
  \A t \in Tasks : /\ IsFiniteSet(Runners(t)) /\ Cardinality(Runners(t)) \in Nat
                   /\ IsFiniteSet(Overrun(t)) /\ Cardinality(Overrun(t)) \in Nat
  <1>1. \A t \in Tasks : Runners(t) \in SUBSET Workers /\ Overrun(t) \in SUBSET Workers
    BY DEF Runners, Overrun
  <1> QED
    BY <1>1, FS_Subset, FS_CardinalityType, WorkerOptionsAssumption

\* A step of clients, or a claim, leaves a lease alone that has time left.
LEMMA OthersKeepLease ==
  ASSUME IInv, NEW t \in Tasks, NEW w \in Workers, NEW k, ValidLease(t, w, k),
         ClientStep \/ \E v \in Workers, recovered \in SUBSET Expired,
                         claimed \in AtMostOne(Claimable) : ClaimTask(v, recovered, claimed, LeaseSeconds)
  PROVE  ValidLease(t, w, k)' /\ lease_left'[t] = lease_left[t]
  <1> USE DEF IInv, TypeOK, ValidLease
  <1>1. ASSUME NEW e \in Tasks, Enqueue(e) \/ CancelTask(e) \/ RetryTask(e) \/ DeadLetterTask(e)
        PROVE  ValidLease(t, w, k)' /\ lease_left'[t] = lease_left[t]
    BY <1>1 DEF Enqueue, CancelTask, RetryTask, DeadLetterTask, ClearLease, Waiting, leaseVars
  <1>2. ASSUME NEW v \in Workers, NEW recovered \in SUBSET Expired,
               NEW claimed \in AtMostOne(Claimable), ClaimTask(v, recovered, claimed, LeaseSeconds)
        PROVE  ValidLease(t, w, k)' /\ lease_left'[t] = lease_left[t]
    <2>1. t \notin recovered
      BY DEF Expired
    <2>2. t \notin claimed
      BY DEF AtMostOne, Claimable, Waiting
    <2> QED
      BY <1>2, <2>1, <2>2 DEF ClaimTask
  <1> QED
    BY <1>1, <1>2 DEF ClientStep

\* A call with the grant of one worker leaves the leases of others alone.
LEMMA GrantKeepsOthersLease ==
  ASSUME IInv, NEW t \in Tasks, NEW w \in Workers, NEW k, ValidLease(t, w, k),
         NEW v \in Workers, v # w, NEW e, NEW l,
         \/ HeartbeatTask(v, e, l) \/ CompleteTask(v, e, l)
         \/ \E r \in BOOLEAN : FailTask(v, e, l, r)
  PROVE  ValidLease(t, w, k)' /\ lease_left'[t] = lease_left[t]
  <1>1. t # e
    BY DEF ValidLease, HeartbeatTask, CompleteTask, FailTask
  <1> QED
    BY <1>1 DEF IInv, TypeOK, ValidLease, HeartbeatTask, CompleteTask, FailTask, ClearLease

\* One worker is in time with a task at most.
LEMMA OneInTime ==
  ASSUME NEW t \in Tasks, NEW v \in Runners(t), NEW w \in Runners(t),
         HoldsInTime(v), HoldsInTime(w)
  PROVE  v = w
  BY DEF HoldsInTime, Runners, ValidLease

-----------------------------------------------------------------------------
\* The processes start without work and without a fault.
LEMMA OverlapInit == LoopInit => OverlapInv
  <1> SUFFICES ASSUME LoopInit PROVE OverlapInv
    OBVIOUS
  <1>1. LoopTypeOK
    BY OptionsAreNumbers, FaultsAssumption DEF LoopInit, LoopTypeOK
  <1>2. \A t \in Tasks : Overrun(t) = {}
    BY DEF LoopInit, Overrun, Runners
  <1>3. \A t \in Tasks : Cardinality(Overrun(t)) = 0
    BY <1>2, FS_EmptySet
  <1> QED
    BY <1>1, <1>3 DEF OverlapInv, OverrunsArePaid, LoopInit

\* It is enough that a step makes nobody overrun, or pays for those it makes.
LEMMA NobodyNew ==
  ASSUME OverlapInv, NEW t \in Tasks, faults' \in Nat, faults' >= faults,
         Overrun(t)' \in SUBSET Overrun(t)
  PROVE  Cardinality(Overrun(t)') <= faults'
  <1>1. Cardinality(Overrun(t)') <= Cardinality(Overrun(t)) /\ Cardinality(Overrun(t)') \in Nat
    BY OverrunFinite, FS_Subset, FS_CardinalityType
  <1> QED
    BY <1>1, OverrunFinite, FaultsAssumption DEF OverlapInv, OverrunsArePaid, LoopTypeOK

\* The process of a worker moves only its own variables.
LEMMA WorkerStepIsOwn ==
  ASSUME TypeOK, LoopTypeOK, NEW w \in Workers, WorkerStep(w)
  PROVE  /\ LoopTypeOK'
         /\ faults' \in Nat /\ faults' >= faults
         /\ \A v \in Workers : v # w =>
              pc'[v] = pc[v] /\ work'[v] = work[v] /\ beat_left'[v] = beat_left[v]
  <1> USE DEF LoopTypeOK
  <1> DEFINE Own == \A v \in Workers : v # w =>
                      pc'[v] = pc[v] /\ work'[v] = work[v] /\ beat_left'[v] = beat_left[v]
             Rest == stopping' \in [Workers -> BOOLEAN] /\ faults' \in 0..MaxFaults /\ faults' >= faults
  <1>1. ASSUME NEW next \in {"loop", "waiting", "down"}, Leave(w, next), Rest
        PROVE  LoopTypeOK' /\ Own
    BY <1>1, OptionsAreNumbers DEF Leave
  <1>2. ASSUME faults' = faults \/ Fault
        PROVE  faults' \in 0..MaxFaults /\ faults' >= faults
    BY <1>2, FaultsAssumption DEF Fault
  <1>3. ASSUME NEW recovered \in SUBSET Expired, NEW claimed \in AtMostOne(Claimable),
               Claim(w, recovered, claimed)
        PROVE  LoopTypeOK' /\ Own /\ Rest
    <2>1. Rest
      BY <1>2, <1>3 DEF Claim
    <2>2. CASE claimed = {}
      BY <1>1, <1>3, <2>1, <2>2 DEF Claim
    <2>3. CASE claimed # {}
      <3>1. PICK t \in claimed :
              /\ pc' = [pc EXCEPT ![w] = "running"]
              /\ work' = [work EXCEPT ![w] = <<t, attempts[t] + 1>>]
              /\ handler' = [handler EXCEPT ![w] = "busy"]
              /\ beat_left' = [beat_left EXCEPT ![w] = NextBeat]
        BY <1>3, <2>3 DEF Claim
      <3>2. t \in Tasks /\ attempts[t] + 1 \in Nat
        BY DEF AtMostOne, Claimable, TypeOK
      <3>3. <<t, attempts[t] + 1>> \in (Tasks \X Nat) \cup {NoWork}
        BY <3>2
      <3>4. work' \in [Workers -> (Tasks \X Nat) \cup {NoWork}]
        BY <3>1, <3>3
      <3> QED
        BY <2>1, <3>1, <3>4, OptionsAreNumbers DEF NextBeat
    <2> QED
      BY <2>1, <2>2, <2>3
  <1>4. CASE \/ ClaimFails(w) \/ Wake(w) \/ Exit(w) \/ BeatRefused(w) \/ BeatFails(w)
             \/ Report(w) \/ ReportFails(w) \/ GraceOver(w) \/ Crash(w) \/ Start(w)
    <2>1. Leave(w, "loop") \/ Leave(w, "waiting") \/ Leave(w, "down")
      BY <1>4 DEF ClaimFails, Wake, Exit, BeatRefused, BeatFails, Report, ReportFails, GraceOver,
         Crash, Start
    <2>2. Rest
      BY <1>2, <1>4 DEF ClaimFails, Wake, Exit, BeatRefused, BeatFails, Report, ReportFails,
         GraceOver, Crash, Start
    <2> QED
      BY <1>1, <2>1, <2>2
  <1>5. CASE HandlerEnds(w) \/ Beat(w) \/ RequestStop(w)
    <2>1. Rest
      BY <1>2, <1>5 DEF HandlerEnds, Beat, RequestStop
    <2>2. CASE HandlerEnds(w)
      BY <2>1, <2>2 DEF HandlerEnds, Outcomes
    <2>3. CASE Beat(w)
      <3>1. Told(w) \in {"none", "busy"} \cup Outcomes
        BY DEF Told, Outcomes
      <3> QED
        BY <2>1, <2>3, <3>1, OptionsAreNumbers DEF Beat, NextBeat
    <2>4. CASE RequestStop(w)
      BY <2>1, <2>4 DEF RequestStop
    <2> QED
      BY <1>5, <2>1, <2>2, <2>3, <2>4
  <1>6. CASE \E recovered \in SUBSET Expired, claimed \in AtMostOne(Claimable) :
               Claim(w, recovered, claimed)
    <2> HIDE DEF LoopTypeOK
    <2>1. LoopTypeOK' /\ Own /\ Rest
      BY <1>3, <1>6
    <2> QED
      BY <2>1, FaultsAssumption
  <1> HIDE DEF LoopTypeOK
  <1> QED
    BY <1>4, <1>5, <1>6 DEF WorkerStep

\* A step of one worker leaves the others in time with their tasks.
LEMMA OthersStayInTime ==
  ASSUME IInv, LoopTypeOK, NEW w \in Workers, WorkerStep(w),
         NEW v \in Workers, v # w, Task(v) \in Tasks, HoldsInTime(v)
  PROVE  HoldsInTime(v)'
  <1>1. Task(v)' = Task(v) /\ Token(v)' = Token(v) /\ beat_left'[v] = beat_left[v]
    BY WorkerStepIsOwn DEF Task, Token, IInv
  <1>2. /\ ValidLease(Task(v), v, Token(v))
        /\ lease_left[Task(v)] >= LeaseSeconds - HeartbeatInterval + beat_left[v]
    BY DEF HoldsInTime
  <1>3. \/ UNCHANGED vars
        \/ ClientStep \/ \E u \in Workers, recovered \in SUBSET Expired,
                           claimed \in AtMostOne(Claimable) : ClaimTask(u, recovered, claimed, LeaseSeconds)
        \/ HeartbeatTask(w, Task(w), Token(w)) \/ CompleteTask(w, Task(w), Token(w))
        \/ \E r \in BOOLEAN : FailTask(w, Task(w), Token(w), r)
    <2>1. CASE \E recovered \in SUBSET Expired, claimed \in AtMostOne(Claimable) :
                 Claim(w, recovered, claimed)
      BY <2>1 DEF Claim
    <2>2. CASE ClaimFails(w)
      BY <2>2 DEF ClaimFails
    <2>3. CASE Beat(w)
      BY <2>3 DEF Beat
    <2>4. CASE Report(w)
      <3>1. (handler[w] = "retryable") \in BOOLEAN
        OBVIOUS
      <3> QED
        BY <2>4, <3>1 DEF Report, Record
    <2>5. CASE GraceOver(w)
      BY <2>5 DEF GraceOver, Record
    <2>6. CASE \/ Wake(w) \/ Exit(w) \/ HandlerEnds(w) \/ BeatRefused(w) \/ BeatFails(w)
               \/ ReportFails(w) \/ RequestStop(w) \/ Crash(w) \/ Start(w)
      BY <2>6 DEF Wake, Exit, HandlerEnds, BeatRefused, BeatFails, ReportFails, RequestStop,
         Crash, Start
    <2> QED
      BY <2>1, <2>2, <2>3, <2>4, <2>5, <2>6 DEF WorkerStep
  <1>4. ValidLease(Task(v), v, Token(v))' /\ lease_left'[Task(v)] = lease_left[Task(v)]
    <2>1. PICK t, k : t = Task(v) /\ k = Token(v)
      OBVIOUS
    <2>2. ValidLease(t, v, k) /\ t \in Tasks
      BY <1>2, <2>1
    <2>3. ValidLease(t, v, k)' /\ lease_left'[t] = lease_left[t]
      <3>1. CASE UNCHANGED vars
        BY <2>2, <3>1 DEF ValidLease, vars, leaseVars
      <3>2. CASE ClientStep \/ \E u \in Workers, recovered \in SUBSET Expired,
                   claimed \in AtMostOne(Claimable) : ClaimTask(u, recovered, claimed, LeaseSeconds)
        BY <2>2, <3>2, OthersKeepLease
      <3>3. CASE HeartbeatTask(w, Task(w), Token(w)) \/ CompleteTask(w, Task(w), Token(w))
                 \/ \E r \in BOOLEAN : FailTask(w, Task(w), Token(w), r)
        BY <2>2, <3>3, GrantKeepsOthersLease
      <3> QED
        BY <1>3, <3>1, <3>2, <3>3
    <2> QED
      BY <1>1, <2>1, <2>3 DEF ValidLease
  <1> QED
    BY <1>1, <1>2, <1>4 DEF HoldsInTime

\* A worker that goes on running is as much in time as it was, and one that
\* claims or sends a heartbeat is in time.
LEMMA OwnRunStaysInTime ==
  ASSUME IInv, LoopTypeOK, NEW w \in Workers, WorkerStep(w),
         pc'[w] = "running", Task(w)' \in Tasks
  PROVE  \/ HoldsInTime(w)'
         \/ pc[w] = "running" /\ Task(w)' = Task(w) /\ ~HoldsInTime(w)
  <1>1. ASSUME NEW next \in {"loop", "waiting", "down"}, Leave(w, next)
        PROVE  FALSE
    BY <1>1 DEF Leave, LoopTypeOK
  <1>2. ASSUME NEW recovered \in SUBSET Expired, NEW claimed \in AtMostOne(Claimable),
               Claim(w, recovered, claimed)
        PROVE  HoldsInTime(w)'
    <2>1. claimed # {}
      BY <1>1, <1>2 DEF Claim
    <2>2. PICK t \in claimed :
            /\ work' = [work EXCEPT ![w] = <<t, attempts[t] + 1>>]
            /\ beat_left' = [beat_left EXCEPT ![w] = NextBeat]
      BY <1>2, <2>1 DEF Claim
    <2>3. t \in Tasks
      BY DEF AtMostOne, Claimable
    <2>4. Task(w)' = t /\ Token(w)' = attempts[t] + 1 /\ beat_left'[w] = HeartbeatInterval
      BY <2>2 DEF Task, Token, LoopTypeOK, NextBeat
    <2>5. /\ status'[t] = "running" /\ lease_owner'[t] = w
          /\ lease_token'[t] = attempts[t] + 1 /\ lease_left'[t] = LeaseSeconds
      BY <1>2, <2>2, <2>3 DEF Claim, ClaimTask
    <2> QED
      BY <2>4, <2>5, OptionsAreNumbers DEF HoldsInTime, ValidLease
  <1>3. CASE Beat(w)
    <2>1. /\ ValidLease(Task(w), w, Token(w))
          /\ Task(w)' = Task(w) /\ Token(w)' = Token(w)
          /\ lease_left'[Task(w)] = LeaseSeconds
          /\ beat_left'[w] = HeartbeatInterval
          /\ UNCHANGED <<status, lease_owner, lease_token>>
      BY <1>3 DEF Beat, HeartbeatTask, Task, Token, LoopTypeOK, NextBeat
    <2> QED
      BY <2>1, OptionsAreNumbers DEF HoldsInTime, ValidLease
  <1>4. CASE HandlerEnds(w) \/ RequestStop(w)
    BY <1>4 DEF HandlerEnds, RequestStop, vars, leaseVars, HoldsInTime, ValidLease, Task, Token
  <1>5. CASE \/ ClaimFails(w) \/ Wake(w) \/ Exit(w) \/ BeatRefused(w) \/ BeatFails(w)
             \/ Report(w) \/ ReportFails(w) \/ GraceOver(w) \/ Crash(w) \/ Start(w)
    <2>1. Leave(w, "loop") \/ Leave(w, "waiting") \/ Leave(w, "down")
      BY <1>5 DEF ClaimFails, Wake, Exit, BeatRefused, BeatFails, Report, ReportFails, GraceOver,
         Crash, Start
    <2> QED
      BY <1>1, <2>1
  <1> QED
    BY <1>2, <1>3, <1>4, <1>5 DEF WorkerStep

\* No step of a worker makes anybody overrun.
LEMMA WorkerStepKeepsOverlaps ==
  ASSUME IInv, OverlapInv, NEW w \in Workers, WorkerStep(w)
  PROVE  OverlapInv'
  <1>1. LoopTypeOK /\ TypeOK
    BY DEF OverlapInv, IInv
  <1>2. /\ LoopTypeOK' /\ faults' \in Nat /\ faults' >= faults
        /\ \A v \in Workers : v # w =>
             pc'[v] = pc[v] /\ work'[v] = work[v] /\ beat_left'[v] = beat_left[v]
    BY <1>1, WorkerStepIsOwn
  <1>3. ASSUME NEW t \in Tasks PROVE Overrun(t)' \in SUBSET Overrun(t)
    <2> SUFFICES ASSUME NEW x \in Overrun(t)' PROVE x \in Overrun(t)
      OBVIOUS
    <2>1. x \in Workers /\ pc'[x] = "running" /\ Task(x)' = t /\ ~HoldsInTime(x)'
      BY DEF Overrun, Runners
    <2>2. CASE x = w
      <3>1. pc[w] = "running" /\ Task(w) = t /\ ~HoldsInTime(w)
        BY <1>1, <2>1, <2>2, OwnRunStaysInTime
      <3> QED
        BY <2>1, <2>2, <3>1 DEF Overrun, Runners
    <2>3. CASE x # w
      <3>1. pc[x] = "running" /\ Task(x) = t
        BY <1>2, <2>1, <2>3 DEF Task
      <3>2. ~HoldsInTime(x)
        BY <1>1, <2>1, <2>3, <3>1, OthersStayInTime
      <3> QED
        BY <2>1, <3>1, <3>2 DEF Overrun, Runners
    <2> QED
      BY <2>2, <2>3
  <1>4. \A t \in Tasks : Cardinality(Overrun(t)') <= faults'
    BY <1>2, <1>3, NobodyNew
  <1> QED
    BY <1>2, <1>4 DEF OverlapInv, OverrunsArePaid

\* Neither does a step of a client.
LEMMA ClientStepKeepsOverlaps ==
  ASSUME IInv, OverlapInv, ClientStep, UNCHANGED <<loopVars, faults>>
  PROVE  OverlapInv'
  <1>1. LoopTypeOK'
    BY DEF OverlapInv, LoopTypeOK, loopVars
  <1>2. ASSUME NEW t \in Tasks PROVE Overrun(t)' \in SUBSET Overrun(t)
    <2> SUFFICES ASSUME NEW x \in Workers, x \in Runners(t), HoldsInTime(x) PROVE HoldsInTime(x)'
      BY DEF Overrun, Runners, loopVars, Task
    <2>1. PICK k : k = Token(x)
      OBVIOUS
    <2>2. /\ ValidLease(t, x, k) /\ Task(x) = t
          /\ lease_left[t] >= LeaseSeconds - HeartbeatInterval + beat_left[x]
      BY <2>1 DEF HoldsInTime, Runners
    <2>3. ValidLease(t, x, k)' /\ lease_left'[t] = lease_left[t]
      BY <2>2, OthersKeepLease
    <2>4. Task(x)' = t /\ Token(x)' = k /\ beat_left'[x] = beat_left[x]
      BY <2>1, <2>2 DEF Task, Token, loopVars
    <2> QED
      BY <2>2, <2>3, <2>4 DEF HoldsInTime, ValidLease
  <1>3. faults' \in Nat /\ faults' >= faults
    BY FaultsAssumption DEF OverlapInv, LoopTypeOK
  <1>4. \A t \in Tasks : Cardinality(Overrun(t)') <= faults'
    BY <1>2, <1>3, NobodyNew
  <1> QED
    BY <1>1, <1>4 DEF OverlapInv, OverrunsArePaid

\* A tick takes the time to the next heartbeat and the time of the lease down
\* together; who has no such time left is late, and is counted.
LEMMA LoopTickKeepsOverlaps ==
  ASSUME IInv, OverlapInv, LoopTick
  PROVE  OverlapInv'
  <1>1. /\ beat_left' = BeatSooner
        /\ faults' = faults + Cardinality(Late) /\ faults' <= MaxFaults
        /\ UNCHANGED <<pc, work, handler, stopping, status, lease_owner, lease_token>>
        /\ lease_left' = Sooner(lease_left)
    BY DEF LoopTick, Tick
  <1>2. IsFiniteSet(Late) /\ Cardinality(Late) \in Nat /\ faults \in Nat
    <2>1. Late \in SUBSET Workers
      BY DEF Late
    <2> QED
      BY <2>1, FS_Subset, FS_CardinalityType, WorkerOptionsAssumption, FaultsAssumption
      DEF OverlapInv, LoopTypeOK
  <1>3. LoopTypeOK'
    <2>1. beat_left' \in [Workers -> 0..HeartbeatInterval]
      BY <1>1, OptionsAreNumbers DEF BeatSooner, OverlapInv, LoopTypeOK
    <2>2. faults' \in 0..MaxFaults
      BY <1>1, <1>2, FaultsAssumption
    <2> QED
      BY <1>1, <2>1, <2>2 DEF OverlapInv, LoopTypeOK
  <1>4. ASSUME NEW t \in Tasks, NEW x \in Runners(t), HoldsInTime(x), x \notin Late
        PROVE  HoldsInTime(x)'
    <2>1. x \in Workers /\ pc[x] = "running" /\ Task(x) = t
      BY DEF Runners
    <2>2. beat_left[x] \in Nat /\ beat_left[x] > 0 /\ beat_left'[x] = beat_left[x] - 1
      BY <1>1, <1>4, <2>1, OptionsAreNumbers DEF Late, BeatSooner, OverlapInv, LoopTypeOK
    <2>3. lease_left[t] \in Nat /\ lease_left[t] >= LeaseSeconds - HeartbeatInterval + beat_left[x]
      BY <1>4, <2>1 DEF HoldsInTime, IInv, TypeOK
    <2>4. lease_left'[t] = lease_left[t] - 1
      BY <1>1, <2>2, <2>3, OptionsAreNumbers DEF Sooner
    <2>5. Task(x)' = t /\ Token(x)' = Token(x)
      BY <1>1, <2>1 DEF Task, Token
    <2> QED
      BY <1>1, <1>4, <2>1, <2>2, <2>3, <2>4, <2>5, OptionsAreNumbers DEF HoldsInTime, ValidLease
  <1>5. ASSUME NEW t \in Tasks PROVE Cardinality(Overrun(t)') <= faults'
    <2>1. Overrun(t)' \in SUBSET (Overrun(t) \cup Late)
      BY <1>1, <1>4 DEF Overrun, Runners, Task
    <2>2. /\ IsFiniteSet(Overrun(t) \cup Late)
          /\ Cardinality(Overrun(t) \cup Late) =
               Cardinality(Overrun(t)) + Cardinality(Late) - Cardinality(Overrun(t) \cap Late)
      BY <1>2, OverrunFinite, FS_Union
    <2>3. Cardinality(Overrun(t) \cap Late) \in Nat
      BY <1>2, OverrunFinite, FS_Intersection, FS_CardinalityType
    <2>4. Cardinality(Overrun(t)') <= Cardinality(Overrun(t) \cup Late)
            /\ Cardinality(Overrun(t)') \in Nat
      BY <2>1, <2>2, FS_Subset, FS_CardinalityType
    <2>5. Cardinality(Overrun(t)) <= faults /\ Cardinality(Overrun(t)) \in Nat
      BY OverrunFinite DEF OverlapInv, OverrunsArePaid
    <2> QED
      BY <1>1, <1>2, <2>2, <2>3, <2>4, <2>5
  <1> QED
    BY <1>3, <1>5 DEF OverlapInv, OverrunsArePaid

\* Every step of the system keeps the account of overruns.
LEMMA LoopNextKeepsOverlaps == IInv /\ OverlapInv /\ [LoopNext]_allVars => OverlapInv'
  <1> SUFFICES ASSUME IInv, OverlapInv, [LoopNext]_allVars PROVE OverlapInv'
    OBVIOUS
  <1>1. CASE UNCHANGED allVars
    BY <1>1 DEF allVars, vars, leaseVars, loopVars, OverlapInv, LoopTypeOK, OverrunsArePaid, Overrun,
       Runners, HoldsInTime, ValidLease, Task, Token
  <1> QED
    BY <1>1, WorkerStepKeepsOverlaps, ClientStepKeepsOverlaps, LoopTickKeepsOverlaps DEF LoopNext

\* The account holds in every reachable state.
THEOREM OverlapInvariance == LoopSpec => []OverlapInv
  BY LoopInvariance, OverlapInit, LoopNextKeepsOverlaps, PTL DEF LoopSpec

\* Executions of a task overlap at most as often as something has failed, for
\* any number of workers, any lease and any interval of heartbeats below it;
\* and while nothing has failed a running worker holds the lease of its task.
THEOREM RunsExclusive == LoopSpec => []RunsAreExclusive
  <1>1. OverlapInv => OverlapCostsFaults
    <2> SUFFICES ASSUME OverlapInv, NEW t \in Tasks PROVE Cardinality(Runners(t)) <= 1 + faults
      BY DEF OverlapCostsFaults
    <2>1. Cardinality(Overrun(t)) <= faults /\ faults \in Nat
      BY FaultsAssumption DEF OverlapInv, OverrunsArePaid, LoopTypeOK
    <2>2. /\ IsFiniteSet(Overrun(t)) /\ Cardinality(Overrun(t)) \in Nat
          /\ Cardinality(Runners(t)) \in Nat /\ Overrun(t) \subseteq Runners(t)
      BY OverrunFinite DEF Overrun
    <2>3. CASE Runners(t) = Overrun(t)
      BY <2>1, <2>2, <2>3
    <2>4. CASE Runners(t) # Overrun(t)
      <3>1. PICK w \in Runners(t) : HoldsInTime(w)
        BY <2>4 DEF Overrun
      <3>2. Runners(t) = Overrun(t) \cup {w}
        BY <2>2, <3>1, OneInTime DEF Overrun
      <3>3. Cardinality(Overrun(t) \cup {w}) <= Cardinality(Overrun(t)) + 1
        <4>1. w \notin Overrun(t)
          BY <3>1 DEF Overrun
        <4>2. Cardinality(Overrun(t) \cup {w}) = Cardinality(Overrun(t)) + 1
          BY <2>2, <4>1, FS_AddElement
        <4> QED
          BY <2>2, <4>2
      <3>4. Cardinality(Runners(t)) <= Cardinality(Overrun(t)) + 1
        BY <3>2, <3>3
      <3> QED
        BY <2>1, <2>2, <3>4
    <2> QED
      BY <2>3, <2>4
  <1>2. LoopInv /\ OverlapInv => HealthyRunHoldsLease
    <2> SUFFICES ASSUME LoopInv, OverlapInv, faults = 0, NEW w \in Workers, pc[w] = "running"
                 PROVE  ValidLease(Task(w), w, Token(w))
      BY DEF HealthyRunHoldsLease
    <2>1. PICK t \in Tasks : t = Task(w)
      BY DEF LoopInv, WorkIsGranted, TypeOK
    <2>2. Overrun(t) = {}
      BY OverrunFinite, FS_EmptySet DEF OverlapInv, OverrunsArePaid
    <2>3. w \in Runners(t)
      BY <2>1 DEF Runners
    <2> QED
      BY <2>2, <2>3 DEF Overrun, HoldsInTime
  <1> QED
    BY <1>1, <1>2, LoopInvariance, OverlapInvariance, PTL DEF RunsAreExclusive, OverlapInv

-----------------------------------------------------------------------------
(***************************************************************************)
(* Dispatchers, for any number of rows, any finite number of dispatchers,  *)
(* any sharing of dispatcher ids and any number of faults.  The inductive  *)
(* invariant keeps an account for each row.  Beside the hints already sent *)
(* it counts those still on their way: a dispatcher whose claim has lapsed *)
(* goes on publishing.  A fault has been spent for each of them, and for   *)
(* each hint that was sent, except for the one whose claim is still live   *)
(* or has been settled as published.                                       *)
(***************************************************************************)
LiveClaim(d, r) == held[d] # NoClaim /\ held[d].row = r /\ StillHeld(d)

\* Claims of r that cannot be settled any more and may still send its hint.
Overdue(r) ==
  {d \in Dispatchers : held[d].stage = "publishing" /\ held[d].row = r /\ ~StillHeld(d)}

\* The one hint of r that no fault has to account for is sent.
Delivered(r) ==
  \/ row_status[r] = "published"
  \/ \E d \in Dispatchers : LiveClaim(d, r) /\ held[d].stage = "published"

SendsArePaid ==
  \A r \in Rows :
    sent[r] + Cardinality(Overdue(r)) <= IF Delivered(r) THEN faults + 1 ELSE faults

\* Every claim draws a version of its own, which is what tells the live claim
\* of a row from the lapsed ones, also of processes that share an id.
ClaimsAreNumbered ==
  \A d \in Dispatchers : held[d] # NoClaim =>
    /\ held[d].version <= row_version[held[d].row]
    /\ held[d].attempts > 0
    /\ \A e \in Dispatchers :
         e # d /\ held[e] # NoClaim /\ held[e].row = held[d].row => held[e].version # held[d].version

OutboxInv == OutboxTypeOK /\ ClaimsAreNumbered /\ SendsArePaid

-----------------------------------------------------------------------------
\* What a dispatcher is busy with.
LEMMA HeldFields ==
  ASSUME OutboxTypeOK, NEW d \in Dispatchers
  PROVE  /\ held[d].stage \in Stages => held[d] # NoClaim
         /\ held[d] = NoClaim => held[d].stage = "idle"
         /\ held[d] # NoClaim =>
              /\ held[d] \in [stage : Stages, row : Rows, version : Nat, attempts : Nat]
              /\ held[d].stage \in Stages /\ held[d].row \in Rows
              /\ held[d].version \in Nat /\ held[d].attempts \in Nat
  BY DEF OutboxTypeOK, Held, NoClaim, Stages

\* The retry delay is a natural number of ticks.
LEMMA PublishBackoffNat == \A n \in Nat : n > 0 => PublishBackoff(n) \in Nat
  <1> SUFFICES ASSUME NEW n \in Nat, n > 0 PROVE PublishBackoff(n) \in Nat
    OBVIOUS
  <1>1. CASE n > 6
    BY <1>1, OutboxTimesAssumption DEF PublishBackoff
  <1>2. CASE n \in 1..6
    BY <1>2, OutboxTimesAssumption DEF PublishBackoff
  <1> QED
    BY <1>1, <1>2

\* There are finitely many late senders.
LEMMA OverdueFinite ==
  \A r \in Rows : IsFiniteSet(Overdue(r)) /\ Cardinality(Overdue(r)) \in Nat
  <1>1. \A r \in Rows : Overdue(r) \in SUBSET Dispatchers
    BY DEF Overdue
  <1> QED
    BY <1>1, FS_Subset, FS_CardinalityType, DispatchersAssumption

\* A row has one live claim at most.
LEMMA OneLiveClaim ==
  ASSUME OutboxInv, NEW r \in Rows, NEW d \in Dispatchers, NEW e \in Dispatchers,
         LiveClaim(d, r), LiveClaim(e, r)
  PROVE  d = e
  BY DEF OutboxInv, ClaimsAreNumbered, LiveClaim, StillHeld

\* What a step has to show for a row of which neither the sent hints nor the
\* claims change.
LEMMA SameAccount ==
  ASSUME OutboxInv, NEW r \in Rows, faults' \in Nat,
         sent'[r] = sent[r], Overdue(r)' = Overdue(r), faults' >= faults,
         (Delivered(r)' <=> Delivered(r)) \/ (~Delivered(r)' /\ faults' >= faults + 1)
  PROVE  sent'[r] + Cardinality(Overdue(r)') <= IF Delivered(r)' THEN faults' + 1 ELSE faults'
  <1>1. Cardinality(Overdue(r)) \in Nat
    BY OverdueFinite
  <1>2. sent[r] + Cardinality(Overdue(r)) <= IF Delivered(r) THEN faults + 1 ELSE faults
    BY DEF OutboxInv, SendsArePaid
  <1>3. sent[r] \in Nat /\ faults \in Nat
    BY FaultsAssumption DEF OutboxInv, OutboxTypeOK
  <1> QED
    BY <1>1, <1>2, <1>3

-----------------------------------------------------------------------------
\* The outbox starts empty.
LEMMA OutboxInitInv == OutboxInit => OutboxInv
  <1> SUFFICES ASSUME OutboxInit PROVE OutboxInv
    OBVIOUS
  <1> USE DEF OutboxInit
  <1>1. OutboxTypeOK
    BY FaultsAssumption DEF OutboxTypeOK, RowStatuses, Held
  <1>2. ClaimsAreNumbered
    BY DEF ClaimsAreNumbered
  <1>3. \A r \in Rows : Overdue(r) = {}
    BY DEF Overdue, NoClaim
  <1>4. SendsArePaid
    <2>1. \A r \in Rows : sent[r] = 0 /\ Cardinality(Overdue(r)) = 0
      BY <1>3, FS_EmptySet
    <2> QED
      BY <2>1 DEF SendsArePaid
  <1> QED
    BY <1>1, <1>2, <1>4 DEF OutboxInv

\* A new row has no claim.
LEMMA AddRowKeepsInv ==
  ASSUME OutboxInv, NEW r0 \in Rows, NEW wait \in 0..HintDelay, AddRow(r0, wait)
  PROVE  OutboxInv'
  <1> USE DEF AddRow, OutboxInv
  <1>1. OutboxTypeOK'
    BY OutboxTimesAssumption DEF OutboxTypeOK, RowStatuses
  <1>2. ClaimsAreNumbered'
    BY DEF ClaimsAreNumbered
  <1>3. \A d \in Dispatchers : held[d] # NoClaim => (StillHeld(d)' <=> StillHeld(d))
    BY HeldFields DEF StillHeld, OutboxTypeOK
  <1>4. \A r \in Rows : Overdue(r)' = Overdue(r)
    BY <1>3 DEF Overdue, NoClaim
  <1>5. \A r \in Rows : (Delivered(r)' <=> Delivered(r))
    BY <1>3 DEF Delivered, LiveClaim, OutboxTypeOK
  <1>6. faults' \in Nat
    BY FaultsAssumption DEF OutboxTypeOK
  <1> QED
    BY <1>1, <1>2, <1>4, <1>5, <1>6, SameAccount, FaultsAssumption DEF SendsArePaid, OutboxTypeOK

\* A claim finds no live claim of its row and draws a new version, so that the
\* claims that lapsed before stay so.
LEMMA ClaimWakeupKeepsInv ==
  ASSUME OutboxInv, NEW d0 \in Dispatchers, NEW r0 \in Rows, ClaimWakeup(d0, r0)
  PROVE  OutboxInv'
  <1> USE DEF OutboxInv
  <1> DEFINE claim == [stage |-> "publishing", row |-> r0, version |-> row_version[r0] + 1,
                       attempts |-> publish_attempts[r0] + 1]
  <1>1. /\ held[d0] = NoClaim
        /\ Due(r0)
        /\ row_status' = [row_status EXCEPT ![r0] = "claimed"]
        /\ publish_attempts' = [publish_attempts EXCEPT ![r0] = @ + 1]
        /\ row_version' = [row_version EXCEPT ![r0] = @ + 1]
        /\ row_owner' = [row_owner EXCEPT ![r0] = DispatcherId[d0]]
        /\ row_lease' = [row_lease EXCEPT ![r0] = HintLease]
        /\ held' = [held EXCEPT ![d0] = claim]
        /\ UNCHANGED <<row_wait, sent, faults>>
    BY DEF ClaimWakeup
  <1>2. claim \in Held /\ claim # NoClaim
    <2>1. claim.row = r0 /\ "row" \in DOMAIN claim /\ "row" \notin DOMAIN NoClaim
      BY DEF NoClaim
    <2> QED
      BY <2>1 DEF Held, Stages, OutboxTypeOK
  <1>3. OutboxTypeOK'
    <2> HIDE DEF claim
    <2>1. DispatcherId[d0] \in Ids
      BY DispatchersAssumption
    <2>2. row_owner' \in [Rows -> Ids \cup {NoId}] /\ row_lease' \in [Rows -> Nat]
      BY <1>1, <2>1, OutboxTimesAssumption DEF OutboxTypeOK
    <2>3. held' \in [Dispatchers -> Held]
      BY <1>1, <1>2 DEF OutboxTypeOK
    <2> QED
      BY <1>1, <2>2, <2>3 DEF OutboxTypeOK, RowStatuses
  <1>4. ClaimsAreNumbered'
    <2> SUFFICES ASSUME NEW d \in Dispatchers, held'[d] # NoClaim
                 PROVE  /\ held'[d].version <= row_version'[held'[d].row]
                        /\ held'[d].attempts > 0
                        /\ \A e \in Dispatchers :
                             e # d /\ held'[e] # NoClaim /\ held'[e].row = held'[d].row
                               => held'[e].version # held'[d].version
      BY DEF ClaimsAreNumbered
    <2>1. \A e \in Dispatchers : held[e] # NoClaim =>
            /\ held[e].row \in Rows /\ held[e].version \in Nat
            /\ held[e].version <= row_version[held[e].row] /\ held[e].attempts > 0
      BY HeldFields DEF ClaimsAreNumbered
    <2>2. CASE d = d0
      BY <1>1, <2>1, <2>2 DEF OutboxTypeOK
    <2>3. CASE d # d0
      BY <1>1, <2>1, <2>3 DEF OutboxTypeOK, ClaimsAreNumbered
    <2> QED
      BY <2>2, <2>3
  <1>5. ASSUME NEW e \in Dispatchers, e # d0, held[e] # NoClaim
        PROVE  /\ (StillHeld(e)' <=> StillHeld(e))
               /\ held[e].row = r0 => ~StillHeld(e)
    <2>1. CASE held[e].row = r0
      <3>1. ~StillHeld(e)
        BY <1>1, <2>1 DEF StillHeld, Due
      <3>2. held[e].version # row_version'[r0]
        BY <1>1, <1>5, <2>1, HeldFields DEF ClaimsAreNumbered, OutboxTypeOK
      <3>3. ~StillHeld(e)'
        BY <1>1, <1>5, <2>1, <3>2 DEF StillHeld
      <3> QED
        BY <3>1, <3>3
    <2>2. CASE held[e].row # r0
      BY <1>1, <1>5, <2>2, HeldFields DEF StillHeld, OutboxTypeOK
    <2> QED
      BY <2>1, <2>2
  <1>6. StillHeld(d0)'
    BY <1>1, OutboxTimesAssumption DEF StillHeld, OutboxTypeOK
  <1>7. ASSUME NEW r \in Rows PROVE Overdue(r)' = Overdue(r)
    BY <1>1, <1>5, <1>6 DEF Overdue, NoClaim
  <1>8. ASSUME NEW r \in Rows PROVE (Delivered(r)' <=> Delivered(r))
    <2>1. \A e \in Dispatchers : (LiveClaim(e, r) /\ held[e].stage = "published")'
                               <=> (LiveClaim(e, r) /\ held[e].stage = "published")
      BY <1>1, <1>5 DEF LiveClaim, NoClaim
    <2>2. (row_status[r] = "published")' <=> (row_status[r] = "published")
      BY <1>1 DEF Due, OutboxTypeOK
    <2> QED
      BY <2>1, <2>2 DEF Delivered
  <1>9. faults' \in Nat
    BY <1>1, FaultsAssumption DEF OutboxTypeOK
  <1> QED
    BY <1>1, <1>3, <1>4, <1>7, <1>8, <1>9, SameAccount DEF SendsArePaid

\* The effect on the claims of a step that only moves d0 from publishing to
\* stage "published" or "refused": a late sender is one fewer.
LEMMA PublishEnds ==
  ASSUME OutboxInv, NEW d0 \in Dispatchers, NEW s \in {"published", "refused"},
         held[d0].stage = "publishing", held' = [held EXCEPT ![d0].stage = s],
         UNCHANGED rowVars
  PROVE  /\ held'[d0] # NoClaim /\ held'[d0].row = held[d0].row /\ held'[d0].stage = s
         /\ held'[d0].version = held[d0].version /\ held'[d0].attempts = held[d0].attempts
         /\ held' \in [Dispatchers -> Held]
         /\ ClaimsAreNumbered'
         /\ \A e \in Dispatchers : held[e] # NoClaim => (StillHeld(e)' <=> StillHeld(e))
         /\ \A r \in Rows : Overdue(r)' = IF r = held[d0].row THEN Overdue(r) \ {d0} ELSE Overdue(r)
         /\ StillHeld(d0) <=> d0 \notin Overdue(held[d0].row)
  <1> USE DEF OutboxInv
  <1> DEFINE old == held[d0]
  <1>1. /\ old # NoClaim /\ old.row \in Rows /\ old.version \in Nat /\ old.attempts \in Nat
        /\ old = [stage |-> "publishing", row |-> old.row, version |-> old.version,
                  attempts |-> old.attempts]
    <2>1. old # NoClaim
      BY HeldFields DEF Stages
    <2>2. old \in [stage : Stages, row : Rows, version : Nat, attempts : Nat]
      BY <2>1, HeldFields
    <2> QED
      BY <2>1, <2>2
  <1>2. held'[d0] = [stage |-> s, row |-> old.row, version |-> old.version,
                     attempts |-> old.attempts]
    BY <1>1 DEF OutboxTypeOK
  <1>3. \A e \in Dispatchers : e # d0 => held'[e] = held[e]
    BY DEF OutboxTypeOK
  <1>4. held'[d0] \in Held /\ held'[d0].stage = s /\ held'[d0] # NoClaim
    BY <1>1, <1>2 DEF Held, Stages, NoClaim
  <1>5. held' \in [Dispatchers -> Held]
    BY <1>4 DEF OutboxTypeOK
  <1>6. ClaimsAreNumbered'
    BY <1>1, <1>2, <1>3 DEF ClaimsAreNumbered, rowVars
  <1>7. \A e \in Dispatchers : held[e] # NoClaim => (StillHeld(e)' <=> StillHeld(e))
    BY <1>1, <1>2, <1>3 DEF StillHeld, rowVars
  <1>8. ASSUME NEW r \in Rows
        PROVE  Overdue(r)' = IF r = old.row THEN Overdue(r) \ {d0} ELSE Overdue(r)
    <2>1. d0 \notin Overdue(r)'
      BY <1>4 DEF Overdue
    <2>2. \A e \in Dispatchers : e # d0 => (e \in Overdue(r)' <=> e \in Overdue(r))
      BY <1>3, <1>7, HeldFields DEF Overdue, Stages
    <2>3. r # old.row => d0 \notin Overdue(r)
      BY DEF Overdue
    <2> QED
      BY <2>1, <2>2, <2>3 DEF Overdue
  <1>9. StillHeld(d0) <=> d0 \notin Overdue(old.row)
    BY DEF Overdue
  <1> QED
    BY <1>1, <1>2, <1>4, <1>5, <1>6, <1>7, <1>8, <1>9

\* A confirmed hint is the one of the live claim, or that of a late sender,
\* who has been paid for.
LEMMA PublishConfirmedKeepsInv ==
  ASSUME OutboxInv, NEW d0 \in Dispatchers, PublishConfirmed(d0)
  PROVE  OutboxInv'
  <1> USE DEF OutboxInv
  <1> DEFINE r0 == held[d0].row
  <1>1. /\ held[d0].stage = "publishing"
        /\ held' = [held EXCEPT ![d0].stage = "published"]
        /\ sent' = [sent EXCEPT ![r0] = @ + 1]
        /\ UNCHANGED <<rowVars, faults>>
    BY DEF PublishConfirmed
  <1>2. r0 \in Rows /\ held[d0] # NoClaim
    BY <1>1, HeldFields DEF Stages
  <1>3. /\ held' \in [Dispatchers -> Held]
        /\ ClaimsAreNumbered'
        /\ held'[d0] # NoClaim /\ held'[d0].row = r0 /\ held'[d0].stage = "published"
        /\ \A e \in Dispatchers : held[e] # NoClaim => (StillHeld(e)' <=> StillHeld(e))
        /\ \A r \in Rows : Overdue(r)' = IF r = r0 THEN Overdue(r) \ {d0} ELSE Overdue(r)
        /\ StillHeld(d0) <=> d0 \notin Overdue(r0)
    BY <1>1, PublishEnds
  <1>4. OutboxTypeOK'
    BY <1>1, <1>2, <1>3 DEF OutboxTypeOK, rowVars
  <1>5. \A e \in Dispatchers : e # d0 => held'[e] = held[e]
    BY <1>1 DEF OutboxTypeOK
  <1>6. ASSUME NEW r \in Rows
        PROVE  /\ r # r0 => (Delivered(r)' <=> Delivered(r))
               /\ ~StillHeld(d0) => (Delivered(r)' <=> Delivered(r))
    <2>1. \A e \in Dispatchers : e # d0 =>
            (LiveClaim(e, r)' <=> LiveClaim(e, r))
      BY <1>3, <1>5 DEF LiveClaim
    <2>2. LiveClaim(d0, r)' => r = r0 /\ StillHeld(d0)
      BY <1>2, <1>3 DEF LiveClaim
    <2>3. ~(LiveClaim(d0, r) /\ held[d0].stage = "published")
      BY <1>1
    <2> QED
      BY <1>1, <1>5, <2>1, <2>2, <2>3 DEF Delivered, rowVars
  <1>7. ASSUME NEW r \in Rows, r = r0, StillHeld(d0)
        PROVE  ~Delivered(r) /\ Delivered(r)'
    <2>1. LiveClaim(d0, r) /\ row_status[r] = "claimed"
      BY <1>2, <1>7 DEF LiveClaim, StillHeld
    <2>2. \A e \in Dispatchers : LiveClaim(e, r) => e = d0
      BY <2>1, OneLiveClaim
    <2>3. ~Delivered(r)
      BY <1>1, <2>1, <2>2 DEF Delivered
    <2>4. Delivered(r)'
      BY <1>2, <1>3, <1>7 DEF Delivered, LiveClaim
    <2> QED
      BY <2>3, <2>4
  <1>8. ASSUME NEW r \in Rows
        PROVE  sent'[r] + Cardinality(Overdue(r)') <= IF Delivered(r)' THEN faults' + 1 ELSE faults'
    <2>1. /\ sent[r] + Cardinality(Overdue(r)) <= IF Delivered(r) THEN faults + 1 ELSE faults
          /\ sent[r] \in Nat /\ faults \in Nat /\ Cardinality(Overdue(r)) \in Nat
      BY OverdueFinite, FaultsAssumption DEF SendsArePaid, OutboxTypeOK
    <2>2. CASE r # r0
      <3>1. sent'[r] = sent[r] /\ faults' = faults
        BY <1>1, <2>2 DEF OutboxTypeOK
      <3>2. Overdue(r)' = Overdue(r)
        BY <1>3, <2>2
      <3> QED
        BY <1>6, <2>1, <2>2, <3>1, <3>2
    <2>3. CASE r = r0 /\ StillHeld(d0)
      <3>1. sent'[r] = sent[r] + 1 /\ faults' = faults
        BY <1>1, <1>2, <2>3 DEF OutboxTypeOK
      <3>2. d0 \notin Overdue(r)
        BY <1>3, <2>3
      <3>3. Overdue(r)' = Overdue(r) \ {d0}
        BY <1>3, <2>3
      <3>4. Overdue(r)' = Overdue(r)
        BY <3>2, <3>3
      <3>5. ~Delivered(r) /\ Delivered(r)'
        BY <1>7, <2>3
      <3>6. sent[r] + Cardinality(Overdue(r)) <= faults
        BY <2>1, <3>5
      <3>7. Cardinality(Overdue(r)') = Cardinality(Overdue(r))
        BY <3>4
      <3>8. sent'[r] + Cardinality(Overdue(r)') <= faults' + 1
        BY <2>1, <3>1, <3>6, <3>7
      <3>9. (IF Delivered(r)' THEN faults' + 1 ELSE faults') = faults' + 1
        BY <3>5
      <3> QED
        BY <3>8, <3>9
    <2>4. CASE r = r0 /\ ~StillHeld(d0)
      <3>1. sent'[r] = sent[r] + 1 /\ faults' = faults
        BY <1>1, <1>2, <2>4 DEF OutboxTypeOK
      <3>4. Overdue(r)' = Overdue(r) \ {d0}
        BY <1>3, <2>4
      <3>2. d0 \in Overdue(r) /\ IsFiniteSet(Overdue(r))
        BY <1>3, <2>4, OverdueFinite
      <3>3. Cardinality(Overdue(r) \ {d0}) = Cardinality(Overdue(r)) - 1
        BY <3>2, FS_RemoveElement
      <3> QED
        BY <1>6, <2>1, <2>4, <3>1, <3>3, <3>4
    <2> QED
      BY <2>2, <2>3, <2>4
  <1> QED
    BY <1>3, <1>4, <1>8 DEF SendsArePaid

\* A publish that fails is a fault, which pays for the hint should the broker
\* have got it.
LEMMA PublishFailsKeepsInv ==
  ASSUME OutboxInv, NEW d0 \in Dispatchers, PublishFails(d0)
  PROVE  OutboxInv'
  <1> USE DEF OutboxInv
  <1> DEFINE r0 == held[d0].row
  <1>1. /\ held[d0].stage = "publishing"
        /\ held' = [held EXCEPT ![d0].stage = "refused"]
        /\ sent' = sent \/ sent' = [sent EXCEPT ![r0] = @ + 1]
        /\ faults < MaxFaults /\ faults' = faults + 1
        /\ UNCHANGED rowVars
    BY DEF PublishFails, Fault
  <1>2. r0 \in Rows /\ held[d0] # NoClaim
    BY <1>1, HeldFields DEF Stages
  <1>3. /\ held' \in [Dispatchers -> Held]
        /\ ClaimsAreNumbered'
        /\ held'[d0] # NoClaim /\ held'[d0].row = r0 /\ held'[d0].stage = "refused"
        /\ \A e \in Dispatchers : held[e] # NoClaim => (StillHeld(e)' <=> StillHeld(e))
        /\ \A r \in Rows : Overdue(r)' = IF r = r0 THEN Overdue(r) \ {d0} ELSE Overdue(r)
        /\ StillHeld(d0) <=> d0 \notin Overdue(r0)
    BY <1>1, PublishEnds
  <1>4. OutboxTypeOK'
    <2>1. sent' \in [Rows -> Nat]
      BY <1>1, <1>2 DEF OutboxTypeOK
    <2>2. faults' \in 0..MaxFaults
      BY <1>1, FaultsAssumption DEF OutboxTypeOK
    <2> QED
      BY <1>1, <1>3, <2>1, <2>2 DEF OutboxTypeOK, rowVars
  <1>5. \A e \in Dispatchers : e # d0 => held'[e] = held[e]
    BY <1>1 DEF OutboxTypeOK
  <1>6. ASSUME NEW r \in Rows PROVE Delivered(r)' <=> Delivered(r)
    <2>1. \A e \in Dispatchers : e # d0 => (LiveClaim(e, r)' <=> LiveClaim(e, r))
      BY <1>3, <1>5 DEF LiveClaim
    <2> QED
      BY <1>1, <1>3, <1>5, <2>1 DEF Delivered, rowVars
  <1>7. StillHeld(d0) => ~Delivered(r0)
    <2> SUFFICES ASSUME StillHeld(d0) PROVE ~Delivered(r0)
      OBVIOUS
    <2>1. LiveClaim(d0, r0) /\ row_status[r0] = "claimed"
      BY <1>2 DEF LiveClaim, StillHeld
    <2>2. \A e \in Dispatchers : LiveClaim(e, r0) => e = d0
      BY <1>2, <2>1, OneLiveClaim
    <2> QED
      BY <1>1, <2>1, <2>2 DEF Delivered
  <1>8. ASSUME NEW r \in Rows
        PROVE  sent'[r] + Cardinality(Overdue(r)') <= IF Delivered(r)' THEN faults' + 1 ELSE faults'
    <2>1. /\ sent[r] + Cardinality(Overdue(r)) <= IF Delivered(r) THEN faults + 1 ELSE faults
          /\ sent[r] \in Nat /\ faults \in Nat /\ Cardinality(Overdue(r)) \in Nat
      BY OverdueFinite, FaultsAssumption DEF SendsArePaid, OutboxTypeOK
    <2>2. CASE r # r0
      <3>1. sent'[r] = sent[r] /\ faults' = faults + 1
        BY <1>1, <2>2 DEF OutboxTypeOK
      <3>2. Overdue(r)' = Overdue(r)
        BY <1>3, <2>2
      <3> QED
        BY <1>6, <2>1, <3>1, <3>2
    <2>3. CASE r = r0 /\ StillHeld(d0)
      <3>1. /\ sent'[r] = sent[r] \/ sent'[r] = sent[r] + 1
            /\ faults' = faults + 1
        BY <1>1, <1>2, <2>3 DEF OutboxTypeOK
      <3>2. Overdue(r)' = Overdue(r)
        BY <1>2, <1>3, <2>3
      <3> QED
        BY <1>6, <1>7, <2>1, <2>3, <3>1, <3>2
    <2>4. CASE r = r0 /\ ~StillHeld(d0)
      <3>1. /\ sent'[r] = sent[r] \/ sent'[r] = sent[r] + 1
            /\ faults' = faults + 1
        BY <1>1, <1>2, <2>4 DEF OutboxTypeOK
      <3>4. Overdue(r)' = Overdue(r) \ {d0}
        BY <1>3, <2>4
      <3>2. d0 \in Overdue(r) /\ IsFiniteSet(Overdue(r))
        BY <1>3, <2>4, OverdueFinite
      <3>3. Cardinality(Overdue(r) \ {d0}) = Cardinality(Overdue(r)) - 1
        BY <3>2, FS_RemoveElement
      <3> QED
        BY <1>6, <2>1, <3>1, <3>3, <3>4
    <2> QED
      BY <2>2, <2>3, <2>4
  <1> QED
    BY <1>3, <1>4, <1>8 DEF SendsArePaid

\* A settlement ends the live claim of its row, or nothing but the round.
LEMMA SettleKeepsInv ==
  ASSUME OutboxInv, NEW d0 \in Dispatchers, Settle(d0)
  PROVE  OutboxInv'
  <1> USE DEF OutboxInv
  <1> DEFINE r0 == held[d0].row
  <1>1. /\ held[d0].stage \in {"published", "refused"}
        /\ held' = [held EXCEPT ![d0] = NoClaim]
        /\ UNCHANGED <<sent, faults>>
    BY DEF Settle
  <1>2. /\ r0 \in Rows /\ held[d0] # NoClaim
        /\ held'[d0] = NoClaim /\ NoClaim \in Held /\ NoClaim.stage = "idle"
    BY <1>1, HeldFields DEF Stages, OutboxTypeOK, Held, NoClaim
  <1>3. \A e \in Dispatchers : e # d0 => held'[e] = held[e]
    BY <1>1 DEF OutboxTypeOK
  <1>4. faults' = faults /\ faults' \in Nat
    BY <1>1, FaultsAssumption DEF OutboxTypeOK
  <1>5. CASE StillHeld(d0)
    <2>1. /\ row_status' = [row_status EXCEPT ![r0] =
                              IF held[d0].stage = "published" THEN "published" ELSE "retry_wait"]
          /\ row_wait' = [row_wait EXCEPT ![r0] =
                            IF held[d0].stage = "published" THEN @
                            ELSE PublishBackoff(held[d0].attempts)]
          /\ row_version' = [row_version EXCEPT ![r0] = @ + 1]
          /\ row_owner' = [row_owner EXCEPT ![r0] = NoId]
          /\ row_lease' = [row_lease EXCEPT ![r0] = 0]
          /\ UNCHANGED publish_attempts
      BY <1>5 DEF Settle
    <2>2. OutboxTypeOK'
      <3>1. PublishBackoff(held[d0].attempts) \in Nat
        BY <1>2, PublishBackoffNat, HeldFields DEF ClaimsAreNumbered
      <3>2. row_status' \in [Rows -> RowStatuses]
        BY <2>1 DEF OutboxTypeOK, RowStatuses
      <3>3. row_wait' \in [Rows -> Nat]
        <4> DEFINE wait == IF held[d0].stage = "published" THEN row_wait[r0]
                           ELSE PublishBackoff(held[d0].attempts)
        <4>1. wait \in Nat
          BY <1>2, <3>1 DEF OutboxTypeOK
        <4>2. row_wait' = [row_wait EXCEPT ![r0] = wait]
          BY <2>1
        <4> HIDE DEF wait
        <4> QED
          BY <4>1, <4>2 DEF OutboxTypeOK
      <3>4. row_version' \in [Rows -> Nat] /\ row_lease' \in [Rows -> Nat]
        <4>1. row_version' = [row_version EXCEPT ![r0] = @ + 1]
          BY <2>1
        <4>2. row_lease' = [row_lease EXCEPT ![r0] = 0]
          BY <2>1
        <4>3. row_version' \in [Rows -> Nat]
          BY <1>2, <4>1 DEF OutboxTypeOK
        <4>4. row_lease' \in [Rows -> Nat]
          BY <4>2 DEF OutboxTypeOK
        <4> QED
          BY <4>3, <4>4
      <3>5. row_owner' \in [Rows -> Ids \cup {NoId}]
        BY <2>1 DEF OutboxTypeOK
      <3>6. held' \in [Dispatchers -> Held]
        BY <1>1, <1>2 DEF OutboxTypeOK
      <3> QED
        BY <1>1, <2>1, <3>2, <3>3, <3>4, <3>5, <3>6 DEF OutboxTypeOK
    <2>3. ClaimsAreNumbered'
      <3>1. \A e \in Dispatchers : held'[e] # NoClaim =>
              e # d0 /\ held'[e] = held[e] /\ held[e].row \in Rows /\ held[e].version \in Nat
        BY <1>2, <1>3, HeldFields
      <3>2. \A r \in Rows : row_version[r] \in Nat /\ row_version'[r] >= row_version[r]
        BY <2>1 DEF OutboxTypeOK
      <3>3. \A e \in Dispatchers : held'[e] # NoClaim =>
              held'[e].version <= row_version'[held'[e].row]
        BY <3>1, <3>2, <2>2 DEF ClaimsAreNumbered, OutboxTypeOK
      <3> QED
        BY <3>1, <3>3 DEF ClaimsAreNumbered
    <2>4. ASSUME NEW e \in Dispatchers, e # d0, held[e] # NoClaim
          PROVE  /\ StillHeld(e)' <=> StillHeld(e)
                 /\ held[e].row = r0 => ~StillHeld(e)
      <3>1. CASE held[e].row = r0
        BY <1>2, <1>3, <1>5, <2>1, <2>4, <3>1 DEF StillHeld, ClaimsAreNumbered, OutboxTypeOK
      <3>2. CASE held[e].row # r0
        BY <1>3, <2>1, <2>4, <3>2, HeldFields DEF StillHeld, OutboxTypeOK
      <3> QED
        BY <3>1, <3>2
    <2>5. ASSUME NEW r \in Rows PROVE Overdue(r)' = Overdue(r)
      BY <1>1, <1>2, <1>3, <2>4, HeldFields DEF Overdue, Stages
    <2>6. ASSUME NEW r \in Rows PROVE Delivered(r)' <=> Delivered(r)
      <3>1. \A e \in Dispatchers : e # d0 => (LiveClaim(e, r)' <=> LiveClaim(e, r))
        BY <1>3, <2>4 DEF LiveClaim
      <3>2. ~LiveClaim(d0, r)'
        BY <1>2 DEF LiveClaim
      <3>3. CASE r # r0
        <4>1. ~LiveClaim(d0, r) /\ row_status'[r] = row_status[r]
          BY <2>1, <3>3 DEF LiveClaim, OutboxTypeOK
        <4> QED
          BY <1>3, <3>1, <3>2, <4>1 DEF Delivered
      <3>4. CASE r = r0
        <4>1. /\ LiveClaim(d0, r) /\ row_status[r] = "claimed"
              /\ row_status'[r] = IF held[d0].stage = "published" THEN "published" ELSE "retry_wait"
          BY <1>2, <1>5, <2>1, <3>4 DEF LiveClaim, StillHeld, OutboxTypeOK
        <4>2. \A e \in Dispatchers : LiveClaim(e, r) => e = d0
          BY <4>1, OneLiveClaim
        <4> QED
          BY <1>1, <3>1, <3>2, <4>1, <4>2 DEF Delivered
      <3> QED
        BY <3>3, <3>4
    <2> QED
      BY <1>1, <1>4, <2>2, <2>3, <2>5, <2>6, SameAccount DEF SendsArePaid
  <1>6. CASE ~StillHeld(d0)
    <2>1. UNCHANGED rowVars
      BY <1>6 DEF Settle
    <2>2. OutboxTypeOK'
      BY <1>1, <1>2, <2>1 DEF OutboxTypeOK, rowVars
    <2>3. ClaimsAreNumbered'
      BY <1>2, <1>3, <2>1 DEF ClaimsAreNumbered, rowVars
    <2>4. \A e \in Dispatchers : e # d0 => (StillHeld(e)' <=> StillHeld(e))
      BY <1>3, <2>1 DEF StillHeld, rowVars
    <2>5. ASSUME NEW r \in Rows PROVE Overdue(r)' = Overdue(r)
      BY <1>1, <1>2, <1>3, <2>4 DEF Overdue
    <2>6. ASSUME NEW r \in Rows PROVE Delivered(r)' <=> Delivered(r)
      BY <1>2, <1>3, <1>6, <2>1, <2>4 DEF Delivered, LiveClaim, rowVars
    <2> QED
      BY <1>1, <1>4, <2>2, <2>3, <2>5, <2>6, SameAccount DEF SendsArePaid
  <1> QED
    BY <1>5, <1>6

\* A crash is a fault, and takes a sender away.
LEMMA DispatcherCrashKeepsInv ==
  ASSUME OutboxInv, NEW d0 \in Dispatchers, DispatcherCrash(d0)
  PROVE  OutboxInv'
  <1> USE DEF OutboxInv
  <1>1. /\ held' = [held EXCEPT ![d0] = NoClaim]
        /\ faults < MaxFaults /\ faults' = faults + 1
        /\ UNCHANGED <<rowVars, sent>>
    BY DEF DispatcherCrash, Fault
  <1>2. /\ held'[d0] = NoClaim /\ NoClaim \in Held /\ NoClaim.stage = "idle"
        /\ \A e \in Dispatchers : e # d0 => held'[e] = held[e]
    BY <1>1 DEF OutboxTypeOK, Held, NoClaim
  <1>3. OutboxTypeOK'
    <2>1. faults' \in 0..MaxFaults
      BY <1>1, FaultsAssumption DEF OutboxTypeOK
    <2> QED
      BY <1>1, <1>2, <2>1 DEF OutboxTypeOK, rowVars
  <1>4. ClaimsAreNumbered'
    BY <1>1, <1>2 DEF ClaimsAreNumbered, rowVars
  <1>5. \A e \in Dispatchers : e # d0 => (StillHeld(e)' <=> StillHeld(e))
    BY <1>1, <1>2 DEF StillHeld, rowVars
  <1>6. ASSUME NEW r \in Rows
        PROVE  sent'[r] + Cardinality(Overdue(r)') <= IF Delivered(r)' THEN faults' + 1 ELSE faults'
    <2>1. /\ sent[r] + Cardinality(Overdue(r)) <= IF Delivered(r) THEN faults + 1 ELSE faults
          /\ sent[r] \in Nat /\ faults \in Nat /\ Cardinality(Overdue(r)) \in Nat
          /\ IsFiniteSet(Overdue(r))
      BY OverdueFinite, FaultsAssumption DEF SendsArePaid, OutboxTypeOK
    <2>2. Overdue(r)' \in SUBSET Overdue(r)
      BY <1>2, <1>5 DEF Overdue
    <2>3. Cardinality(Overdue(r)') <= Cardinality(Overdue(r)) /\ Cardinality(Overdue(r)') \in Nat
      BY <2>1, <2>2, FS_Subset, FS_CardinalityType
    <2>4. sent'[r] = sent[r] /\ faults' = faults + 1
      BY <1>1
    <2> QED
      BY <2>1, <2>3, <2>4
  <1> QED
    BY <1>3, <1>4, <1>6 DEF SendsArePaid

\* When the lease of a claim ends its dispatcher is counted as a fault, be it
\* that it has still to send the hint or to record that it has.
LEMMA OutboxTickKeepsInv ==
  ASSUME OutboxInv, OutboxTick
  PROVE  OutboxInv'
  <1> USE DEF OutboxInv
  <1>1. /\ row_wait' = RowSooner(row_wait) /\ row_lease' = RowSooner(row_lease)
        /\ faults' = faults + Cardinality(AboutToLapse) /\ faults' <= MaxFaults
        /\ UNCHANGED <<row_status, publish_attempts, row_version, row_owner, held, sent>>
    BY DEF OutboxTick
  <1>2. IsFiniteSet(AboutToLapse) /\ Cardinality(AboutToLapse) \in Nat /\ faults \in Nat
    <2>1. AboutToLapse \in SUBSET Dispatchers
      BY DEF AboutToLapse
    <2> QED
      BY <2>1, FS_Subset, FS_CardinalityType, DispatchersAssumption, FaultsAssumption
      DEF OutboxTypeOK
  <1>3. OutboxTypeOK'
    <2>1. row_wait' \in [Rows -> Nat] /\ row_lease' \in [Rows -> Nat]
      BY <1>1 DEF RowSooner, OutboxTypeOK
    <2>2. faults' \in 0..MaxFaults
      BY <1>1, <1>2, FaultsAssumption
    <2> QED
      BY <1>1, <2>1, <2>2 DEF OutboxTypeOK
  <1>4. ClaimsAreNumbered'
    BY <1>1 DEF ClaimsAreNumbered
  <1>5. \A r \in Rows : row_lease[r] \in Nat /\ row_lease'[r] = IF row_lease[r] > 0 THEN row_lease[r] - 1 ELSE 0
    BY <1>1 DEF RowSooner, OutboxTypeOK
  <1>6. ASSUME NEW e \in Dispatchers, held[e] # NoClaim
        PROVE  /\ e \notin AboutToLapse => (StillHeld(e)' <=> StillHeld(e))
               /\ e \in AboutToLapse => StillHeld(e) /\ ~StillHeld(e)'
    BY <1>1, <1>5, <1>6, HeldFields DEF StillHeld, AboutToLapse
  <1>7. ASSUME NEW r \in Rows
        PROVE  sent'[r] + Cardinality(Overdue(r)') <= IF Delivered(r)' THEN faults' + 1 ELSE faults'
    <2>1. /\ sent[r] + Cardinality(Overdue(r)) <= IF Delivered(r) THEN faults + 1 ELSE faults
          /\ sent[r] \in Nat /\ Cardinality(Overdue(r)) \in Nat
          /\ IsFiniteSet(Overdue(r))
      BY OverdueFinite DEF SendsArePaid, OutboxTypeOK
    <2>2. CASE \A e \in AboutToLapse : held[e].row # r
      <3>1. \A e \in Dispatchers : held[e].row = r /\ held[e] # NoClaim => (StillHeld(e)' <=> StillHeld(e))
        BY <1>6, <2>2
      <3>2. Overdue(r)' = Overdue(r)
        BY <1>1, <3>1, HeldFields DEF Overdue, Stages
      <3>3. Delivered(r)' <=> Delivered(r)
        BY <1>1, <3>1 DEF Delivered, LiveClaim
      <3> QED
        BY <1>1, <1>2, <2>1, <3>2, <3>3
    <2>3. ASSUME NEW d \in AboutToLapse, held[d].row = r
          PROVE  sent'[r] + Cardinality(Overdue(r)') <= IF Delivered(r)' THEN faults' + 1 ELSE faults'
      <3>1. d \in Dispatchers /\ held[d] # NoClaim /\ LiveClaim(d, r) /\ row_status[r] = "claimed"
        BY <2>3 DEF AboutToLapse, LiveClaim, StillHeld
      <3>2. \A e \in Dispatchers : LiveClaim(e, r) => e = d
        BY <3>1, OneLiveClaim
      <3>3. \A e \in Dispatchers : e # d /\ held[e] # NoClaim /\ held[e].row = r =>
              ~StillHeld(e) /\ ~StillHeld(e)'
        BY <1>6, <3>2 DEF LiveClaim
      <3>4. ~StillHeld(d)'
        BY <1>6, <2>3, <3>1
      <3>5. ~Delivered(r)'
        BY <1>1, <3>1, <3>3, <3>4 DEF Delivered, LiveClaim
      <3>6. Cardinality(AboutToLapse) >= 1
        <4>1. AboutToLapse # {}
          BY <2>3
        <4> QED
          BY <1>2, <4>1, FS_EmptySet
      <3>7. sent'[r] = sent[r]
        BY <1>1
      <3>8. CASE held[d].stage = "publishing"
        <4>1. ~Delivered(r)
          BY <3>1, <3>2, <3>8 DEF Delivered
        <4>2. Overdue(r)' = Overdue(r) \cup {d}
          <5>1. \A e \in Dispatchers : e # d => (e \in Overdue(r)' <=> e \in Overdue(r))
            BY <1>1, <3>3, HeldFields DEF Overdue, Stages
          <5>2. d \in Overdue(r)'
            BY <1>1, <2>3, <3>1, <3>4, <3>8 DEF Overdue
          <5> QED
            BY <3>1, <5>1, <5>2 DEF Overdue
        <4>3. /\ Cardinality(Overdue(r) \cup {d}) <= Cardinality(Overdue(r)) + 1
              /\ Cardinality(Overdue(r) \cup {d}) \in Nat
          <5>1. /\ IsFiniteSet(Overdue(r) \cup {d})
                /\ Cardinality(Overdue(r) \cup {d}) =
                     IF d \in Overdue(r) THEN Cardinality(Overdue(r)) ELSE Cardinality(Overdue(r)) + 1
            BY <2>1, FS_AddElement
          <5> QED
            BY <2>1, <5>1
        <4> QED
          BY <1>1, <1>2, <2>1, <3>5, <3>6, <3>7, <4>1, <4>2, <4>3
      <3>9. CASE held[d].stage # "publishing"
        <4>1. Overdue(r)' = Overdue(r)
          BY <1>1, <3>1, <3>3, <3>9, HeldFields DEF Overdue, Stages
        <4> QED
          BY <1>1, <1>2, <2>1, <3>5, <3>6, <3>7, <4>1
      <3> QED
        BY <3>8, <3>9
    <2> QED
      BY <2>2, <2>3
  <1> QED
    BY <1>3, <1>4, <1>7 DEF SendsArePaid

\* Every step keeps the account.
LEMMA OutboxNextKeepsInv == OutboxInv /\ [OutboxNext]_outboxVars => OutboxInv'
  <1> SUFFICES ASSUME OutboxInv, [OutboxNext]_outboxVars PROVE OutboxInv'
    OBVIOUS
  <1>1. CASE UNCHANGED outboxVars
    BY <1>1 DEF outboxVars, rowVars, OutboxInv, OutboxTypeOK, ClaimsAreNumbered, SendsArePaid,
       Overdue, Delivered, LiveClaim, StillHeld
  <1> QED
    BY <1>1, AddRowKeepsInv, ClaimWakeupKeepsInv, PublishConfirmedKeepsInv, PublishFailsKeepsInv,
       SettleKeepsInv, DispatcherCrashKeepsInv, OutboxTickKeepsInv DEF OutboxNext, DispatcherStep

\* The account is balanced in every reachable state.
THEOREM OutboxInvariance == OutboxSpec => []OutboxInv
  BY OutboxInitInv, OutboxNextKeepsInv, PTL DEF OutboxSpec

\* A hint reaches the broker once, and once more at most for each fault: a
\* crash, a lost confirm, a refusal or a publish that outlasts its lease.
THEOREM RepeatsArePaid == OutboxSpec => []RepeatsCostFaults
  <1>1. OutboxInv => RepeatsCostFaults
    <2> SUFFICES ASSUME OutboxInv, NEW r \in Rows PROVE sent[r] <= 1 + faults
      BY DEF OutboxInv, RepeatsCostFaults
    <2>1. /\ sent[r] + Cardinality(Overdue(r)) <= IF Delivered(r) THEN faults + 1 ELSE faults
          /\ sent[r] \in Nat /\ faults \in Nat /\ Cardinality(Overdue(r)) \in Nat
      BY OverdueFinite, FaultsAssumption DEF OutboxInv, SendsArePaid, OutboxTypeOK
    <2> QED
      BY <2>1
  <1> QED
    BY <1>1, OutboxInvariance, PTL

-----------------------------------------------------------------------------
ClaimKept(r) ==
  row_status[r] = "claimed" /\ row_lease[r] > 0 /\ row_status'[r] # "claimed" =>
    \E d \in Dispatchers : /\ held[d].stage \in {"published", "refused"}
                           /\ held[d].row = r
                           /\ held[d].version = row_version[r]
                           /\ held'[d] = NoClaim

\* Only the settlement of the claim itself takes a row out of its live claim.
LEMMA ClaimKeptStep ==
  ASSUME OutboxInv, [OutboxNext]_outboxVars, NEW r \in Rows
  PROVE  ClaimKept(r)
  <1> SUFFICES ASSUME row_status[r] = "claimed", row_status'[r] # "claimed"
               PROVE  ClaimKept(r)
    BY DEF ClaimKept
  <1> USE DEF OutboxInv, OutboxTypeOK
  <1>1. ASSUME NEW d \in Dispatchers, Settle(d) PROVE ClaimKept(r)
    <2>1. StillHeld(d) /\ held[d].row = r
      BY <1>1 DEF Settle, rowVars
    <2>2. held[d].stage \in {"published", "refused"} /\ held'[d] = NoClaim
      BY <1>1 DEF Settle
    <2> QED
      BY <2>1, <2>2 DEF ClaimKept, StillHeld
  <1>2. CASE row_status' = row_status
    BY <1>2
  <1>3. ASSUME NEW r0 \in Rows, NEW wait \in 0..HintDelay, AddRow(r0, wait) PROVE FALSE
    BY <1>3 DEF AddRow
  <1>4. ASSUME NEW r0 \in Rows, NEW d \in Dispatchers, ClaimWakeup(d, r0) PROVE FALSE
    BY <1>4 DEF ClaimWakeup
  <1> QED
    BY <1>1, <1>2, <1>3, <1>4 DEF OutboxNext, DispatcherStep, PublishConfirmed, PublishFails,
       DispatcherCrash, OutboxTick, outboxVars, rowVars

\* While a claim lasts, its row is only settled by the process that made this
\* very claim, whatever ids the processes share and however late they settle.
THEOREM ClaimExclusive == OutboxSpec => LiveClaimIsExclusive
  <1>1. OutboxInv /\ [OutboxNext]_outboxVars => [\A r \in Rows : ClaimKept(r)]_outboxVars
    BY ClaimKeptStep
  <1>2. OutboxSpec => [][\A r \in Rows : ClaimKept(r)]_outboxVars
    BY <1>1, OutboxInvariance, PTL DEF OutboxSpec
  <1> QED
    BY <1>2 DEF LiveClaimIsExclusive, ClaimKept
==============================================================================
