------------------------------ MODULE WorkerLoop ------------------------------
(***************************************************************************)
(* The worker processes (worker/runner.py) on top of the task queue: each  *)
(* claims one task at a time, runs its handler while a concurrent loop     *)
(* sends heartbeats, and reports the outcome with the token of its claim.  *)
(* Every call a worker makes is the transaction of that name in TaskQueue. *)
(*                                                                         *)
(* Faults are a crash of the process, a database error at one of its calls *)
(* and a stall that delays a heartbeat.  They are counted, so that a       *)
(* property can say what holds as long as there is none.                   *)
(***************************************************************************)
EXTENDS TaskQueue, Faults

CONSTANTS
  LeaseSeconds,        \* lease asked for by claims and heartbeats
  HeartbeatInterval,
  NoWork

\* WorkerOptions.__post_init__ refuses any other configuration; there are as
\* many processes as were started.
ASSUME WorkerOptionsAssumption ==
  /\ IsFiniteSet(Workers)
  /\ LeaseSeconds \in 1..MaxLease
  /\ HeartbeatInterval \in 1..(LeaseSeconds - 1)

VARIABLES
  pc,        \* "loop": at the head of the loop, "waiting": for a hint or the
             \* poll interval, "running": in _execute, "down": no process
  work,      \* the claimed <<task, token>>
  handler,   \* "busy", or how the handler ended
  beat_left, \* time until the next heartbeat
  stopping   \* request_stop was called

loopVars == <<pc, work, handler, beat_left, stopping>>
allVars == <<vars, loopVars, faults>>

Outcomes == {"ok", "retryable", "fatal", "cancelled"}

LoopInit ==
  /\ Init
  /\ pc = [w \in Workers |-> "loop"]
  /\ work = [w \in Workers |-> NoWork]
  /\ handler = [w \in Workers |-> "none"]
  /\ beat_left = [w \in Workers |-> 0]
  /\ stopping = [w \in Workers |-> FALSE]
  /\ faults = 0

Task(w) == work[w][1]
Token(w) == work[w][2]

\* The process goes on at "next" without a task.
Leave(w, next) ==
  /\ pc' = [pc EXCEPT ![w] = next]
  /\ work' = [work EXCEPT ![w] = NoWork]
  /\ handler' = [handler EXCEPT ![w] = "none"]
  /\ beat_left' = [beat_left EXCEPT ![w] = 0]

NextBeat == HeartbeatInterval

-----------------------------------------------------------------------------
(* The loop.                                                               *)

Claim(w, recovered, claimed) ==
  /\ pc[w] = "loop" /\ ~stopping[w]
  /\ ClaimTask(w, recovered, claimed, LeaseSeconds)
  /\ IF claimed = {}
     THEN Leave(w, "waiting")
     ELSE \E t \in claimed :
            /\ pc' = [pc EXCEPT ![w] = "running"]
            /\ work' = [work EXCEPT ![w] = <<t, attempts[t] + 1>>]
            /\ handler' = [handler EXCEPT ![w] = "busy"]
            /\ beat_left' = [beat_left EXCEPT ![w] = NextBeat]
  /\ UNCHANGED <<stopping, faults>>

\* The claim raises: nothing was committed, or its answer was lost and a task
\* is leased that no process knows of.
ClaimFails(w) ==
  /\ pc[w] = "loop" /\ ~stopping[w]
  /\ \/ UNCHANGED vars
     \/ \E claimed \in AtMostOne(Claimable) : ClaimTask(w, Expired, claimed, LeaseSeconds)
  /\ Leave(w, "waiting")
  /\ Fault
  /\ UNCHANGED stopping

\* A hint, the end of the poll interval or a stop request ends the wait.
Wake(w) ==
  /\ pc[w] = "waiting"
  /\ Leave(w, "loop")
  /\ UNCHANGED <<vars, stopping, faults>>

Exit(w) ==
  /\ pc[w] = "loop" /\ stopping[w]
  /\ Leave(w, "down")
  /\ UNCHANGED <<vars, stopping, faults>>

-----------------------------------------------------------------------------
(* _execute.                                                               *)

\* The handler returns or raises.
HandlerEnds(w) ==
  /\ pc[w] = "running" /\ handler[w] = "busy"
  /\ \E o \in {"ok", "retryable", "fatal"} : handler' = [handler EXCEPT ![w] = o]
  /\ UNCHANGED <<vars, pc, work, beat_left, stopping, faults>>

\* Faulty variant: the answer of the heartbeat is not looked at.
ToldIgnored(w) == handler[w]
Told(w) == IF cancel_requested[Task(w)] THEN "cancelled" ELSE handler[w]

\* The heartbeat loop goes on until the outcome is recorded; it ends when it
\* learns of a cancellation, and _execute then cancels the handler.
Beat(w) ==
  /\ pc[w] = "running" /\ handler[w] # "cancelled" /\ beat_left[w] = 0
  /\ HeartbeatTask(w, Task(w), Token(w))
  /\ lease_left'[Task(w)] = LeaseSeconds
  /\ handler' = [handler EXCEPT ![w] = Told(w)]
  /\ beat_left' = [beat_left EXCEPT ![w] = NextBeat]
  /\ UNCHANGED <<pc, work, stopping, faults>>

\* A refused heartbeat: the worker leaves without recording anything.
BeatRefused(w) ==
  /\ pc[w] = "running" /\ handler[w] # "cancelled" /\ beat_left[w] = 0
  /\ ~ValidLease(Task(w), w, Token(w))
  /\ Leave(w, "loop")
  /\ UNCHANGED <<vars, stopping, faults>>

BeatFails(w) ==
  /\ pc[w] = "running" /\ handler[w] # "cancelled" /\ beat_left[w] = 0
  /\ Leave(w, "loop")
  /\ Fault
  /\ UNCHANGED <<vars, stopping>>

\* complete_task and fail_task are called at most once for each claim.
Record(w, retryable, complete) ==
  IF ~ValidLease(Task(w), w, Token(w)) THEN UNCHANGED vars
  ELSE IF complete THEN CompleteTask(w, Task(w), Token(w))
  ELSE FailTask(w, Task(w), Token(w), retryable)

\* The call is refused when the lease is gone, and the error is swallowed.
Report(w) ==
  /\ pc[w] = "running" /\ handler[w] \in Outcomes
  /\ Record(w, handler[w] = "retryable", handler[w] \in {"ok", "cancelled"})
  /\ Leave(w, "loop")
  /\ UNCHANGED <<stopping, faults>>

\* The call fails without being committed, and this error is swallowed too.
ReportFails(w) ==
  /\ pc[w] = "running" /\ handler[w] \in Outcomes
  /\ Leave(w, "loop")
  /\ Fault
  /\ UNCHANGED <<vars, stopping>>

\* Faulty variant: a stop waits for the handler however long it takes.
GraceUnlimited(w) ==
  /\ pc[w] = "running" /\ stopping[w] /\ handler[w] = "ok"
  /\ Record(w, TRUE, FALSE)
  /\ Leave(w, "loop")
  /\ UNCHANGED <<stopping, faults>>

\* The grace period of a stop ends before the handler does.
GraceOver(w) ==
  /\ pc[w] = "running" /\ stopping[w] /\ handler[w] = "busy"
  /\ Record(w, TRUE, FALSE)
  /\ Leave(w, "loop")
  /\ UNCHANGED <<stopping, faults>>

-----------------------------------------------------------------------------
(* The process and the clock.                                              *)

RequestStop(w) ==
  /\ pc[w] # "down" /\ ~stopping[w]
  /\ stopping' = [stopping EXCEPT ![w] = TRUE]
  /\ UNCHANGED <<vars, pc, work, handler, beat_left, faults>>

Crash(w) ==
  /\ pc[w] # "down"
  /\ Leave(w, "down")
  /\ Fault
  /\ UNCHANGED <<vars, stopping>>

Start(w) ==
  /\ pc[w] = "down"
  /\ Leave(w, "loop")
  /\ stopping' = [stopping EXCEPT ![w] = FALSE]
  /\ UNCHANGED <<vars, faults>>

\* The workers that time leaves behind: a heartbeat is due, or the
\* completion that ends a cancelled task.
Late == {w \in Workers : /\ pc[w] = "running"
                         /\ beat_left[w] = 0 \/ handler[w] = "cancelled"}

BeatSooner == [w \in Workers |-> IF beat_left[w] > 0 THEN beat_left[w] - 1 ELSE 0]

LoopTick ==
  /\ Tick
  /\ beat_left' = BeatSooner
  /\ faults' = faults + Cardinality(Late)
  /\ faults' <= MaxFaults
  /\ UNCHANGED <<pc, work, handler, stopping>>

-----------------------------------------------------------------------------
WorkerStep(w) ==
  \/ \E recovered \in SUBSET Expired, claimed \in AtMostOne(Claimable) :
       Claim(w, recovered, claimed)
  \/ ClaimFails(w) \/ Wake(w) \/ Exit(w)
  \/ HandlerEnds(w) \/ Beat(w) \/ BeatRefused(w) \/ BeatFails(w)
  \/ Report(w) \/ ReportFails(w) \/ GraceOver(w)
  \/ RequestStop(w) \/ Crash(w) \/ Start(w)

LoopNext ==
  \/ ClientStep /\ UNCHANGED <<loopVars, faults>>
  \/ \E w \in Workers : WorkerStep(w)
  \/ LoopTick

\* A claim that found no row locked by another transaction.
FullClaim(w) ==
  \E claimed \in AtMostOne(Claimable) :
    /\ Claimable # {} => claimed # {}
    /\ Claim(w, Expired, claimed)

\* Processes are scheduled and restarted, time passes, and a row is not found
\* locked by another transaction every time.  Handlers may run forever.
LoopFairness ==
  /\ WF_allVars(LoopTick)
  /\ \A w \in Workers :
       /\ SF_allVars(FullClaim(w))
       /\ WF_allVars(Wake(w) \/ Exit(w) \/ Start(w))
       /\ WF_allVars(Beat(w) \/ BeatRefused(w))
       /\ WF_allVars(Report(w) \/ GraceOver(w))

HandlersEnd == \A w \in Workers : WF_allVars(HandlerEnds(w))

LoopSpec == LoopInit /\ [][LoopNext]_allVars
LoopFairSpec == LoopSpec /\ LoopFairness

-----------------------------------------------------------------------------
(* Properties.                                                             *)

\* Type correctness of the worker processes.
LoopTypeOK ==
  /\ pc \in [Workers -> {"loop", "waiting", "running", "down"}]
  /\ work \in [Workers -> (Tasks \X Nat) \cup {NoWork}]
  /\ handler \in [Workers -> {"none", "busy"} \cup Outcomes]
  /\ beat_left \in [Workers -> 0..HeartbeatInterval]
  /\ stopping \in [Workers -> BOOLEAN]
  /\ faults \in 0..MaxFaults

Runners(t) == {w \in Workers : pc[w] = "running" /\ Task(w) = t}

\* Executions of one task only overlap because of faults, each of which lets
\* in at most one more: a stalled worker may still run its handler when the
\* task has been recovered and claimed again.
OverlapCostsFaults == \A t \in Tasks : Cardinality(Runners(t)) <= 1 + faults

\* As long as nothing fails, a running worker holds the valid lease of its
\* task, so that its report is not refused and no work is done twice.
HealthyRunHoldsLease ==
  faults = 0 =>
    \A w \in Workers : pc[w] = "running" => ValidLease(Task(w), w, Token(w))

\* Executions of a task exclude each other but for faults.
RunsAreExclusive == LoopTypeOK /\ OverlapCostsFaults /\ HealthyRunHoldsLease

\* Once faults stop, and if handlers end, every task comes to an end: by its
\* result, a failure, the end of its attempts or a cancellation, whichever
\* workers it was with.
EveryTaskSettles ==
  HandlersEnd =>
    \A t \in Tasks : status[t] # "absent" ~> status[t] \in Closed \cup {"failed"}

\* An accepted cancellation comes into effect although the handler might
\* never end: the worker learns of it by a heartbeat, or its report or the
\* recovery of its lease finds it.
CancellationTakesEffect ==
  \A t \in Tasks : cancel_requested[t] ~> status[t] = "cancelled"

\* Every task comes to its end, a cancelled one although its handler may not.
TasksComeToAnEnd == EveryTaskSettles /\ CancellationTakesEffect

\* A worker asked to stop does stop, whatever it was doing and although its
\* handler might never end.
StopEnds == \A w \in Workers : stopping[w] ~> pc[w] = "down"
=============================================================================
