------------------------------- MODULE Scheduler -------------------------------
(***************************************************************************)
(* A schedule (table schedules with its schedule_fires) and the scheduler  *)
(* processes that turn its due instants into tasks of the queue:           *)
(* _claim_due_schedule, _cron_due_plan and _finalize_schedule_claim of     *)
(* PersistentRuntimeService, and the edits of administrators.              *)
(*                                                                         *)
(* A scheduler leases the row in one transaction (T1), plans outside of    *)
(* any, and then runs T2: a compare-and-set locks the row until T2         *)
(* commits, and the active tasks of the schedule are read, without a lock  *)
(* on them, before they are written.  So T2 is two steps here, and other   *)
(* transactions on tasks may commit in between.                            *)
(*                                                                         *)
(* Schedules do not interact: one is modelled.  The instants of its cron   *)
(* rule are numbered; instant i is a due time once i <= passed, on the     *)
(* database clock.  A claim token is named by the number of the claim.     *)
(***************************************************************************)
EXTENDS TaskQueue

CONSTANTS
  Schedulers,     \* scheduler processes, each with its own scheduler_id
  MaxInstants,    \* bound on the instants that pass
  CronTask,       \* the task an instant enqueues; the others are manual runs
  Misfires,       \* misfire policies an administrator may choose
  Overlaps,       \* overlap policies an administrator may choose
  CatchUpLimit,
  ClaimLease,     \* lease_seconds of a claim
  MaxSkew,        \* how far the clock of the web process may be off
  MaxEdits,       \* bound on the edits of the schedule
  MaxFaults,      \* bound on the number of faults
  NoScheduler

Instants == 1..MaxInstants

ASSUME ScheduleConstantsAssumption ==
  /\ MaxInstants \in Nat \ {0}
  /\ CronTask \in [Instants -> Tasks]
  /\ \A i, j \in Instants : CronTask[i] = CronTask[j] => i = j
  /\ Misfires \subseteq {"skip", "fire_once", "catch_up_limited"} /\ Misfires # {}
  /\ Overlaps \subseteq {"forbid", "allow", "replace"} /\ Overlaps # {}
  /\ CatchUpLimit \in 1..100
  /\ ClaimLease \in Nat \ {0}
  /\ MaxSkew \in Nat /\ MaxEdits \in Nat /\ MaxFaults \in Nat
  /\ IsFiniteSet(Schedulers) /\ NoScheduler \notin Schedulers

VARIABLES
  schedule,    \* "enabled", "disabled" or "deleted"
  misfire, overlap,
  next_run,    \* the instant of next_run_at
  version,
  claim_owner, claim_no, claim_left,
  fires,       \* the fire recorded for each instant
  passed,      \* the instants that have passed on the database clock
  plan,        \* what each scheduler is busy with
  edits,       \* history: number of edits
  retried,     \* history: tasks brought back by hand
  s_faults     \* history: number of faults

claimVars == <<claim_owner, claim_no, claim_left>>
ruleVars == <<schedule, misfire, overlap, next_run, version>>
scheduleVars == <<ruleVars, claimVars, fires, passed, plan, edits, retried, s_faults>>
schedulerVars == <<vars, scheduleVars>>

NoPlan == [stage |-> "none"]
Plans ==
  [stage : {"planned", "locked"}, no : Nat, version : Nat, first : Nat, next : Nat,
   overlap : Overlaps, selected : SUBSET Instants, skipped : SUBSET Instants,
   waiting : SUBSET Tasks, running : SUBSET Tasks] \cup {NoPlan}
FireStates == {"none", "skipped_misfire", "skipped_overlap", "enqueued"}
ManualTasks == Tasks \ {CronTask[i] : i \in Instants}
Active == {t \in Tasks : status[t] \in Waiting \cup {"running"}}

SchedulerInit ==
  /\ Init
  /\ schedule = "enabled"
  /\ misfire \in Misfires /\ overlap \in Overlaps
  /\ next_run = 1
  /\ version = 0
  /\ claim_owner = NoScheduler /\ claim_no = 0 /\ claim_left = 0
  /\ fires = [i \in Instants |-> "none"]
  /\ passed = 0
  /\ plan = [s \in Schedulers |-> NoPlan]
  /\ edits = 0 /\ retried = {} /\ s_faults = 0

\* The row is locked by a T2 that has not committed.
Locked == \E s \in Schedulers : plan[s].stage = "locked"

ScheduleFault == s_faults < MaxFaults /\ s_faults' = s_faults + 1

-----------------------------------------------------------------------------
(* Schedulers.                                                             *)

\* Faulty variant: instants older than the grace window leave no record.
SelectedOnly(policy, first, now) ==
  CASE policy = "fire_once" -> {<<{now}, {}>>}
    [] policy = "catch_up_limited" ->
         {<<{i \in first..now : i > now - CatchUpLimit}, {}>>}
    [] policy = "skip" -> {<<g..now, {}>> : g \in first..(now + 1)}

\* _cron_due_plan at "now": the instants to fire, those to record as missed,
\* and the instant to go on with.  The grace window of "skip" is a stretch of
\* time, so it begins between any two instants.
SelectedAndSkipped(policy, first, now) ==
  CASE policy = "fire_once" -> {<<{now}, {}>>}
    [] policy = "catch_up_limited" ->
         {<<{i \in first..now : i > now - CatchUpLimit}, {}>>}
    [] policy = "skip" ->
         {<<g..now, {g - 1} \cap first..now>> : g \in first..(now + 1)}

\* Faulty variant: a claim whose scheduler died is never taken over.
ClaimFreeUnclaimed == claim_owner = NoScheduler
ClaimFree == claim_owner = NoScheduler \/ claim_left = 0

\* T1.  SKIP LOCKED passes over the row while a T2 holds it.
ClaimSchedule(s) ==
  /\ plan[s] = NoPlan
  /\ ~Locked
  /\ schedule = "enabled" /\ next_run <= passed /\ ClaimFree
  /\ claim_owner' = s
  /\ claim_no' = claim_no + 1
  /\ claim_left' = ClaimLease
  /\ \E found \in SelectedAndSkipped(misfire, next_run, passed) :
       plan' = [plan EXCEPT ![s] =
         [stage |-> "planned", no |-> claim_no + 1, version |-> version,
          first |-> next_run, next |-> passed + 1, overlap |-> overlap,
          selected |-> found[1], skipped |-> found[2], waiting |-> {}, running |-> {}]]
  /\ UNCHANGED <<vars, ruleVars, fires, passed, edits, retried, s_faults>>

PlanHolds(s) ==
  /\ schedule = "enabled"
  /\ version = plan[s].version
  /\ next_run = plan[s].first
  /\ claim_owner = s /\ claim_no = plan[s].no
  /\ claim_left > 0

\* T2 begins: the compare-and-set succeeds, and the active tasks are read.
BeginFinalize(s) ==
  /\ plan[s].stage = "planned" /\ ~Locked
  /\ PlanHolds(s)
  /\ plan' = [plan EXCEPT ![s].stage = "locked",
                          ![s].waiting = {t \in Active : status[t] # "running"},
                          ![s].running = {t \in Active : status[t] = "running"}]
  /\ UNCHANGED <<vars, ruleVars, claimVars, fires, passed, edits, retried, s_faults>>

\* The claim is given back if it is still this one.
Release(s) ==
  IF claim_owner = s /\ claim_no = plan[s].no
  THEN claim_owner' = NoScheduler /\ claim_left' = 0 /\ UNCHANGED claim_no
  ELSE UNCHANGED claimVars

FinalizeRefused(s) ==
  /\ plan[s].stage = "planned" /\ ~Locked
  /\ ~PlanHolds(s)
  /\ Release(s)
  /\ plan' = [plan EXCEPT ![s] = NoPlan]
  /\ UNCHANGED <<vars, ruleVars, fires, passed, edits, retried, s_faults>>

Unfired(S) == {i \in S : fires[i] = "none"}

Earliest(S) == {i \in S : \A j \in S : i <= j}
Latest(S) == {i \in S : \A j \in S : j <= i}

\* Faulty variant: only the tasks found active count, not the ones of this plan.
EnqueuedByForbidAtOnce(s) ==
  IF plan[s].waiting \cup plan[s].running # {} THEN {} ELSE Unfired(plan[s].selected)

\* The instants that enqueue their task.  Under "forbid" the first task that
\* is enqueued stands in the way of the others.
EnqueuedByForbid(s) ==
  IF plan[s].waiting \cup plan[s].running # {} THEN {}
  ELSE Earliest(Unfired(plan[s].selected))
Enqueued(s) ==
  IF plan[s].overlap = "forbid" THEN EnqueuedByForbid(s) ELSE Unfired(plan[s].selected)

\* T2 commits.  Under "replace" every task found active is asked to stop, and
\* those found waiting are cancelled, whatever they have become since; so are
\* the tasks of this plan but the last.
CommitFinalize(s) ==
  LET p == plan[s]
      new == {CronTask[i] : i \in Enqueued(s)}
      kept == {CronTask[i] : i \in Latest(Enqueued(s))}
      replacing == p.overlap = "replace" /\ Enqueued(s) # {}
      stopped == IF replacing THEN (p.waiting \cup p.running \cup new) \ kept ELSE {}
      ended == stopped \ p.running
  IN
  /\ p.stage = "locked"
  /\ fires' = [i \in Instants |->
       IF i \in Unfired(p.skipped) THEN "skipped_misfire"
       ELSE IF i \in Enqueued(s) THEN "enqueued"
       ELSE IF i \in Unfired(p.selected) THEN "skipped_overlap"
       ELSE fires[i]]
  /\ status' = [t \in Tasks |-> IF t \in ended THEN "cancelled"
                                ELSE IF t \in new THEN "queued" ELSE status[t]]
  /\ cancel_requested' = [t \in Tasks |-> t \in stopped \/ cancel_requested[t]]
  /\ Insertable(new) /\ Insert(new)
  /\ next_run' = p.next
  /\ version' = version + 1
  /\ claim_owner' = NoScheduler /\ claim_left' = 0
  /\ plan' = [plan EXCEPT ![s] = NoPlan]
  /\ UNCHANGED <<attempts, wait_left, leaseVars, result, grants, settled, schedule,
                 misfire, overlap, claim_no, passed, edits, retried, s_faults>>

\* The process dies, or a database error rolls T2 back: the claim is left.
SchedulerCrash(s) ==
  /\ plan[s] # NoPlan
  /\ plan' = [plan EXCEPT ![s] = NoPlan]
  /\ ScheduleFault
  /\ UNCHANGED <<vars, ruleVars, claimVars, fires, passed, edits, retried>>

\* Planning raises, for instance because the process is asked to stop.
PlanningFails(s) ==
  /\ plan[s].stage = "planned" /\ ~Locked
  /\ Release(s)
  /\ plan' = [plan EXCEPT ![s] = NoPlan]
  /\ ScheduleFault
  /\ UNCHANGED <<vars, ruleVars, fires, passed, edits, retried>>

-----------------------------------------------------------------------------
(* Administrators.  Their transactions wait while a T2 holds the row.      *)

\* The next instant is computed anew, on the clock of the web process, when
\* the rule changed, the schedule is enabled again, or it is overdue: an
\* overdue instant is dropped by any edit.
UpdateSchedule(new_schedule, new_misfire, new_overlap, rule_changed, app_now) ==
  LET again == new_schedule = "enabled" /\ schedule = "disabled"
      overdue == new_schedule = "enabled" /\ next_run <= app_now IN
  /\ schedule # "deleted" /\ ~Locked
  /\ edits < MaxEdits /\ edits' = edits + 1
  /\ schedule' = new_schedule
  /\ misfire' = new_misfire
  /\ overlap' = new_overlap
  /\ next_run' = IF rule_changed \/ again \/ overdue THEN app_now + 1 ELSE next_run
  /\ version' = version + 1
  /\ claim_owner' = NoScheduler /\ claim_left' = 0
  /\ UNCHANGED <<vars, claim_no, fires, passed, plan, retried, s_faults>>

\* A schedule that ever fired is kept for its history.
DeleteSchedule ==
  /\ schedule # "deleted" /\ ~Locked
  /\ \A i \in Instants : fires[i] = "none"
  /\ \A t \in ManualTasks : status[t] = "absent"
  /\ edits < MaxEdits /\ edits' = edits + 1
  /\ schedule' = "deleted"
  /\ UNCHANGED <<vars, misfire, overlap, next_run, version, claimVars, fires, passed,
                 plan, retried, s_faults>>

\* A manual run enqueues a task of its own and heeds no overlap policy.
RunNow(t) ==
  /\ schedule # "deleted" /\ ~Locked
  /\ t \in ManualTasks
  /\ Enqueue(t)
  /\ UNCHANGED scheduleVars

-----------------------------------------------------------------------------
\* The claims about to lapse under a scheduler that still plans.
ClaimsAboutToLapse ==
  {s \in Schedulers : plan[s].stage = "planned" /\ PlanHolds(s) /\ claim_left = 1}

ClaimSooner == IF claim_left > 0 THEN claim_left - 1 ELSE 0

\* A claim outlived by its plan is a fault as well.
SchedulerTick ==
  /\ Tick
  /\ claim_left' = ClaimSooner
  /\ passed' \in {passed, passed + 1} /\ passed' <= MaxInstants
  /\ s_faults' = s_faults + Cardinality(ClaimsAboutToLapse)
  /\ s_faults' <= MaxFaults
  /\ UNCHANGED <<ruleVars, claim_owner, claim_no, fires, plan, edits, retried>>

\* What clients and workers do to the tasks.
TaskStep ==
  /\ \/ \E t \in Tasks : CancelTask(t) \/ RetryTask(t) \/ DeadLetterTask(t)
     \/ ClaimStep \/ GrantStep
  /\ retried' = retried \cup {t \in Tasks : status[t] = "failed" /\ status'[t] = "retry_wait"}
  /\ UNCHANGED <<ruleVars, claimVars, fires, passed, plan, edits, s_faults>>

AdministratorStep ==
  \/ \E new_schedule \in {"enabled", "disabled"}, new_misfire \in Misfires,
        new_overlap \in Overlaps, rule_changed \in BOOLEAN :
       \E app_now \in {n \in 0..MaxInstants : n - passed \in (-MaxSkew)..MaxSkew} :
         UpdateSchedule(new_schedule, new_misfire, new_overlap, rule_changed, app_now)
  \/ DeleteSchedule
  \/ \E t \in ManualTasks : RunNow(t)

SchedulerStep(s) ==
  ClaimSchedule(s) \/ BeginFinalize(s) \/ FinalizeRefused(s) \/ CommitFinalize(s)

SchedulerNext ==
  \/ TaskStep
  \/ AdministratorStep
  \/ \E s \in Schedulers : SchedulerStep(s) \/ SchedulerCrash(s) \/ PlanningFails(s)
  \/ SchedulerTick

SchedulerSpec == SchedulerInit /\ [][SchedulerNext]_schedulerVars

\* Every scheduler polls again and again, and time passes.
SchedulerFairness ==
  /\ \A s \in Schedulers : WF_schedulerVars(SchedulerStep(s))
  /\ WF_schedulerVars(SchedulerTick)
SchedulerFairSpec == SchedulerSpec /\ SchedulerFairness

\* Workers keep claiming as well, and do not pass over a task for ever.
TaskIsClaimed(t) == status[t] \in Waiting /\ TaskStep /\ status'[t] = "running"
SchedulerAndWorkersFairSpec ==
  SchedulerFairSpec /\ \A t \in Tasks : SF_schedulerVars(TaskIsClaimed(t))

-----------------------------------------------------------------------------
(* Properties.                                                             *)

\* Type correctness of the schedule and of what the schedulers hold.
SchedulerTypeOK ==
  /\ schedule \in {"enabled", "disabled", "deleted"}
  /\ misfire \in Misfires /\ overlap \in Overlaps
  /\ next_run \in 1..(MaxInstants + 1)
  /\ version \in Nat /\ claim_no \in Nat /\ claim_left \in 0..ClaimLease
  /\ claim_owner \in Schedulers \cup {NoScheduler}
  /\ fires \in [Instants -> FireStates]
  /\ passed \in 0..MaxInstants
  /\ plan \in [Schedulers -> Plans]
  /\ edits \in 0..MaxEdits /\ retried \subseteq Tasks /\ s_faults \in 0..MaxFaults

\* What became of an instant is decided once: neither two schedulers, nor a
\* claim that lapsed, nor an edit that takes the schedule back in time makes it
\* fire again.  And a backlog leaves a trace: when a scheduler moves the schedule
\* on, the last instant it leaves behind has a fire, and under catch_up_limited
\* the last ones up to the limit have.
EveryInstantHasOneFate ==
  [][/\ \A i \in Instants : fires[i] # "none" => fires'[i] = fires[i]
     /\ next_run' > next_run /\ edits' = edits =>
          LET kept == IF misfire = "catch_up_limited" THEN CatchUpLimit ELSE 1 IN
          \A i \in next_run..(next_run' - 1) :
            i >= next_run' - kept => fires'[i] # "none"]_schedulerVars

\* Under "forbid" the schedule never has two unfinished tasks by its instants,
\* unless one was brought back by hand.  Stated for as long as nobody has edited
\* the schedule.
ForbidNeverOverlaps ==
  /\ SchedulerTypeOK
  /\ edits = 0 /\ overlap = "forbid" =>
       \A i, j \in Instants :
         LET t == CronTask[i]
             u == CronTask[j] IN
         i # j /\ t \in Active /\ u \in Active => t \in retried \/ u \in retried

\* No instant stays due for ever: once faults stop some scheduler fires it or
\* records that it was missed.
DueInstantsAreHandled ==
  \A i \in Instants :
    schedule = "enabled" /\ next_run = i /\ i <= passed
      ~> schedule # "enabled" \/ next_run # i

\* docs/PHASE2_LEARNING_GUIDE.md:210: a retry is taken up after a bounded
\* delay and at last ends in the dead letter state.
RetriesAreTakenUp ==
  \A t \in Tasks : status[t] = "retry_wait" ~> status[t] # "retry_wait"
=============================================================================
