-------------------------- MODULE TeachingAutomation --------------------------
(***************************************************************************)
(* InMemoryScheduler of app/automation over the queue of the lessons.  A   *)
(* tick calls the queue several times under the lock of the scheduler; the *)
(* queue never suspends, so a tick is one step.                            *)
(*                                                                         *)
(* One schedule is modelled.  Its due instants are numbered.               *)
(***************************************************************************)
EXTENDS TeachingQueue, TeachingDevices

CONSTANTS
  LastInstant,
  InstantJob,      \* the task of each instant; the others are for clients
  CatchUp,         \* catch_up_limit
  MaxDue           \* max_due_occurrences

ASSUME TeachingScheduleAssumption ==
  /\ LastInstant \in Nat
  /\ InstantJob \in [1..LastInstant -> Jobs]
  /\ \A i, j \in 1..LastInstant : InstantJob[i] = InstantJob[j] => i = j
  /\ CatchUp \in 1..100 /\ MaxDue \in Nat \ {0}

VARIABLES
  rule,         \* the schedule: [enabled, next, misfire, overlap]
  job_fires,    \* what is recorded of each instant
  instant       \* the last instant that has passed

lessonVars == <<jobs, rule, job_fires, instant>>

DueInstants == 1..LastInstant
FreeJobs == Jobs \ {InstantJob[i] : i \in DueInstants}

LessonsInit ==
  /\ JobsInit
  /\ rule \in [enabled : BOOLEAN, next : {1},
               misfire : {"skip", "fire_once", "catch_up_limited"},
               overlap : {"forbid", "allow", "replace"}]
  /\ job_fires = [i \in DueInstants |-> "none"]
  /\ instant = 0

\* _apply_misfire_policy: the instants to fire.  Under "skip" the grace time
\* reaches back to any of them.
SelectedInstants ==
  CASE rule.misfire = "fire_once" -> {{instant}}
    [] rule.misfire = "catch_up_limited" -> {{i \in rule.next..instant : i > instant - CatchUp}}
    [] rule.misfire = "skip" -> {i..instant : i \in rule.next..(instant + 1)}

NotFired(S) == {i \in S : job_fires[i] = "none"}
FirstOf(S) == {i \in S : \A j \in S : i <= j}
LastOf(S) == {i \in S : \A j \in S : j <= i}

ScheduledUnfinished == {t \in Unfinished : jobs[t].scheduled}

\* Under "forbid" an unfinished task of the schedule is in the way, and the
\* first that is enqueued is in the way of the others.
Firing(selected) ==
  IF rule.overlap # "forbid" THEN NotFired(selected)
  ELSE IF ScheduledUnfinished = {} THEN FirstOf(NotFired(selected))
  ELSE {}

\* Under "replace" each task asks the ones before it to stop.
AfterFiring(firing) ==
  LET new == {InstantJob[i] : i \in firing}
      kept == {InstantJob[i] : i \in LastOf(firing)}
      replaced == IF rule.overlap = "replace" /\ firing # {}
                  THEN (ScheduledUnfinished \cup new) \ kept ELSE {}
      enqueued == [t \in Jobs |-> IF t \in new THEN NewJob(FALSE, TRUE, 0) ELSE jobs[t]] IN
  [t \in Jobs |-> IF t \in replaced THEN CancelledJob(enqueued[t]) ELSE enqueued[t]]

\* tick.  With more due instants than the bound it raises and nothing changes.
Tick ==
  /\ rule.enabled /\ rule.next <= instant
  /\ instant - rule.next + 1 <= MaxDue
  /\ \E selected \in SelectedInstants :
       /\ jobs' = AfterFiring(Firing(selected))
       /\ job_fires' = [i \in DueInstants |->
            IF i \notin NotFired(rule.next..instant) THEN job_fires[i]
            ELSE IF i \notin selected THEN "skipped_misfire"
            ELSE IF i \in Firing(selected) THEN "enqueued" ELSE "skipped_overlap"]
  /\ rule' = [rule EXCEPT !.next = instant + 1]
  /\ UNCHANGED instant

\* A schedule that is enabled late goes on with the next instant.
SetEnabled(enabled) ==
  /\ rule' = [rule EXCEPT !.enabled = enabled,
                          !.next = IF enabled /\ @ <= instant THEN instant + 1 ELSE @]
  /\ UNCHANGED <<jobs, job_fires, instant>>

\* run_now looks at no policy.
RunJobNow(t) ==
  /\ t \in FreeJobs /\ jobs[t].status = "absent"
  /\ jobs' = [jobs EXCEPT ![t] = NewJob(FALSE, TRUE, 0)]
  /\ UNCHANGED <<rule, job_fires, instant>>

LessonTimePasses ==
  /\ JobTimePasses
  /\ instant' \in {instant, instant + 1} /\ instant' <= LastInstant
  /\ UNCHANGED <<rule, job_fires>>

LessonsNext ==
  \/ JobStep /\ UNCHANGED <<rule, job_fires, instant>>
  \/ /\ \E t \in FreeJobs, keyed \in BOOLEAN, delay \in 0..1 : EnqueueJob(t, keyed, delay)
     /\ UNCHANGED <<rule, job_fires, instant>>
  \/ Tick
  \/ \E enabled \in BOOLEAN : SetEnabled(enabled)
  \/ \E t \in FreeJobs : RunJobNow(t)
  \/ LessonTimePasses

LessonsSpec == LessonsInit /\ [][LessonsNext]_lessonVars

-----------------------------------------------------------------------------
(* Properties.                                                             *)

\* InMemoryScheduler.tick: under "forbid" two instants never have unfinished tasks, and under
\* "replace" never two that were not asked to stop; a task is there for
\* exactly the instants that were enqueued.
InstantsKeepTheirPolicy ==
  LET wanted == {i \in DueInstants :
                   InstantJob[i] \in Unfinished /\ (rule.overlap = "replace" => ~jobs[InstantJob[i]].cancel)} IN
  /\ rule.overlap # "allow" => Cardinality(wanted) <= 1
  /\ \A i \in DueInstants : job_fires[i] = "enqueued" <=> jobs[InstantJob[i]].status # "absent"

\* The adapters of the lessons promise what the persistent ones do: a task is
\* worked on under one lease at a time and settled by its holder in time, a
\* schedule keeps its overlap policy, and a device is with the task it names.
LessonsKeepTheirPromise ==
  /\ \A t \in Jobs : TeachingJob(t)!Init
  /\ [][\A t \in Jobs : [TeachingJob(t)!Next]_(TeachingJob(t)!jobVars)]_lessonVars
  /\ [](InstantsKeepTheirPolicy /\ DevicesFollowLeases)
=============================================================================
