---------------------------- MODULE MCScheduler ----------------------------
(* A small instance of Scheduler: two schedulers, a worker, two instants.  *)
EXTENDS Scheduler, TLC

CONSTANTS t1, t2, m1, Attempts

MCCronTask == <<t1, t2>>
MCMaxAttempts == [t \in Tasks |-> Attempts]

\* Manual runs happen on one kind of schedule, before it is edited.  On one
\* kind the clock of the web process may be off.
MCNext ==
  /\ SchedulerNext
  /\ edits' # edits /\ next_run' \notin {next_run, passed + 1} =>
       misfire = "catch_up_limited" /\ overlap = "forbid"
  /\ status'[m1] # "absent" => edits' = 0 /\ misfire = "fire_once"

MCSpec ==
  /\ SchedulerInit /\ [][MCNext]_schedulerVars
  /\ SchedulerFairness
=============================================================================
