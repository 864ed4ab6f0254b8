---------------------------- MODULE PipelineRuns ----------------------------
(***************************************************************************)
(* The local pipeline simulator: runs that are trees of stages and jobs,   *)
(* the executor task of each run, provider callbacks, cancellation, and    *)
(* the checkpoint after every change.                                      *)
(*                                                                         *)
(* One lock serialises the operations, so that each is one action together *)
(* with its checkpoint; the executor takes the lock anew for every step.   *)
(* A checkpoint may fail, also after the database has committed it, and    *)
(* the reload that follows a failed checkpoint may fail as well.  A        *)
(* trigger key belongs to the run of its request, and a run keeps the      *)
(* callbacks it has applied by event id, so that both idempotency tables   *)
(* are fields of the runs here.                                            *)
(***************************************************************************)
EXTENDS Naturals, Sequences, FiniteSets, Faults

CONSTANTS
  Runs,
  EventIds,
  PipelineRequests    \* [key, auto, stages]: stages is a sequence of sequences
                      \* of BOOLEAN, whether each job should fail

ASSUME PipelineAssumption ==
  \A q \in PipelineRequests :
    /\ q.auto \in BOOLEAN
    /\ q.stages \in Seq(Seq(BOOLEAN) \ {<<>>}) \ {<<>>}

VARIABLES
  memory,        \* what the service holds of each run
  stored,        \* the snapshot tables
  last_saved,    \* _durable_state, used when a reload fails
  initialized, closed,
  resetting,     \* reset has stopped the tasks and not yet cleared the state
  executor,      \* the position of each run's task
  told           \* history: the latest status a client was told

pipelineVars ==
  <<memory, stored, last_saved, initialized, closed, resetting, executor, told, faults>>

Absent == [status |-> "absent"]
Ended == {"succeeded", "failed", "cancelled"}
RunStatuses == {"queued", "running"} \cup Ended
NoEvent == [target |-> "none"]

StageIds == UNION {DOMAIN q.stages : q \in PipelineRequests}
JobIds == UNION {UNION {DOMAIN q.stages[i] : i \in DOMAIN q.stages} : q \in PipelineRequests}
RunCallbacks ==
  [target : {"pipeline"}, status : RunStatuses]
  \cup [target : {"stage"}, stage : StageIds, status : RunStatuses]
  \cup [target : {"job"}, stage : StageIds, job : JobIds, status : RunStatuses]

At(step, i, j) == [step |-> step, stage |-> i, job |-> j]
NoTask == At("none", 0, 0)
Done == At("done", 0, 0)

NewRun(q) ==
  [status |-> "queued", request |-> q, events |-> [e \in EventIds |-> NoEvent],
   stages |-> [i \in DOMAIN q.stages |->
                 [status |-> "queued", jobs |-> [j \in DOMAIN q.stages[i] |-> "queued"]]]]

PipelineInit ==
  /\ memory = [r \in Runs |-> Absent]
  /\ stored = [r \in Runs |-> Absent]
  /\ last_saved = [r \in Runs |-> Absent]
  /\ initialized = FALSE
  /\ closed = FALSE
  /\ resetting = FALSE
  /\ executor = [r \in Runs |-> NoTask]
  /\ told = [r \in Runs |-> "nothing"]
  /\ faults = 0

-----------------------------------------------------------------------------
(* The tree of a run.                                                      *)

\* _start and _finish raise an error in every other case; the change made up
\* to then would stay in memory, which "illegal" stands for.
Started(status) == IF status \in {"queued", "running"} THEN "running" ELSE "illegal"
Finished(status, new) ==
  IF status \in {"queued", "running", new} THEN new ELSE "illegal"

StartRun(run) == [run EXCEPT !.status = Started(run.status)]
StartStage(run, i) == [run EXCEPT !.stages[i].status = Started(run.stages[i].status)]
StartJob(run, i, j) == [run EXCEPT !.stages[i].jobs[j] = Started(run.stages[i].jobs[j])]
FinishStage(run, i, new) ==
  [run EXCEPT !.stages[i].status = Finished(run.stages[i].status, new)]
FinishJob(run, i, j, new) ==
  [run EXCEPT !.stages[i].jobs[j] = Finished(run.stages[i].jobs[j], new)]

CancelJobs(stage) ==
  [stage EXCEPT !.jobs =
     [j \in DOMAIN stage.jobs |-> IF stage.jobs[j] \in Ended THEN stage.jobs[j] ELSE "cancelled"]]
CancelStage(stage) ==
  [CancelJobs(stage) EXCEPT !.status = IF stage.status \in Ended THEN stage.status ELSE "cancelled"]
CancelChildren(run) ==
  [run EXCEPT !.stages = [i \in DOMAIN run.stages |-> CancelStage(run.stages[i])]]

\* The run ends and takes what is unfinished with it.
EndRun(run, new) == CancelChildren([run EXCEPT !.status = Finished(run.status, new)])

JobsSucceeded(run, i) == \A j \in DOMAIN run.stages[i].jobs : run.stages[i].jobs[j] = "succeeded"
StagesSucceeded(run) == \A i \in DOMAIN run.stages : run.stages[i].status = "succeeded"

AggregateStage(run, i) == IF JobsSucceeded(run, i) THEN FinishStage(run, i, "succeeded") ELSE run
AggregateRun(run) ==
  IF StagesSucceeded(run) THEN [run EXCEPT !.status = Finished(run.status, "succeeded")] ELSE run
Aggregate(run, i) == AggregateRun(AggregateStage(run, i))

\* Faulty variant: the failing job leaves its siblings as they are.
EndFromStageAlone(run, i, new) ==
  [FinishStage(run, i, new) EXCEPT !.status = Finished(run.status, new)]

\* _fail_job, and the cancellation of a job or a stage by a callback.
EndFromStage(run, i, new) ==
  LET ended == FinishStage(run, i, new) IN EndRun([ended EXCEPT !.stages[i] = CancelJobs(@)], new)
EndFromJob(run, i, j, new) == EndFromStage(FinishJob(run, i, j, new), i, new)

-----------------------------------------------------------------------------
(* Callbacks.                                                              *)

NamesATarget(run, c) ==
  /\ c.target # "pipeline" => c.stage \in DOMAIN run.stages
  /\ c.target = "job" => c.job \in DOMAIN run.stages[c.stage].jobs

TargetStatus(run, c) ==
  CASE c.target = "pipeline" -> run.status
    [] c.target = "stage" -> run.stages[c.stage].status
    [] c.target = "job" -> run.stages[c.stage].jobs[c.job]

TransitionAllowed(old, new) ==
  \/ old = new
  \/ old = "queued"
  \/ old = "running" /\ new \in Ended

CallbackAccepted(run, c) ==
  /\ NamesATarget(run, c)
  /\ c.target # "pipeline" => run.status \notin Ended
  /\ c.target = "job" => run.stages[c.stage].status \notin Ended
  /\ TransitionAllowed(TargetStatus(run, c), c.status)
  /\ c.status = "succeeded" =>
       CASE c.target = "pipeline" -> StagesSucceeded(run)
         [] c.target = "stage" -> JobsSucceeded(run, c.stage)
         [] c.target = "job" -> TRUE

AfterPipelineCallback(run, c) ==
  CASE c.status = "queued" -> run
    [] c.status = "running" -> StartRun(run)
    [] c.status = "succeeded" -> [run EXCEPT !.status = Finished(run.status, "succeeded")]
    [] c.status \in {"failed", "cancelled"} -> EndRun(run, c.status)

AfterStageCallback(run, c) ==
  LET i == c.stage
  IN CASE c.status = "queued" -> run
       [] c.status = "running" -> StartStage(StartRun(run), i)
       [] c.status = "succeeded" -> Aggregate(FinishStage(StartRun(run), i, "succeeded"), i)
       [] c.status = "failed" -> EndFromStage(StartRun(run), i, "failed")
       [] c.status = "cancelled" -> EndFromStage(run, i, "cancelled")

AfterJobCallback(run, c) ==
  LET i == c.stage
      started == StartStage(StartRun(run), i)
  IN CASE c.status = "queued" -> run
       [] c.status = "running" -> StartJob(started, i, c.job)
       [] c.status = "succeeded" -> Aggregate(FinishJob(started, i, c.job, "succeeded"), i)
       [] c.status = "failed" -> EndFromJob(started, i, c.job, "failed")
       [] c.status = "cancelled" -> EndFromJob(run, i, c.job, "cancelled")

AfterCallback(run, c) ==
  CASE c.target = "pipeline" -> AfterPipelineCallback(run, c)
    [] c.target = "stage" -> AfterStageCallback(run, c)
    [] c.target = "job" -> AfterJobCallback(run, c)

-----------------------------------------------------------------------------
(* Checkpoints.                                                            *)

Saved(new) ==
  /\ memory' = new
  /\ stored' = new
  /\ last_saved' = new
  /\ UNCHANGED faults

\* Faulty variant: memory is not reconciled after a failed save.
SaveFailsUnreconciled(new) ==
  /\ faults < MaxFaults
  /\ memory' = new
  /\ faults' = faults + 1
  /\ UNCHANGED <<stored, last_saved>>

\* The save raises, with or without having committed.  What is stored is
\* loaded again; if that fails too, last_saved serves.
SaveFails(new) ==
  /\ stored' \in {stored, new}
  /\ \/ /\ faults < MaxFaults
        /\ memory' = stored'
        /\ faults' = faults + 1
     \/ /\ faults + 1 < MaxFaults
        /\ memory' = last_saved
        /\ faults' = faults + 2
  /\ UNCHANGED last_saved

\* What a successful answer tells a client of run r.
Tells(r, run) == told' = [told EXCEPT ![r] = IF run.status \in Ended THEN run.status ELSE "active"]

\* A client's operation that turns run r into run: answered only if the save
\* succeeds.
Commits(r, run) ==
  LET new == [memory EXCEPT ![r] = run]
  IN \/ Saved(new) /\ Tells(r, run)
     \/ SaveFails(new) /\ UNCHANGED told

-----------------------------------------------------------------------------
(* The operations.                                                         *)

Interrupted(m) ==
  [r \in Runs |-> IF m[r].status \in {"queued", "running"} THEN EndRun(m[r], "cancelled") ELSE m[r]]

\* _initialize_locked: what was active when the process stopped cannot be
\* resumed.
Initialize ==
  /\ ~initialized
  /\ IF Interrupted(stored) = stored
       THEN /\ initialized' = TRUE
            /\ memory' = stored
            /\ last_saved' = stored
            /\ UNCHANGED <<stored, faults>>
       ELSE \/ Saved(Interrupted(stored)) /\ initialized' = TRUE
            \/ /\ stored' \in {stored, Interrupted(stored)}
               /\ faults < MaxFaults
               /\ faults' = faults + 1
               /\ UNCHANGED <<memory, last_saved, initialized>>
  /\ UNCHANGED <<closed, resetting, executor, told>>

Open == initialized /\ ~closed

KeyOwners(key) == {r \in Runs : memory[r] # Absent /\ memory[r].request.key = key}

Trigger(r, q) ==
  /\ Open
  /\ memory[r] = Absent /\ stored[r] = Absent /\ told[r] = "nothing"  \* a fresh uuid
  /\ executor[r] = NoTask
  /\ q.key # "none" => KeyOwners(q.key) = {}
  /\ LET new == [memory EXCEPT ![r] = NewRun(q)]
     IN \/ /\ Saved(new)
           /\ Tells(r, NewRun(q))
           /\ executor' = IF q.auto THEN [executor EXCEPT ![r] = At("begin", 0, 0)] ELSE executor
        \/ SaveFails(new) /\ UNCHANGED <<told, executor>>
  /\ UNCHANGED <<initialized, closed, resetting>>

\* get, list_runs, and the trigger, callback or cancellation that was seen
\* before and is answered from memory.
Query(r) ==
  /\ initialized
  /\ memory[r] # Absent
  /\ Tells(r, memory[r])
  /\ UNCHANGED <<memory, stored, last_saved, initialized, closed, resetting, executor, faults>>

Cancel(r) ==
  /\ Open
  /\ memory[r].status \in {"queued", "running"}
  /\ Commits(r, EndRun(memory[r], "cancelled"))
  /\ UNCHANGED <<initialized, closed, resetting, executor>>

ApplyCallback(r, e, c) ==
  /\ Open
  /\ memory[r] # Absent
  /\ memory[r].events[e] = NoEvent
  /\ CallbackAccepted(memory[r], c)
  /\ Commits(r, [AfterCallback(memory[r], c) EXCEPT !.events[e] = c])
  /\ UNCHANGED <<initialized, closed, resetting, executor>>

\* The tasks are cancelled only after the checkpoint has succeeded.
Shutdown ==
  /\ initialized
  /\ closed' = TRUE
  /\ \/ Saved(Interrupted(memory)) /\ executor' = [r \in Runs |-> NoTask]
     \/ SaveFails(Interrupted(memory)) /\ UNCHANGED executor
  /\ UNCHANGED <<initialized, resetting, told>>

ResetBegins ==
  /\ initialized
  /\ ~resetting
  /\ closed' = TRUE
  /\ resetting' = TRUE
  /\ executor' = [r \in Runs |-> NoTask]
  /\ UNCHANGED <<memory, stored, last_saved, initialized, told, faults>>

ResetEnds ==
  /\ resetting
  /\ resetting' = FALSE
  /\ memory' = [r \in Runs |-> Absent]
  /\ told' = [r \in Runs |-> "nothing"]
  /\ \/ /\ stored' = memory'
        /\ last_saved' = memory'
        /\ closed' = FALSE
        /\ UNCHANGED faults
     \/ /\ faults < MaxFaults
        /\ faults' = faults + 1
        /\ UNCHANGED <<stored, last_saved, closed>>
  /\ executor' = [r \in Runs |-> NoTask]
  /\ UNCHANGED initialized

\* The process ends abruptly and is started again.
ProcessRestarts ==
  /\ faults < MaxFaults
  /\ faults' = faults + 1
  /\ memory' = [r \in Runs |-> Absent]
  /\ last_saved' = [r \in Runs |-> Absent]
  /\ initialized' = FALSE
  /\ closed' = FALSE
  /\ resetting' = FALSE
  /\ executor' = [r \in Runs |-> NoTask]
  /\ UNCHANGED <<stored, told>>

-----------------------------------------------------------------------------
(* _execute: one action for each time it holds the lock.                   *)

NextStage(run, i) == IF i < Len(run.stages) THEN At("stage", i + 1, 0) ELSE At("end", 0, 0)
NextJob(run, i, j) ==
  IF j < Len(run.stages[i].jobs) THEN At("job", i, j + 1) ELSE At("close", i, 0)

Leave(run) == [saves |-> FALSE, run |-> run, at |-> Done]
Saves(run, at) == [saves |-> TRUE, run |-> run, at |-> at]

AfterBegin(run) ==
  IF run.status = "queued" THEN Saves(StartRun(run), At("stage", 1, 0)) ELSE Leave(run)

AfterStage(run, i) ==
  IF run.stages[i].status = "succeeded"
    THEN [saves |-> FALSE, run |-> run, at |-> NextStage(run, i)]
    ELSE Saves(StartStage(run, i), At("job", i, 1))

AfterJob(run, i, j) ==
  IF run.stages[i].status # "running" THEN Leave(run)
  ELSE IF run.stages[i].jobs[j] = "succeeded" THEN Saves(Aggregate(run, i), NextJob(run, i, j))
  ELSE Saves(StartJob(run, i, j), At("wait", i, j))

AfterWait(run, i, j) ==
  IF run.stages[i].jobs[j] = "succeeded" THEN Saves(Aggregate(run, i), NextJob(run, i, j))
  ELSE IF run.request.stages[i][j] THEN Saves(EndFromJob(run, i, j, "failed"), Done)
  ELSE Saves(Aggregate(FinishJob(run, i, j, "succeeded"), i), NextJob(run, i, j))

AfterStep(run, at) ==
  IF at.step = "begin" THEN AfterBegin(run)
  ELSE IF run.status # "running" THEN Leave(run)
  ELSE CASE at.step = "stage" -> AfterStage(run, at.stage)
         [] at.step = "job" -> AfterJob(run, at.stage, at.job)
         [] at.step = "wait" -> AfterWait(run, at.stage, at.job)
         [] at.step = "close" -> Saves(Aggregate(run, at.stage), NextStage(run, at.stage))
         [] at.step = "end" -> Saves(AggregateRun(run), Done)

ExecutorStep(r) ==
  /\ executor[r].step \in {"begin", "stage", "job", "wait", "close", "end"}
  /\ IF memory[r] = Absent
       THEN /\ executor' = [executor EXCEPT ![r] = Done]  \* _require_run
            /\ UNCHANGED <<memory, stored, last_saved, faults>>
       ELSE LET outcome == AfterStep(memory[r], executor[r])
                new == [memory EXCEPT ![r] = outcome.run]
            IN \/ /\ IF outcome.saves
                       THEN Saved(new)
                       ELSE UNCHANGED <<memory, stored, last_saved, faults>>
                  /\ executor' = [executor EXCEPT ![r] = outcome.at]
               \/ /\ outcome.saves
                  /\ SaveFails(new)
                  /\ executor' = [executor EXCEPT ![r] = At("failing", 0, 0)]
  /\ UNCHANGED <<initialized, closed, resetting, told>>

\* The handler of an unexpected exception, here a failed checkpoint.
ExecutorFails(r) ==
  /\ executor[r].step = "failing"
  /\ IF memory[r].status \in {"queued", "running"}
       THEN LET new == [memory EXCEPT ![r] = EndRun(memory[r], "failed")]
            IN Saved(new) \/ SaveFails(new)
       ELSE UNCHANGED <<memory, stored, last_saved, faults>>
  /\ executor' = [executor EXCEPT ![r] = Done]
  /\ UNCHANGED <<initialized, closed, resetting, told>>

PipelineNext ==
  \/ Initialize
  \/ \E r \in Runs, q \in PipelineRequests : Trigger(r, q)
  \/ \E r \in Runs : Query(r)
  \/ \E r \in Runs : Cancel(r)
  \/ \E r \in Runs, e \in EventIds, c \in RunCallbacks : ApplyCallback(r, e, c)
  \/ Shutdown
  \/ ResetBegins
  \/ ResetEnds
  \/ ProcessRestarts
  \/ \E r \in Runs : ExecutorStep(r)
  \/ \E r \in Runs : ExecutorFails(r)

PipelineSpec == PipelineInit /\ [][PipelineNext]_pipelineVars

-----------------------------------------------------------------------------
(* Properties.                                                             *)

StageOK(stage) == stage.status \in RunStatuses /\ \A j \in DOMAIN stage.jobs : stage.jobs[j] \in RunStatuses
RunOK(run) ==
  run = Absent \/ (/\ run.status \in RunStatuses
                   /\ run.request \in PipelineRequests
                   /\ \A i \in DOMAIN run.stages : StageOK(run.stages[i])
                   /\ run.events \in [EventIds -> RunCallbacks \cup {NoEvent}])

PipelineTypeOK ==
  /\ \A r \in Runs : RunOK(memory[r]) /\ RunOK(stored[r]) /\ RunOK(last_saved[r])
  /\ {initialized, closed, resetting} \subseteq BOOLEAN
  /\ told \in [Runs -> {"nothing", "active"} \cup Ended]
  /\ faults \in 0..MaxFaults

TreeAgrees(run) ==
  run # Absent =>
    /\ run.status = "succeeded" <=> StagesSucceeded(run)
    /\ run.status \in Ended => \A i \in DOMAIN run.stages : run.stages[i].status \in Ended
    /\ run.status = "queued" => \A i \in DOMAIN run.stages : run.stages[i].status = "queued"
    /\ \A i \in DOMAIN run.stages :
         LET stage == run.stages[i]
         IN /\ stage.status = "succeeded" <=> JobsSucceeded(run, i)
            /\ stage.status \in Ended => \A j \in DOMAIN stage.jobs : stage.jobs[j] \in Ended
            /\ stage.status = "queued" => \A j \in DOMAIN stage.jobs : stage.jobs[j] = "queued"
            /\ stage.status \in {"failed", "cancelled"} => run.status \in {"failed", "cancelled"}

\* Whatever the executor, callbacks, cancellations and failed checkpoints do
\* to a run, its tree is consistent in memory and in the database: a parent
\* has succeeded exactly if its children have, has no unfinished children once
\* it has ended, and has not begun later than they have.  No operation gets
\* stuck halfway on an illegal transition.
TreesAgree ==
  /\ PipelineTypeOK
  /\ \A r \in Runs : TreeAgrees(memory[r]) /\ TreeAgrees(stored[r])

\* One trigger key never has two runs.
OneRunPerKey ==
  \A q, r \in Runs :
    stored[q] # Absent /\ stored[r] # Absent /\ stored[q].request.key = stored[r].request.key
      => q = r \/ stored[q].request.key = "none"

\* What a client has been told holds from then on: its run exists, and the
\* end it was told stays, through restarts and failed checkpoints; a trigger
\* key keeps its one run.  It takes
\* three faults in the right order to break the promise (a save that commits
\* and fails, another failed save and a failed reload), because last_saved is
\* not brought up to date by the reload.
AnswersAreKept ==
  faults < 3 =>
    /\ OneRunPerKey
    /\ \A r \in Runs :
         told[r] # "nothing" =>
           /\ stored[r] # Absent /\ (initialized => memory[r] # Absent)
           /\ told[r] \in Ended =>
                stored[r].status = told[r] /\ (initialized => memory[r].status = told[r])

\* With at most one failed save, a run is not left unfinished by its
\* executor, unless callbacks have moved it: a run that a callback has started,
\* or whose stage callbacks have completed under the executor, is left to them.
ExecutorStays ==
  faults <= 1 =>
    \A r \in Runs :
      /\ memory[r].status \in {"queued", "running"}
      /\ memory[r].events = [e \in EventIds |-> NoEvent]
      => executor[r] # Done

\* A run is consistent, does not lose its executor, and stays what clients were
\* told of it.
RunsStayWhole == TreesAgree /\ ExecutorStays /\ AnswersAreKept
=============================================================================
