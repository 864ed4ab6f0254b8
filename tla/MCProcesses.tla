---------------------------- MODULE MCProcesses ----------------------------
(***************************************************************************)
(* The background processes in two small scenarios: two workers that share *)
(* a task with two attempts, and two dispatchers that relay two outbox     *)
(* rows under one and the same id, as processes started with the default   *)
(* id do.                                                                  *)
(***************************************************************************)
EXTENDS WorkerLoop, WakeupOutbox, TLC

CONSTANTS t1, theId

VARIABLE scenario

MCMaxAttempts == t1 :> 2
MCDispatcherId == [d \in Dispatchers |-> theId]

MCInit == LoopInit /\ OutboxInit /\ scenario \in {"workers", "dispatchers"}

WorkersNext ==
  /\ scenario = "workers" /\ LoopNext
  /\ UNCHANGED <<rowVars, held, sent>>

DispatchersNext ==
  /\ scenario = "dispatchers" /\ OutboxNext
  /\ UNCHANGED <<vars, loopVars>>

MCNext == (WorkersNext \/ DispatchersNext) /\ UNCHANGED scenario

MCFairSpec ==
  /\ MCInit
  /\ [][MCNext]_<<allVars, outboxVars, scenario>>
  /\ scenario = "workers" => LoopFairness
  /\ scenario = "dispatchers" => OutboxFairness
=============================================================================
