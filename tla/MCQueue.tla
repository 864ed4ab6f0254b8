------------------------------ MODULE MCQueue ------------------------------
(***************************************************************************)
(* Small scenarios of TaskQueue and DeviceLeases: either two tasks, with   *)
(* three and two attempts, are shared by two workers, or two tasks with    *)
(* one attempt each compete for one device.                                *)
(***************************************************************************)
EXTENDS DeviceLeases, TLC

CONSTANTS t1, t2, t3, t4, w1, w2, d1

VARIABLE scenario

MCMaxAttempts == t1 :> 3 @@ t2 :> 2 @@ t3 :> 1 @@ t4 :> 1

Room == [queue |-> {t1, t2}, devices |-> {t3, t4, d1}]

Existing ==
  {t \in Tasks : status[t] # "absent"} \cup {d \in Devices : dev_status[d] # "absent"}

MCInit == DeviceInit /\ scenario \in DOMAIN Room

\* Tasks with one attempt wait for nothing.
MCNext ==
  /\ DeviceNext /\ UNCHANGED scenario
  /\ Existing' \subseteq Room[scenario]
  /\ \A t \in Tasks : MaxAttempts[t] = 1 => wait_left'[t] = 0

MCSpec == MCInit /\ [][MCNext]_<<deviceAllVars, scenario>>

\* The workers are interchangeable; the tasks are not.
WorkerSymmetry == Permutations(Workers)
=============================================================================
