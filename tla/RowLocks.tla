------------------------------- MODULE RowLocks -------------------------------
(***************************************************************************)
(* The row locks of PostgreSQL that the transactions of                    *)
(* PersistentRuntimeService take, and the order they take them in.         *)
(*                                                                         *)
(* A transaction is the sequence of its lock requests.  FOR UPDATE, and an *)
(* UPDATE at a flush, wait for the row; FOR UPDATE SKIP LOCKED takes rows  *)
(* that are free.  Which rows a query finds is left open, and so is every  *)
(* check that makes a transaction end early.  All rows are released when   *)
(* it ends.  SQLite serializes the transactions and is not modelled.       *)
(***************************************************************************)
EXTENDS Naturals, Sequences, FiniteSets

CONSTANTS
  DbSessions,     \* connections to PostgreSQL, of all processes
  TaskRows,       \* the primary keys of tasks, in their order
  DeviceRows,
  LeaseGraph      \* of each device lease: [task, device]

ASSUME RowLocksAssumption ==
  /\ IsFiniteSet(DbSessions)
  /\ TaskRows \subseteq Nat
  /\ \A l \in DOMAIN LeaseGraph :
       LeaseGraph[l].task \in TaskRows /\ LeaseGraph[l].device \in DeviceRows

VARIABLE in_flight   \* of each session: its transaction, what it holds and has yet to lock

Quiet == [name |-> "none", todo |-> <<>>, held |-> {}]

-----------------------------------------------------------------------------
(* Rows.  Of the other tables one row stands for all: no transaction locks *)
(* two of them.                                                            *)

TaskRow(t) == <<"task", t>>
DeviceRow(d) == <<"device", d>>
LeaseRow(l) == <<"lease", l>>
Schedule == <<"schedule", 0>>
Wakeup == <<"wakeup", 0>>
ProviderConnection == <<"connection", 0>>
WebhookEvent == <<"event", 0>>
ProviderRun == <<"run", 0>>
TriggerIntent == <<"intent", 0>>

\* FOR UPDATE or UPDATE of one row.
Await(row) == [rows |-> {row}, skip |-> FALSE, needed |-> TRUE]
\* SKIP LOCKED; a transaction that needs a row and finds none ends.
SkipLocked(rows, needed) == [rows |-> rows, skip |-> TRUE, needed |-> needed]

-----------------------------------------------------------------------------
(* Transactions.                                                           *)

\* heartbeat_task, complete_task, fail_task, cancel_task, retry_task and
\* dead_letter_task; update_device, delete_device and heartbeat_device.
TaskOperation(t) == <<Await(TaskRow(t))>>
DeviceOperation(d) == <<Await(DeviceRow(d))>>

\* claim_task: the expired leases are recovered, then one task is taken.
TaskClaim ==
  LET table == {TaskRow(t) : t \in TaskRows} IN
  <<SkipLocked(table, FALSE), SkipLocked(table, TRUE)>>

\* lock_device_lease_graph, of start, renew, release and of each expired lease.
LeaseOperation(l) ==
  <<Await(TaskRow(LeaseGraph[l].task)), Await(DeviceRow(LeaseGraph[l].device)),
    Await(LeaseRow(l))>>

\* Faulty variant: a lease that expired is swept in the same transaction.
AcquisitionWithSweep(t, l) ==
  <<Await(TaskRow(t))>> \o LeaseOperation(l)
    \o <<SkipLocked({DeviceRow(d) : d \in DeviceRows}, TRUE)>>

\* acquire_device: the expired leases have been swept before, each in a
\* transaction of its own.  A device that fails the second check stays locked.
Acquisition(t, l) ==
  <<Await(TaskRow(t)), SkipLocked({DeviceRow(d) : d \in DeviceRows}, TRUE)>>

\* T1 of the scheduler; T2, which under "replace" updates the active tasks of
\* the schedule, by primary key; and the edits of a schedule.
ScheduleClaim == <<SkipLocked({Schedule}, TRUE)>>
ScheduleFinish(active) ==
  <<Await(Schedule)>> \o [i \in DOMAIN active |-> Await(TaskRow(active[i]))]
TasksByPrimaryKey ==
  {active \in UNION {[1..n -> TaskRows] : n \in 0..Cardinality(TaskRows)} :
     \A i, j \in DOMAIN active : i < j => active[i] < active[j]}
ScheduleEdit == <<Await(Schedule)>>

WakeupClaim == <<SkipLocked({Wakeup}, TRUE)>>
WakeupSettlement == <<Await(Wakeup)>>

\* The dispatcher claims an intent, and settles it after the call.
IntentClaim == <<SkipLocked({TriggerIntent}, TRUE), Await(ProviderRun)>>
IntentSettlement == <<Await(TriggerIntent), Await(ProviderRun)>>

\* A run that was not dispatched is cancelled without FOR UPDATE: the flush
\* writes the changed rows table by table, the run before its intent.
CancellationBeforeDispatch == <<Await(ProviderRun), Await(TriggerIntent)>>

\* A poll or a gate decision after the call of the provider.
RunRefresh == <<Await(ProviderRun)>>

\* A webhook looks its event up before and after it has locked the run; there
\* is a row to lock only if the event has been received before.
KnownEvent == <<Await(ProviderConnection), Await(WebhookEvent)>>
WebhookDelivery == <<Await(ProviderConnection), Await(ProviderRun), Await(WebhookEvent)>>
ConnectionEdit == <<Await(ProviderConnection)>>

Transaction(name, requests) == [name |-> name, todo |-> requests, held |-> {}]

TaskTransactions ==
  {Transaction("task", TaskOperation(t)) : t \in TaskRows}
    \cup {Transaction("claim task", TaskClaim)}
DeviceTransactions ==
  {Transaction("device", DeviceOperation(d)) : d \in DeviceRows}
    \cup {Transaction("lease", LeaseOperation(l)) : l \in DOMAIN LeaseGraph}
    \cup {Transaction("acquire", Acquisition(t, l)) : t \in TaskRows, l \in DOMAIN LeaseGraph}
ScheduleTransactions ==
  {Transaction("claim schedule", ScheduleClaim), Transaction("schedule", ScheduleEdit)}
    \cup {Transaction("finish schedule", ScheduleFinish(active)) : active \in TasksByPrimaryKey}
WakeupTransactions ==
  {Transaction("claim wake-up", WakeupClaim), Transaction("wake-up", WakeupSettlement)}

ProviderTransactions ==
  {Transaction("claim intent", IntentClaim), Transaction("intent", IntentSettlement),
   Transaction("cancel", CancellationBeforeDispatch), Transaction("run", RunRefresh),
   Transaction("webhook", WebhookDelivery), Transaction("webhook", KnownEvent),
   Transaction("connection", ConnectionEdit)}

RuntimeTransactions ==
  TaskTransactions \cup DeviceTransactions \cup ScheduleTransactions \cup WakeupTransactions
    \cup ProviderTransactions

-----------------------------------------------------------------------------
LockedByOthers(x) == UNION {in_flight[y].held : y \in DbSessions \ {x}}

Waits(x) ==
  /\ in_flight[x].todo # <<>>
  /\ ~Head(in_flight[x].todo).skip
  /\ Head(in_flight[x].todo).rows \cap LockedByOthers(x) # {}

WaitsFor(x, y) ==
  /\ x # y /\ in_flight[x].todo # <<>>
  /\ ~Head(in_flight[x].todo).skip
  /\ Head(in_flight[x].todo).rows \cap in_flight[y].held # {}

BeginTransaction(x) ==
  /\ in_flight[x] = Quiet
  /\ \E transaction \in RuntimeTransactions :
       in_flight' = [in_flight EXCEPT ![x] = transaction]

LockRow(x) ==
  /\ in_flight[x].todo # <<>> /\ ~Head(in_flight[x].todo).skip /\ ~Waits(x)
  /\ in_flight' = [in_flight EXCEPT ![x].held = @ \cup Head(in_flight[x].todo).rows,
                                    ![x].todo = Tail(@)]

LockFreeRows(x) ==
  /\ in_flight[x].todo # <<>> /\ Head(in_flight[x].todo).skip
  /\ \E found \in SUBSET (Head(in_flight[x].todo).rows \ LockedByOthers(x)) :
       /\ Head(in_flight[x].todo).needed => found # {}
       /\ in_flight' = [in_flight EXCEPT ![x].held = @ \cup found, ![x].todo = Tail(@)]

\* Commit or rollback.  A transaction that waits cannot end: no lock_timeout
\* is set.
EndTransaction(x) ==
  /\ in_flight[x] # Quiet /\ ~Waits(x)
  /\ in_flight' = [in_flight EXCEPT ![x] = Quiet]

RowLocksInit == in_flight = [x \in DbSessions |-> Quiet]
RowLocksNext ==
  \E x \in DbSessions : BeginTransaction(x) \/ LockRow(x) \/ LockFreeRows(x) \/ EndTransaction(x)
RowLocksSpec == RowLocksInit /\ [][RowLocksNext]_in_flight

-----------------------------------------------------------------------------
(* Properties.                                                             *)

\* Everyone in the group waits for another one in it.
Deadlocked(group) == group # {} /\ \A x \in group : \E y \in group : WaitsFor(x, y)

\* RuntimeTransactions on tasks, devices, leases, schedules and wake-ups, in whatever
\* order they come, never wait for each other in a circle, and neither do those
\* on provider runs, but for one case: a run is cancelled while a dispatcher
\* claims it or gives it back.
OnlyACancellationDeadlocks ==
  \A group \in SUBSET DbSessions :
    Deadlocked(group) =>
      /\ \E x \in group : in_flight[x].name = "cancel"
      /\ \E x \in group : in_flight[x].name \in {"claim intent", "intent"}
=============================================================================
