-------------------------- MODULE QueueClientsProofs --------------------------
(***************************************************************************)
(* Proofs about two users of the task queue, for any number of devices,    *)
(* leases, schedulers, instants, tasks and workers.  Device leases hang on *)
(* the leases of tasks and leave the queue as it is.  A schedule enqueues  *)
(* tasks, looks at what became of the earlier ones, and may cancel them;   *)
(* which of its due times it fires is the matter of the cron plans, for    *)
(* any expression, any calendar and any backlog.                           *)
(***************************************************************************)
EXTENDS DeviceLeases, Scheduler, CronPlans, TaskQueueProofs, FiniteSetTheorems

(***************************************************************************)
(* Devices.  DeviceAndLeaseAgree says what a lease knows of its device;    *)
(* the other direction, that a device only names a lease that is its own   *)
(* and active, keeps a numbered lease from being named by a second device  *)
(* when it is granted.                                                     *)
(***************************************************************************)
NamedLeaseIsOwn ==
  \A d \in Devices : active_lease[d] # 0 =>
    /\ lease[active_lease[d]] # NoLease
    /\ lease[active_lease[d]].state = "active"
    /\ lease[active_lease[d]].device = d

DeviceInv == DeviceAndLeaseAgree /\ NamedLeaseIsOwn

-----------------------------------------------------------------------------
\* The queue's variables move only by steps of the queue.
LEMMA DeviceStepIsAStep == [DeviceNext]_deviceAllVars => [Next]_vars
  BY DEF DeviceNext, QueueStep, AdminStep, LeaseStep, CreateDevice, ReadDevice, DeleteDevice,
     HeartbeatDevice, UpdateDevice, AcquireDevice, StartDeviceWork, ReleaseDeviceLease,
     ExpireDeviceLease, RenewDeviceLease, DeviceTick, Next, deviceAllVars

\* Every behaviour of the queue with its devices is one of the queue, so that
\* the queue's theorems hold of it.
THEOREM DevicesUseTheQueue == DeviceSpec => Spec
  <1>1. DeviceInit => Init
    BY DEF DeviceInit
  <1> QED
    BY <1>1, DeviceStepIsAStep, PTL DEF DeviceSpec, Spec

\* The device that was cut to the time left of its task has a lease that is
\* no longer than the caller may ask for.
LEMMA ExpiryInRange ==
  ASSUME TypeOK, NEW t \in Tasks, NEW seconds \in 1..MaxLease
  PROVE  Expiry(t, seconds) \in 0..MaxLease
  BY TimesAssumption DEF TypeOK, Expiry

\* The fields of a lease that has been granted.
LEMMA GrantedLease ==
  ASSUME DeviceTypeOK, NEW i \in Leases, lease[i] # NoLease
  PROVE  /\ lease[i] = [state |-> lease[i].state, device |-> lease[i].device,
                        task |-> lease[i].task, owner |-> lease[i].owner,
                        claim |-> lease[i].claim]
         /\ lease[i].device \in Devices /\ lease[i].task \in Tasks
         /\ lease[i].owner \in Workers /\ lease[i].claim \in Nat
         /\ lease[i].state \in {"active", "released", "expired"}
  <1>1. lease[i] \in [state : {"active", "released", "expired"}, device : Devices,
                      task : Tasks, owner : Workers, claim : Nat]
    BY DEF DeviceTypeOK, LeaseRecords
  <1> QED
    BY <1>1

\* The status of a device without a lease that is enabled and heard of, or not.
LEMMA AvailableStatusIs ==
  ASSUME NEW e \in BOOLEAN, NEW n \in Nat
  PROVE  AvailableStatus(e, n) \in {"idle", "offline"}
  BY DEF AvailableStatus

-----------------------------------------------------------------------------
\* The tables start empty.
LEMMA DeviceInitInv == DeviceInit => DeviceInv
  BY DeviceConstantsAssumption, TimesAssumption
  DEF DeviceInit, DeviceInv, DeviceAndLeaseAgree, DeviceTypeOK, NamedLeaseIsOwn,
      DeviceStatuses, LeaseRecords, NoLease, Leases

\* Administrators and agents keep the invariant: a device goes to maintenance
\* only without a lease, and is deleted only when it never had one.
LEMMA AdminKeepsInv ==
  ASSUME DeviceInv, NEW d \in Devices, AdminStep(d)
  PROVE  DeviceInv'
  <1> USE DEF DeviceInv, DeviceAndLeaseAgree, DeviceTypeOK
  <1>0. UNCHANGED <<lease, expiry_left, active_lease>>
    BY DEF AdminStep, CreateDevice, ReadDevice, DeleteDevice, HeartbeatDevice, UpdateDevice,
       deviceLeaseVars
  <1>1. NamedLeaseIsOwn'
    BY <1>0 DEF NamedLeaseIsOwn
  <1>2. DeviceTypeOK'
    <2> USE <1>0, DeviceConstantsAssumption DEF DeviceStatuses, Bump, AvailableStatus
    <2>1. CASE CreateDevice(d)
      BY <2>1 DEF CreateDevice
    <2>2. CASE ReadDevice(d)
      BY <2>2 DEF ReadDevice
    <2>3. CASE DeleteDevice(d)
      BY <2>3 DEF DeleteDevice
    <2>4. CASE HeartbeatDevice(d)
      BY <2>4 DEF HeartbeatDevice
    <2>5. ASSUME NEW is_enabled \in BOOLEAN, NEW maintenance \in {"on", "off", "keep"},
                 UpdateDevice(d, is_enabled, maintenance)
          PROVE  DeviceTypeOK'
      BY <2>5 DEF UpdateDevice
    <2> QED
      BY <2>1, <2>2, <2>3, <2>4, <2>5 DEF AdminStep
  <1>3. ASSUME NEW e \in Devices
        PROVE  /\ dev_status'[e] \in {"reserved", "busy"} => active_lease'[e] # 0
               /\ dev_status'[e] = "maintenance" => active_lease'[e] = 0
    <2> USE <1>0 DEF Maintainable, AvailableStatus
    <2>1. CASE CreateDevice(d)
      BY <2>1 DEF CreateDevice
    <2>2. CASE ReadDevice(d)
      BY <2>2 DEF ReadDevice
    <2>3. CASE DeleteDevice(d)
      BY <2>3 DEF DeleteDevice
    <2>4. CASE HeartbeatDevice(d)
      BY <2>4 DEF HeartbeatDevice
    <2>5. ASSUME NEW is_enabled \in BOOLEAN, NEW maintenance \in {"on", "off", "keep"},
                 UpdateDevice(d, is_enabled, maintenance)
          PROVE  /\ dev_status'[e] \in {"reserved", "busy"} => active_lease'[e] # 0
                 /\ dev_status'[e] = "maintenance" => active_lease'[e] = 0
      BY <2>5 DEF UpdateDevice
    <2> QED
      BY <2>1, <2>2, <2>3, <2>4, <2>5 DEF AdminStep
  <1> QED
    BY <1>0, <1>1, <1>2, <1>3

\* An acquisition takes a device without a lease and a number that no device
\* names.
LEMMA AcquireKeepsInv ==
  ASSUME TypeOK, DeviceInv,
         NEW w \in Workers, NEW t \in Tasks, NEW k \in Nat, NEW d \in Devices,
         NEW seconds \in 1..MaxLease, AcquireDevice(w, t, k, d, seconds)
  PROVE  DeviceInv'
  <1> USE DEF DeviceInv, DeviceAndLeaseAgree, DeviceTypeOK
  <1> DEFINE row == [state |-> "active", device |-> d, task |-> t, owner |-> w, claim |-> k]
  <1>1. PICK i \in Leases :
          /\ lease[i] = NoLease
          /\ lease' = [lease EXCEPT ![i] = row]
          /\ expiry_left' = [expiry_left EXCEPT ![i] = Expiry(t, seconds)]
          /\ active_lease' = [active_lease EXCEPT ![d] = i]
    BY DEF AcquireDevice
  <1>2. /\ dev_status' = [dev_status EXCEPT ![d] = "reserved"]
        /\ copy_current' = [copy_current EXCEPT ![d] = FALSE]
        /\ UNCHANGED <<enabled, fresh_left>>
        /\ active_lease[d] = 0
    BY DEF AcquireDevice, Bump, Candidate
  <1>3. row \in LeaseRecords /\ row # NoLease
    <2>1. row.device = d /\ "device" \in DOMAIN row /\ "device" \notin DOMAIN NoLease
      BY DEF NoLease
    <2> QED
      BY <2>1 DEF LeaseRecords
  <1>4. i \in 0..MaxLeases /\ i # 0
    BY DeviceConstantsAssumption DEF Leases
  <1>5. DeviceTypeOK'
    BY <1>1, <1>2, <1>3, <1>4, ExpiryInRange DEF DeviceStatuses
  <1>6. NamedLeaseIsOwn'
    BY <1>1, <1>3, <1>4 DEF NamedLeaseIsOwn
  <1>7. ASSUME NEW j \in Leases, lease'[j] # NoLease
        PROVE  lease'[j].state = "active" <=> active_lease'[lease'[j].device] = j
    <2>1. CASE j = i
      BY <2>1, <1>1
    <2>2. CASE j # i
      <3>1. lease'[j] = lease[j] /\ lease[j] # NoLease /\ lease[j].device \in Devices
        BY <2>2, <1>1, <1>7, GrantedLease
      <3>2. lease[j].device = d => lease[j].state # "active"
        BY <3>1, <1>2, <1>4 DEF Leases
      <3> QED
        BY <2>2, <3>1, <3>2, <1>1, <1>2
    <2> QED
      BY <2>1, <2>2
  <1>8. ASSUME NEW e \in Devices
        PROVE  /\ dev_status'[e] \in {"reserved", "busy"} => active_lease'[e] # 0
               /\ dev_status'[e] = "maintenance" => active_lease'[e] = 0
    BY <1>1, <1>2, <1>4
  <1> QED
    BY <1>5, <1>6, <1>7, <1>8

-----------------------------------------------------------------------------
\* Ending a lease and freeing the device that names it go together.
LEMMA EndAndFree ==
  ASSUME DeviceInv, NEW i \in Leases, NEW s \in {"released", "expired"},
         lease[i] # NoLease, active_lease[lease[i].device] = i,
         EndLease(i, s), FreeDevice(lease[i].device), UNCHANGED <<enabled, fresh_left>>
  PROVE  DeviceInv'
  <1> USE DEF DeviceInv, DeviceAndLeaseAgree, DeviceTypeOK
  <1> DEFINE d == lease[i].device
             row == [lease[i] EXCEPT !.state = s]
  <1>1. /\ d \in Devices
        /\ row = [state |-> s, device |-> d, task |-> lease[i].task,
                  owner |-> lease[i].owner, claim |-> lease[i].claim]
        /\ row \in LeaseRecords
    BY GrantedLease DEF LeaseRecords
  <1>2. /\ lease' = [lease EXCEPT ![i] = row]
        /\ expiry_left' = [expiry_left EXCEPT ![i] = 0]
        /\ active_lease' = [active_lease EXCEPT ![d] = 0]
        /\ dev_status' = [dev_status EXCEPT ![d] = Freed(d)]
        /\ copy_current' = [copy_current EXCEPT ![d] = FALSE]
    BY DEF EndLease, FreeDevice, Bump
  <1>3. Freed(d) \in {"idle", "offline"}
    BY <1>1 DEF Freed, AvailableStatus
  <1>4. DeviceTypeOK'
    BY <1>1, <1>2, <1>3, DeviceConstantsAssumption, TimesAssumption DEF DeviceStatuses
  <1>5. NamedLeaseIsOwn'
    BY <1>1, <1>2 DEF NamedLeaseIsOwn
  <1>6. ASSUME NEW j \in Leases, lease'[j] # NoLease
        PROVE  lease'[j].state = "active" <=> active_lease'[lease'[j].device] = j
    <2>1. j # 0
      BY DEF Leases
    <2>2. CASE j = i
      BY <2>1, <2>2, <1>1, <1>2
    <2>3. CASE j # i
      <3>1. lease'[j] = lease[j] /\ lease[j] # NoLease /\ lease[j].device \in Devices
        BY <2>3, <1>2, <1>6, GrantedLease
      <3> QED
        BY <2>1, <2>3, <3>1, <1>2
    <2> QED
      BY <2>2, <2>3
  <1>7. ASSUME NEW e \in Devices
        PROVE  /\ dev_status'[e] \in {"reserved", "busy"} => active_lease'[e] # 0
               /\ dev_status'[e] = "maintenance" => active_lease'[e] = 0
    BY <1>2, <1>3
  <1> QED
    BY <1>4, <1>5, <1>6, <1>7

\* Starting, renewing, releasing and expiring keep the invariant.
LEMMA LeaseStepKeepsInv ==
  ASSUME TypeOK, DeviceInv, NEW i \in Leases, LeaseStep(i)
  PROVE  DeviceInv'
  <1> USE DEF DeviceInv, DeviceAndLeaseAgree, DeviceTypeOK
  <1>1. /\ lease[i] # NoLease
        /\ lease[i].device \in Devices /\ lease[i].task \in Tasks
    BY GrantedLease DEF LeaseStep
  <1>2. CASE StartDeviceWork(i)
    <2>1. /\ active_lease[lease[i].device] = i
          /\ dev_status' = [dev_status EXCEPT ![lease[i].device] = "busy"]
          /\ copy_current' = [copy_current EXCEPT ![lease[i].device] = FALSE]
          /\ UNCHANGED <<enabled, fresh_left, active_lease, lease, expiry_left>>
      BY <1>2 DEF StartDeviceWork, ValidDeviceLease, Bump, deviceLeaseVars
    <2>2. DeviceTypeOK'
      BY <2>1 DEF DeviceStatuses
    <2>3. NamedLeaseIsOwn'
      BY <2>1 DEF NamedLeaseIsOwn
    <2>4. i # 0
      BY DEF Leases
    <2> QED
      BY <2>1, <2>2, <2>3, <2>4, <1>1
  <1>3. CASE ReleaseDeviceLease(i)
    BY <1>1, <1>3, EndAndFree DEF ReleaseDeviceLease, ValidDeviceLease
  <1>4. CASE ExpireDeviceLease(i)
    <2>1. active_lease[lease[i].device] = i
      BY <1>1, <1>4 DEF ExpireDeviceLease
    <2> QED
      BY <1>1, <1>4, <2>1, EndAndFree DEF ExpireDeviceLease
  <1>5. ASSUME NEW k \in 1..attempts[lease[i].task], NEW seconds \in 1..MaxLease,
               RenewDeviceLease(i, k, seconds)
        PROVE  DeviceInv'
    <2>1. /\ expiry_left' = [expiry_left EXCEPT ![i] = Expiry(lease[i].task, seconds)]
          /\ UNCHANGED <<deviceVars, lease>>
      BY <1>5 DEF RenewDeviceLease
    <2>2. DeviceTypeOK'
      BY <1>1, <2>1, ExpiryInRange DEF deviceVars
    <2>3. NamedLeaseIsOwn'
      BY <2>1 DEF NamedLeaseIsOwn, deviceVars
    <2> QED
      BY <2>1, <2>2, <2>3 DEF deviceVars
  <1> QED
    BY <1>2, <1>3, <1>4, <1>5 DEF LeaseStep

\* Time takes nothing away but time.
LEMMA DeviceTickKeepsInv ==
  ASSUME DeviceInv, DeviceTick
  PROVE  DeviceInv'
  <1> USE DEF DeviceInv, DeviceAndLeaseAgree, DeviceTypeOK
  <1>1. UNCHANGED <<dev_status, enabled, active_lease, copy_current, lease>>
    BY DEF DeviceTick
  <1>2. /\ fresh_left' \in [Devices -> 0..OfflineAfter]
        /\ expiry_left' \in [Leases -> 0..MaxLease]
    BY DeviceConstantsAssumption, TimesAssumption DEF DeviceTick, DeviceSooner
  <1> QED
    BY <1>1, <1>2 DEF NamedLeaseIsOwn

\* Every step keeps the invariant.
LEMMA DeviceNextKeepsInv == TypeOK /\ DeviceInv /\ [DeviceNext]_deviceAllVars => DeviceInv'
  <1> SUFFICES ASSUME TypeOK, DeviceInv, [DeviceNext]_deviceAllVars PROVE DeviceInv'
    OBVIOUS
  <1>1. CASE UNCHANGED <<deviceVars, deviceLeaseVars>>
    BY <1>1 DEF DeviceInv, DeviceAndLeaseAgree, DeviceTypeOK, NamedLeaseIsOwn, deviceVars,
       deviceLeaseVars
  <1>2. ASSUME NEW g \in grants, NEW d \in Devices, NEW seconds \in 1..MaxLease,
               AcquireDevice(g[1], g[2], g[3], d, seconds)
        PROVE  DeviceInv'
    <2>1. g[1] \in Workers /\ g[2] \in Tasks /\ g[3] \in Nat
      BY DEF TypeOK
    <2> QED
      BY <1>2, <2>1, AcquireKeepsInv
  <1> QED
    BY <1>1, <1>2, AdminKeepsInv, LeaseStepKeepsInv, DeviceTickKeepsInv
    DEF DeviceNext, deviceAllVars

\* The inductive invariant holds in every reachable state.
THEOREM DeviceInvariance == DeviceSpec => [](TypeOK /\ DeviceInv)
  <1>1. DeviceSpec => []TypeOK
    BY DevicesUseTheQueue, TypeCorrect
  <1> QED
    BY <1>1, DeviceInitInv, DeviceNextKeepsInv, PTL DEF DeviceSpec

\* Device and lease rows agree, however acquisitions, releases, sweeps, edits
\* and heartbeats of any number of devices interleave.
THEOREM TablesOfDevicesAgree == DeviceSpec => []DeviceAndLeaseAgree
  <1>1. TypeOK /\ DeviceInv => DeviceAndLeaseAgree
    BY DEF DeviceInv
  <1> QED
    BY <1>1, DeviceInvariance, PTL

\* A device names only a lease of its own, so that no lease is named twice.
THEOREM NamedLeasesAreOwn == DeviceSpec => []NamedLeaseIsOwn
  <1>1. TypeOK /\ DeviceInv => NamedLeaseIsOwn
    BY DEF DeviceInv
  <1> QED
    BY <1>1, DeviceInvariance, PTL

-----------------------------------------------------------------------------
DeviceKept(d) ==
  LET i == active_lease[d] IN
  i # 0 /\ expiry_left[i] > 0 /\ active_lease'[d] # i => lease'[i].state = "released"

\* A device leaves its lease while that has time left only by the release of it:
\* the sweep needs an expired one, an acquisition a device without a lease.
LEMMA DeviceKeptStep ==
  ASSUME TypeOK, DeviceInv, [DeviceNext]_deviceAllVars, NEW d \in Devices
  PROVE  DeviceKept(d)
  <1> USE DEF DeviceInv, DeviceAndLeaseAgree, DeviceTypeOK
  <1> DEFINE i == active_lease[d]
  <1> SUFFICES ASSUME i # 0, expiry_left[i] > 0, active_lease'[d] # i
               PROVE  lease'[i].state = "released"
    BY DEF DeviceKept
  <1>1. i \in Leases
    BY DeviceConstantsAssumption DEF Leases
  <1>2. ASSUME NEW g \in grants, NEW e \in Devices, NEW seconds \in 1..MaxLease,
               AcquireDevice(g[1], g[2], g[3], e, seconds)
        PROVE  FALSE
    BY <1>2 DEF AcquireDevice, Candidate
  <1>3. ASSUME NEW j \in Leases, LeaseStep(j)
        PROVE  lease'[i].state = "released"
    <2>1. lease[j] # NoLease /\ lease[j].device \in Devices
      BY <1>3, GrantedLease DEF LeaseStep
    <2>2. CASE ReleaseDeviceLease(j)
      <3>1. /\ active_lease[lease[j].device] = j
            /\ active_lease' = [active_lease EXCEPT ![lease[j].device] = 0]
            /\ lease' = [lease EXCEPT ![j].state = "released"]
        BY <2>2 DEF ReleaseDeviceLease, ValidDeviceLease, EndLease, FreeDevice
      <3>2. lease[j].device = d /\ j = i
        BY <2>1, <3>1
      <3>3. lease'[i] = [lease[i] EXCEPT !.state = "released"]
        BY <1>1, <3>1, <3>2
      <3> QED
        BY <2>1, <3>2, <3>3, GrantedLease
    <2>3. CASE ExpireDeviceLease(j)
      <3>1. /\ active_lease[lease[j].device] = j
            /\ active_lease' = [active_lease EXCEPT ![lease[j].device] = 0]
            /\ expiry_left[j] = 0
        BY <2>1, <2>3 DEF ExpireDeviceLease, FreeDevice
      <3> QED
        BY <2>1, <3>1
    <2>4. CASE active_lease' = active_lease
      BY <2>4
    <2> QED
      BY <1>3, <2>2, <2>3, <2>4 DEF LeaseStep, StartDeviceWork, RenewDeviceLease, deviceVars
  <1>4. ASSUME NEW e \in Devices, AdminStep(e) PROVE FALSE
    BY <1>4 DEF AdminStep, CreateDevice, ReadDevice, DeleteDevice, HeartbeatDevice, UpdateDevice
  <1>5. CASE UNCHANGED active_lease
    BY <1>5
  <1> QED
    BY <1>2, <1>3, <1>4, <1>5 DEF DeviceNext, DeviceTick, deviceAllVars, deviceVars

\* No former holder, sweep, edit or other acquisition takes a device from a
\* lease that has time left.
THEOREM DeviceLeaseExclusive == DeviceSpec => LiveDeviceLeaseIsExclusive
  <1>1. TypeOK /\ DeviceInv /\ [DeviceNext]_deviceAllVars
          => [\A d \in Devices : DeviceKept(d)]_deviceAllVars
    BY DeviceKeptStep
  <1>2. DeviceSpec => [][\A d \in Devices : DeviceKept(d)]_deviceAllVars
    BY <1>1, DeviceInvariance, PTL DEF DeviceSpec
  <1> QED
    BY <1>2 DEF LiveDeviceLeaseIsExclusive, DeviceKept

-----------------------------------------------------------------------------
(***************************************************************************)
(* Schedules.  What was proved of the queue does not carry over as it is:  *)
(* a T2 with "replace" cancels tasks that workers hold.  The invariant     *)
(* says what the scheduler in T2 may rely on although the tasks it read    *)
(* are not locked: the row is as it was planned for, the plan is one of    *)
(* _cron_due_plan for the instants it leaves behind, and if no task was    *)
(* active, those active since were brought back by hand.                   *)
(***************************************************************************)
StatusOK == status \in [Tasks -> Statuses]

OneHoldsTheRow ==
  \A r, s \in Schedulers : plan[r].stage = "locked" /\ plan[s].stage = "locked" => r = s

\* A plan is of an earlier version of the row, or still what would be planned.
PlansAreOfTheRow ==
  \A s \in Schedulers : plan[s] # NoPlan =>
    /\ plan[s].version <= version
    /\ plan[s].next \in 1..(MaxInstants + 1)
    /\ edits = 0 => plan[s].overlap = overlap
    /\ plan[s].version = version =>
         <<plan[s].selected, plan[s].skipped>>
           \in SelectedAndSkipped(misfire, plan[s].first, plan[s].next - 1)
    /\ plan[s].stage = "locked" => plan[s].version = version /\ plan[s].first = next_run

\* Between the read of the active tasks and the commit.
NoneUnseen ==
  \A s \in Schedulers :
    plan[s].stage = "locked" /\ plan[s].waiting \cup plan[s].running = {}
      => \A i \in Instants : CronTask[i] \in Active => CronTask[i] \in retried

SchedulerInv ==
  /\ StatusOK
  /\ ForbidNeverOverlaps
  /\ OneHoldsTheRow
  /\ PlansAreOfTheRow
  /\ NoneUnseen

\* A plan that is held has all its fields.
LEMMA PlanFields ==
  ASSUME SchedulerTypeOK, NEW s \in Schedulers, plan[s] # NoPlan
  PROVE  /\ plan[s] \in [stage : {"planned", "locked"}, no : Nat, version : Nat, first : Nat,
                         next : Nat, overlap : Overlaps, selected : SUBSET Instants,
                         skipped : SUBSET Instants, waiting : SUBSET Tasks, running : SUBSET Tasks]
         /\ plan[s].stage \in {"planned", "locked"} /\ plan[s].no \in Nat
         /\ plan[s].version \in Nat /\ plan[s].first \in Nat /\ plan[s].next \in Nat
         /\ plan[s].overlap \in Overlaps
         /\ plan[s].selected \subseteq Instants /\ plan[s].skipped \subseteq Instants
         /\ plan[s].waiting \subseteq Tasks /\ plan[s].running \subseteq Tasks
  <1>1. plan[s] \in Plans
    BY DEF SchedulerTypeOK
  <1>2. plan[s] \in [stage : {"planned", "locked"}, no : Nat, version : Nat, first : Nat,
                     next : Nat, overlap : Overlaps, selected : SUBSET Instants,
                     skipped : SUBSET Instants, waiting : SUBSET Tasks, running : SUBSET Tasks]
    BY <1>1 DEF Plans
  <1> QED
    BY <1>2

LEMMA NoPlanIsIdle == NoPlan.stage = "none"
  BY DEF NoPlan

\* Clients and workers make a task active only if it was, or by hand.
LEMMA ActiveByHand ==
  ASSUME StatusOK, TaskStep
  PROVE  /\ StatusOK'
         /\ \A t \in Tasks : t \in Active' => t \in Active \/ t \in retried'
  <1>1. ASSUME NEW t \in Tasks, CancelTask(t) \/ DeadLetterTask(t)
        PROVE  StatusOK' /\ \A u \in Tasks : u \in Active' => u \in Active
    BY <1>1 DEF StatusOK, CancelTask, DeadLetterTask, Active, Statuses, Waiting, Closed
  <1>2. ASSUME NEW t \in Tasks, RetryTask(t)
        PROVE  /\ StatusOK'
               /\ \A u \in Tasks : u \in Active' =>
                    u \in Active \/ (status[u] = "failed" /\ status'[u] = "retry_wait")
    BY <1>2 DEF StatusOK, RetryTask, Active, Statuses, Waiting, Closed
  <1>3. ASSUME ClaimStep
        PROVE  StatusOK' /\ \A u \in Tasks : u \in Active' => u \in Active
    <2>1. PICK w \in Workers, recovered \in SUBSET Expired, claimed \in AtMostOne(Claimable),
               seconds \in 1..MaxLease : ClaimTask(w, recovered, claimed, seconds)
      BY <1>3 DEF ClaimStep
    <2>2. claimed \subseteq Claimable
      BY DEF AtMostOne
    <2>3. \A u \in Tasks : Recovered(u) \in Statuses
      BY DEF Recovered, Statuses, Waiting, Closed
    <2>4. status' = [t \in Tasks |-> IF t \in claimed THEN "running"
                                     ELSE IF t \in recovered THEN Recovered(t) ELSE status[t]]
      BY <2>1 DEF ClaimTask
    <2> QED
      BY <2>2, <2>3, <2>4 DEF StatusOK, Active, Expired, Claimable, Statuses
  <1>4. ASSUME GrantStep
        PROVE  StatusOK' /\ \A u \in Tasks : u \in Active' => u \in Active
    <2>1. PICK g \in grants :
            \/ HeartbeatTask(g[1], g[2], g[3])
            \/ CompleteTask(g[1], g[2], g[3])
            \/ \E retryable \in BOOLEAN : FailTask(g[1], g[2], g[3], retryable)
      BY <1>4 DEF GrantStep
    <2>2. PICK t : t = g[2]
      OBVIOUS
    <2>3. CASE HeartbeatTask(g[1], g[2], g[3])
      BY <2>3 DEF HeartbeatTask, StatusOK, Active
    <2>4. CASE CompleteTask(g[1], g[2], g[3])
      <3>1. Completed(t) \in {"cancelled", "succeeded"}
        BY DEF Completed
      <3>2. status' = [status EXCEPT ![t] = Completed(t)] /\ status[t] = "running"
        BY <2>2, <2>4 DEF CompleteTask, ValidLease
      <3> QED
        BY <3>1, <3>2 DEF StatusOK, Active, Statuses, Waiting, Closed
    <2>5. ASSUME NEW retryable \in BOOLEAN, FailTask(g[1], g[2], g[3], retryable)
          PROVE  StatusOK' /\ \A u \in Tasks : u \in Active' => u \in Active
      <3>1. Failed(t, retryable) \in Statuses
        BY DEF Failed, Statuses, Waiting, Closed
      <3>2. status' = [status EXCEPT ![t] = Failed(t, retryable)] /\ status[t] = "running"
        BY <2>2, <2>5 DEF FailTask, ValidLease
      <3> QED
        BY <3>1, <3>2 DEF StatusOK, Active
    <2> QED
      BY <2>1, <2>3, <2>4, <2>5
  <1>5. retried' = retried \cup {t \in Tasks : status[t] = "failed" /\ status'[t] = "retry_wait"}
    BY DEF TaskStep
  <1> QED
    BY <1>1, <1>2, <1>3, <1>4, <1>5 DEF TaskStep

\* At the start nothing is planned and no task exists.
LEMMA SchedulerInitInv == SchedulerInit => SchedulerInv
  <1> SUFFICES ASSUME SchedulerInit PROVE SchedulerInv
    OBVIOUS
  <1>1. StatusOK /\ Active = {}
    BY DEF SchedulerInit, Init, StatusOK, Active, Statuses, Waiting
  <1>2. SchedulerTypeOK
    BY ScheduleConstantsAssumption DEF SchedulerInit, SchedulerTypeOK, Plans, FireStates, Instants
  <1>3. \A s \in Schedulers : plan[s] = NoPlan
    BY DEF SchedulerInit
  <1> QED
    BY <1>1, <1>2, <1>3, NoPlanIsIdle
    DEF SchedulerInv, ForbidNeverOverlaps, OneHoldsTheRow, PlansAreOfTheRow, NoneUnseen

-----------------------------------------------------------------------------
\* What a step may change without touching a plan's claim on the row.
RowKept == /\ schedule' = schedule /\ misfire' = misfire /\ overlap' = overlap
           /\ next_run' = next_run /\ version' = version /\ edits' = edits

\* Clients and workers move the tasks only.
LEMMA TaskStepKeepsInv == SchedulerInv /\ TaskStep => SchedulerInv'
  <1> SUFFICES ASSUME SchedulerInv, TaskStep PROVE SchedulerInv'
    OBVIOUS
  <1>1. /\ RowKept /\ UNCHANGED <<claimVars, fires, passed, plan, s_faults>>
        /\ retried' = retried \cup {t \in Tasks : status[t] = "failed" /\ status'[t] = "retry_wait"}
    BY DEF TaskStep, RowKept, ruleVars
  <1>2. StatusOK' /\ \A t \in Tasks : t \in Active' => t \in Active \/ t \in retried'
    BY ActiveByHand DEF SchedulerInv
  <1>3. SchedulerTypeOK'
    BY <1>1 DEF SchedulerInv, ForbidNeverOverlaps, SchedulerTypeOK, claimVars, RowKept
  <1>4. \A i \in Instants : CronTask[i] \in Tasks
    BY ScheduleConstantsAssumption
  <1>5. ForbidNeverOverlaps'
    <2> SUFFICES ASSUME edits = 0, overlap = "forbid", NEW i \in Instants, NEW j \in Instants,
                        i # j, CronTask[i] \in Active', CronTask[j] \in Active'
                 PROVE  CronTask[i] \in retried' \/ CronTask[j] \in retried'
      BY <1>1, <1>3 DEF ForbidNeverOverlaps, RowKept
    <2>1. CronTask[i] \in Active /\ CronTask[j] \in Active
            => CronTask[i] \in retried \/ CronTask[j] \in retried
      BY DEF SchedulerInv, ForbidNeverOverlaps
    <2> QED
      BY <1>1, <1>2, <1>4, <2>1
  <1>6. OneHoldsTheRow' /\ PlansAreOfTheRow'
    BY <1>1 DEF SchedulerInv, OneHoldsTheRow, PlansAreOfTheRow, RowKept, SelectedAndSkipped
  <1>7. NoneUnseen'
    BY <1>1, <1>2, <1>4 DEF SchedulerInv, NoneUnseen
  <1> QED
    BY <1>2, <1>5, <1>6, <1>7 DEF SchedulerInv

\* The tasks stay as they are, and so does what is held of them.
LEMMA TasksKept ==
  ASSUME SchedulerInv, UNCHANGED <<status, retried>>, SchedulerTypeOK',
         edits' = 0 => edits = 0 /\ overlap' = overlap
  PROVE  StatusOK' /\ ForbidNeverOverlaps' /\ Active' = Active
  <1>1. Active' = Active
    BY DEF Active
  <1> QED
    BY <1>1 DEF SchedulerInv, StatusOK, ForbidNeverOverlaps

\* A plan is dropped.
LEMMA DropKeepsInv ==
  ASSUME SchedulerInv, NEW s \in Schedulers, plan' = [plan EXCEPT ![s] = NoPlan],
         RowKept, UNCHANGED <<status, retried>>, SchedulerTypeOK'
  PROVE  SchedulerInv'
  <1>1. StatusOK' /\ ForbidNeverOverlaps' /\ Active' = Active
    BY TasksKept DEF RowKept
  <1>2. \A r \in Schedulers : plan'[r] = NoPlan \/ plan'[r] = plan[r]
    BY DEF SchedulerInv, ForbidNeverOverlaps, SchedulerTypeOK
  <1>3. OneHoldsTheRow'
    BY <1>2, NoPlanIsIdle DEF SchedulerInv, OneHoldsTheRow
  <1>3a. /\ schedule' = schedule /\ misfire' = misfire /\ overlap' = overlap
         /\ next_run' = next_run /\ version' = version /\ edits' = edits
    BY DEF RowKept
  <1>4. PlansAreOfTheRow'
    <2> SUFFICES ASSUME NEW r \in Schedulers, plan'[r] # NoPlan
                 PROVE  /\ plan'[r].version <= version'
                        /\ plan'[r].next \in 1..(MaxInstants + 1)
                        /\ edits' = 0 => plan'[r].overlap = overlap'
                        /\ plan'[r].version = version' =>
                             <<plan'[r].selected, plan'[r].skipped>>
                               \in SelectedAndSkipped(misfire, plan'[r].first, plan'[r].next - 1)
                        /\ plan'[r].stage = "locked" =>
                             plan'[r].version = version' /\ plan'[r].first = next_run'
      BY <1>3a DEF PlansAreOfTheRow, SelectedAndSkipped
    <2>1. plan'[r] = plan[r] /\ plan[r] # NoPlan
      BY <1>2
    <2> QED
      BY <1>3a, <2>1 DEF SchedulerInv, PlansAreOfTheRow
  <1>5. NoneUnseen'
    BY <1>1, <1>2, NoPlanIsIdle DEF SchedulerInv, NoneUnseen
  <1> QED
    BY <1>1, <1>3, <1>4, <1>5 DEF SchedulerInv

\* T1 plans for the row as it is.
LEMMA ClaimScheduleKeepsInv ==
  ASSUME SchedulerInv, NEW s \in Schedulers, ClaimSchedule(s)
  PROVE  SchedulerInv'
  <1>0. SchedulerTypeOK /\ MaxInstants \in Nat
    BY ScheduleConstantsAssumption DEF SchedulerInv, ForbidNeverOverlaps
  <1>1. PICK found \in SelectedAndSkipped(misfire, next_run, passed) :
          plan' = [plan EXCEPT ![s] =
            [stage |-> "planned", no |-> claim_no + 1, version |-> version,
             first |-> next_run, next |-> passed + 1, overlap |-> overlap,
             selected |-> found[1], skipped |-> found[2], waiting |-> {}, running |-> {}]]
    BY DEF ClaimSchedule
  <1>2. PICK p : p = [stage |-> "planned", no |-> claim_no + 1, version |-> version,
             first |-> next_run, next |-> passed + 1, overlap |-> overlap,
             selected |-> found[1], skipped |-> found[2], waiting |-> {}, running |-> {}]
    OBVIOUS
  <1>3. found = <<found[1], found[2]>> /\ found[1] \subseteq Instants /\ found[2] \subseteq Instants
    <2>1. next_run \in Nat \ {0} /\ passed \in 0..MaxInstants /\ next_run <= passed
      BY <1>0 DEF SchedulerTypeOK, ClaimSchedule
    <2>2. next_run..passed \subseteq Instants /\ passed \in Instants
      BY <1>0, <2>1 DEF Instants
    <2>3. misfire \in {"skip", "fire_once", "catch_up_limited"}
      BY <1>0, ScheduleConstantsAssumption DEF SchedulerTypeOK
    <2>4. CASE misfire = "fire_once"
      BY <2>2, <2>4 DEF SelectedAndSkipped
    <2>5. CASE misfire = "catch_up_limited"
      BY <2>2, <2>5 DEF SelectedAndSkipped
    <2>6. CASE misfire = "skip"
      <3>1. PICK g \in next_run..(passed + 1) : found = <<g..passed, {g - 1} \cap next_run..passed>>
        BY <2>6 DEF SelectedAndSkipped
      <3>2. g..passed \subseteq Instants
        BY <1>0, <2>1 DEF Instants
      <3> QED
        BY <2>2, <3>1, <3>2
    <2> QED
      BY <2>3, <2>4, <2>5, <2>6
  <1>4. /\ RowKept /\ UNCHANGED <<vars, fires, passed, edits, retried, s_faults>> /\ ~Locked
        /\ claim_owner' = s /\ claim_no' = claim_no + 1 /\ claim_left' = ClaimLease
    BY DEF ClaimSchedule, RowKept, ruleVars
  <1>5. passed + 1 \in 1..(MaxInstants + 1) /\ passed + 1 \in Nat /\ claim_no + 1 \in Nat
        /\ (passed + 1) - 1 = passed
    BY <1>0 DEF SchedulerTypeOK
  <1>6. p \in Plans
    <2>1. next_run \in Nat /\ version \in Nat /\ overlap \in Overlaps
      BY <1>0 DEF SchedulerTypeOK
    <2> QED
      BY <1>2, <1>3, <1>5, <2>1 DEF Plans
  <1>7. plan' = [plan EXCEPT ![s] = p]
    BY <1>1, <1>2
  <1>8. SchedulerTypeOK'
    <2>1. plan' \in [Schedulers -> Plans]
      BY <1>0, <1>6, <1>7 DEF SchedulerTypeOK
    <2>2. claim_left' \in 0..ClaimLease
      BY <1>4, ScheduleConstantsAssumption
    <2> QED
      BY <1>0, <1>4, <1>5, <2>1, <2>2 DEF SchedulerTypeOK, RowKept
  <1>9. StatusOK' /\ ForbidNeverOverlaps' /\ Active' = Active
    BY <1>4, <1>8, TasksKept DEF RowKept, vars
  <1>10. plan'[s] = p /\ \A r \in Schedulers : r # s => plan'[r] = plan[r]
    BY <1>0, <1>7 DEF SchedulerTypeOK
  <1>11. \A r \in Schedulers : plan'[r].stage # "locked"
    BY <1>2, <1>4, <1>10 DEF Locked
  <1>12. PlansAreOfTheRow'
    <2> SUFFICES ASSUME NEW r \in Schedulers, plan'[r] # NoPlan
                 PROVE  /\ plan'[r].version <= version'
                        /\ plan'[r].next \in 1..(MaxInstants + 1)
                        /\ edits' = 0 => plan'[r].overlap = overlap'
                        /\ plan'[r].version = version' =>
                             <<plan'[r].selected, plan'[r].skipped>>
                               \in SelectedAndSkipped(misfire', plan'[r].first, plan'[r].next - 1)
      BY <1>11 DEF PlansAreOfTheRow, SelectedAndSkipped
    <2>1. CASE r = s
      <3>1. /\ p.version = version /\ p.next = passed + 1 /\ p.overlap = overlap
            /\ p.selected = found[1] /\ p.skipped = found[2] /\ p.first = next_run
        BY <1>2
      <3>2. version \in Nat
        BY <1>0 DEF SchedulerTypeOK
      <3> QED
        BY <1>3, <1>4, <1>5, <1>10, <2>1, <3>1, <3>2 DEF RowKept
    <2>2. CASE r # s
      BY <1>4, <1>10, <2>2 DEF SchedulerInv, PlansAreOfTheRow, RowKept
    <2> QED
      BY <2>1, <2>2
  <1> QED
    BY <1>9, <1>11, <1>12 DEF SchedulerInv, OneHoldsTheRow, NoneUnseen

\* T2 holds the row from here on, and has seen every active task.
LEMMA BeginFinalizeKeepsInv ==
  ASSUME SchedulerInv, NEW s \in Schedulers, BeginFinalize(s)
  PROVE  SchedulerInv'
  <1>0. SchedulerTypeOK
    BY DEF SchedulerInv, ForbidNeverOverlaps
  <1>1. PICK p : p = [plan[s] EXCEPT !.stage = "locked",
                        !.waiting = {t \in Active : status[t] # "running"},
                        !.running = {t \in Active : status[t] = "running"}]
    OBVIOUS
  <1>2. /\ RowKept /\ UNCHANGED <<vars, claimVars, fires, passed, edits, retried, s_faults>>
        /\ ~Locked /\ PlanHolds(s) /\ plan[s].stage = "planned"
    BY DEF BeginFinalize, RowKept, ruleVars
  <1>3. plan[s] # NoPlan
    BY <1>2, NoPlanIsIdle
  <1>4. plan' = [plan EXCEPT ![s] = p]
    BY <1>0, <1>1 DEF BeginFinalize, SchedulerTypeOK
  <1>5. Active \subseteq Tasks
    BY DEF Active
  <1>6. /\ p \in Plans /\ p.stage = "locked" /\ p.version = plan[s].version
        /\ p.first = plan[s].first /\ p.next = plan[s].next /\ p.overlap = plan[s].overlap
        /\ p.selected = plan[s].selected /\ p.skipped = plan[s].skipped
        /\ p.waiting \cup p.running = Active
    BY <1>0, <1>1, <1>3, <1>5, PlanFields DEF Plans
  <1>7. SchedulerTypeOK'
    <2>1. plan' \in [Schedulers -> Plans]
      BY <1>0, <1>4, <1>6 DEF SchedulerTypeOK
    <2> QED
      BY <1>0, <1>2, <2>1 DEF SchedulerTypeOK, RowKept, claimVars
  <1>8. StatusOK' /\ ForbidNeverOverlaps' /\ Active' = Active
    BY <1>2, <1>7, TasksKept DEF RowKept, vars
  <1>9. plan'[s] = p /\ \A r \in Schedulers : r # s => plan'[r] = plan[r] /\ plan[r].stage # "locked"
    BY <1>0, <1>2, <1>4 DEF SchedulerTypeOK, Locked
  <1>10. OneHoldsTheRow'
    BY <1>9 DEF OneHoldsTheRow
  <1>11. PlansAreOfTheRow'
    <2> SUFFICES ASSUME NEW r \in Schedulers, plan'[r] # NoPlan
                 PROVE  /\ plan'[r].version <= version'
                        /\ plan'[r].next \in 1..(MaxInstants + 1)
                        /\ edits' = 0 => plan'[r].overlap = overlap'
                        /\ plan'[r].version = version' =>
                             <<plan'[r].selected, plan'[r].skipped>>
                               \in SelectedAndSkipped(misfire', plan'[r].first, plan'[r].next - 1)
                        /\ plan'[r].stage = "locked" =>
                             plan'[r].version = version' /\ plan'[r].first = next_run'
      BY DEF PlansAreOfTheRow, SelectedAndSkipped
    <2>1. CASE r = s
      BY <1>2, <1>3, <1>6, <1>9, <2>1 DEF SchedulerInv, PlansAreOfTheRow, RowKept, PlanHolds
    <2>2. CASE r # s
      BY <1>2, <1>9, <2>2 DEF SchedulerInv, PlansAreOfTheRow, RowKept
    <2> QED
      BY <2>1, <2>2
  <1>12. NoneUnseen'
    BY <1>2, <1>6, <1>8, <1>9 DEF NoneUnseen
  <1> QED
    BY <1>8, <1>10, <1>11, <1>12 DEF SchedulerInv

\* What T2 writes of the fires and enqueues.
LEMMA EnqueuedIs ==
  ASSUME NEW s \in Schedulers
  PROVE  /\ Enqueued(s) \subseteq Unfired(plan[s].selected)
         /\ plan[s].overlap = "forbid" =>
              /\ plan[s].waiting \cup plan[s].running # {} => Enqueued(s) = {}
  BY DEF Enqueued, EnqueuedByForbid, Earliest

\* Under "forbid" a plan enqueues one task at most.
LEMMA ForbidEnqueuesOne ==
  ASSUME NEW s \in Schedulers, plan[s].overlap = "forbid", plan[s].selected \subseteq Instants,
         NEW i \in Enqueued(s), NEW j \in Enqueued(s)
  PROVE  i = j
  <1>1. i \in Earliest(Unfired(plan[s].selected)) /\ j \in Earliest(Unfired(plan[s].selected))
    BY DEF Enqueued, EnqueuedByForbid
  <1>2. i <= j /\ j <= i /\ i \in Int /\ j \in Int
    BY <1>1 DEF Earliest, Unfired, Instants
  <1> QED
    BY <1>2

\* T2 commits.
LEMMA CommitFinalizeKeepsInv ==
  ASSUME SchedulerInv, NEW s \in Schedulers, CommitFinalize(s)
  PROVE  SchedulerInv'
  <1>0. SchedulerTypeOK /\ StatusOK
    BY DEF SchedulerInv, ForbidNeverOverlaps
  <1>1. PICK p : p = plan[s]
    OBVIOUS
  <1>2. PICK new : new = {CronTask[i] : i \in Enqueued(s)}
    OBVIOUS
  <1>3. PICK kept : kept = {CronTask[i] : i \in Latest(Enqueued(s))}
    OBVIOUS
  <1>4. PICK stopped : stopped = IF p.overlap = "replace" /\ Enqueued(s) # {}
                                 THEN (p.waiting \cup p.running \cup new) \ kept ELSE {}
    OBVIOUS
  <1>5. /\ status' = [t \in Tasks |-> IF t \in stopped \ p.running THEN "cancelled"
                                      ELSE IF t \in new THEN "queued" ELSE status[t]]
        /\ fires' = [i \in Instants |->
             IF i \in Unfired(p.skipped) THEN "skipped_misfire"
             ELSE IF i \in Enqueued(s) THEN "enqueued"
             ELSE IF i \in Unfired(p.selected) THEN "skipped_overlap"
             ELSE fires[i]]
        /\ p.stage = "locked" /\ next_run' = p.next /\ version' = version + 1
        /\ claim_owner' = NoScheduler /\ claim_left' = 0
        /\ plan' = [plan EXCEPT ![s] = NoPlan]
        /\ UNCHANGED <<schedule, misfire, overlap, claim_no, passed, edits, retried, s_faults>>
    BY <1>1, <1>2, <1>3, <1>4 DEF CommitFinalize
  <1>6. p # NoPlan
    BY <1>5, NoPlanIsIdle
  <1>7. /\ p.next \in 1..(MaxInstants + 1) /\ p.version = version
        /\ edits = 0 => p.overlap = overlap
    BY <1>1, <1>5, <1>6 DEF SchedulerInv, PlansAreOfTheRow
  <1>8. SchedulerTypeOK'
    <2>1. plan' \in [Schedulers -> Plans]
      BY <1>0, <1>5 DEF SchedulerTypeOK, Plans
    <2>2. fires' \in [Instants -> FireStates]
      BY <1>0, <1>5 DEF SchedulerTypeOK, FireStates
    <2>3. version + 1 \in Nat /\ 0 \in 0..ClaimLease
      BY <1>0, ScheduleConstantsAssumption DEF SchedulerTypeOK
    <2> QED
      BY <1>0, <1>5, <1>7, <2>1, <2>2, <2>3 DEF SchedulerTypeOK
  <1>9. StatusOK'
    BY <1>0, <1>5 DEF StatusOK, Statuses, Waiting, Closed
  <1>10. \A r \in Schedulers : r # s => plan[r].stage # "locked"
    BY <1>1, <1>5 DEF SchedulerInv, OneHoldsTheRow
  <1>11. plan'[s] = NoPlan /\ \A r \in Schedulers : r # s => plan'[r] = plan[r]
    BY <1>0, <1>5 DEF SchedulerTypeOK
  <1>12. \A r \in Schedulers : plan'[r].stage # "locked"
    BY <1>10, <1>11, NoPlanIsIdle
  <1>13. PlansAreOfTheRow'
    <2> SUFFICES ASSUME NEW r \in Schedulers, plan'[r] # NoPlan
                 PROVE  /\ plan'[r].version <= version' /\ plan'[r].version # version'
                        /\ plan'[r].next \in 1..(MaxInstants + 1)
                        /\ edits' = 0 => plan'[r].overlap = overlap'
      BY <1>12 DEF PlansAreOfTheRow, SelectedAndSkipped
    <2>1. plan'[r] = plan[r] /\ plan[r] # NoPlan
      BY <1>11
    <2>2. plan[r].version <= version /\ plan[r].version \in Nat /\ version \in Nat
      BY <1>0, <2>1, PlanFields DEF SchedulerInv, PlansAreOfTheRow, SchedulerTypeOK
    <2>3. plan[r].next \in 1..(MaxInstants + 1) /\ (edits = 0 => plan[r].overlap = overlap)
      BY <2>1 DEF SchedulerInv, PlansAreOfTheRow
    <2>4. version' = version + 1 /\ edits' = edits /\ overlap' = overlap
      BY <1>5
    <2>5. PICK v : v = plan[r].version
      OBVIOUS
    <2>6. v <= version + 1 /\ v # version + 1
      BY <2>2, <2>5
    <2> QED
      BY <2>1, <2>3, <2>4, <2>5, <2>6
  <1>14. ForbidNeverOverlaps'
    <2> SUFFICES ASSUME edits = 0, overlap = "forbid", NEW i \in Instants, NEW j \in Instants,
                        i # j, CronTask[i] \in Active', CronTask[j] \in Active'
                 PROVE  CronTask[i] \in retried \/ CronTask[j] \in retried
      BY <1>5, <1>8 DEF ForbidNeverOverlaps
    <2>1. p.overlap = "forbid" /\ stopped = {}
      BY <1>4, <1>7
    <2>2. p.selected \subseteq Instants
      BY <1>0, <1>1, <1>6, PlanFields
    <2>3. Enqueued(s) \subseteq Instants
      BY <1>1, <2>2, EnqueuedIs DEF Unfired
    <2>4. \A k \in Instants : CronTask[k] \in new <=> k \in Enqueued(s)
      BY <1>2, <2>3, ScheduleConstantsAssumption
    <2>5. \A k \in Instants : CronTask[k] \in Active' => k \in Enqueued(s) \/ CronTask[k] \in Active
      BY <1>5, <2>1, <2>4 DEF Active
    <2>6. CASE p.waiting \cup p.running # {}
      <3>1. Enqueued(s) = {}
        BY <1>1, <2>1, <2>6, EnqueuedIs
      <3> QED
        BY <2>5, <3>1 DEF SchedulerInv, ForbidNeverOverlaps
    <2>7. CASE p.waiting \cup p.running = {}
      <3>1. \A k \in Instants : CronTask[k] \in Active => CronTask[k] \in retried
        BY <1>1, <1>5, <2>7 DEF SchedulerInv, NoneUnseen
      <3>2. ~(i \in Enqueued(s) /\ j \in Enqueued(s))
        BY <1>1, <2>1, <2>2, ForbidEnqueuesOne
      <3> QED
        BY <2>5, <3>1, <3>2
    <2> QED
      BY <2>6, <2>7
  <1> QED
    BY <1>9, <1>12, <1>13, <1>14 DEF SchedulerInv, OneHoldsTheRow, NoneUnseen

\* The row is given back, or left to another claim.
LEMMA ReleaseTyped ==
  ASSUME SchedulerTypeOK, NEW s \in Schedulers, Release(s)
  PROVE  /\ claim_owner' \in Schedulers \cup {NoScheduler}
         /\ claim_no' \in Nat /\ claim_left' \in 0..ClaimLease
  BY ScheduleConstantsAssumption DEF SchedulerTypeOK, Release, claimVars

\* The other ways a plan ends.
LEMMA SchedulerGivesUpKeepsInv ==
  ASSUME SchedulerInv, NEW s \in Schedulers,
         FinalizeRefused(s) \/ SchedulerCrash(s) \/ PlanningFails(s)
  PROVE  SchedulerInv'
  <1>0. SchedulerTypeOK
    BY DEF SchedulerInv, ForbidNeverOverlaps
  <1>1. /\ plan' = [plan EXCEPT ![s] = NoPlan] /\ UNCHANGED <<status, fires, passed, retried>>
        /\ Release(s) \/ UNCHANGED claimVars
        /\ UNCHANGED s_faults \/ ScheduleFault
    BY DEF FinalizeRefused, SchedulerCrash, PlanningFails, vars
  <1>2. RowKept
    BY DEF FinalizeRefused, SchedulerCrash, PlanningFails, RowKept, ruleVars
  <1>3. s_faults' \in 0..MaxFaults
    BY <1>0, <1>1, ScheduleConstantsAssumption DEF SchedulerTypeOK, ScheduleFault
  <1>4. /\ claim_owner' \in Schedulers \cup {NoScheduler}
        /\ claim_no' \in Nat /\ claim_left' \in 0..ClaimLease
    BY <1>0, <1>1, ReleaseTyped DEF SchedulerTypeOK, claimVars
  <1>5. plan' \in [Schedulers -> Plans]
    BY <1>0, <1>1 DEF SchedulerTypeOK, Plans
  <1>6. SchedulerTypeOK'
    BY <1>0, <1>1, <1>2, <1>3, <1>4, <1>5 DEF SchedulerTypeOK, RowKept
  <1> QED
    BY <1>1, <1>2, <1>6, DropKeepsInv

-----------------------------------------------------------------------------
\* An edit waits for a T2 and outdates every plan that is not one yet.
LEMMA UpdateScheduleKeepsInv ==
  ASSUME SchedulerInv,
         NEW new_schedule \in {"enabled", "disabled"}, NEW new_misfire \in Misfires,
         NEW new_overlap \in Overlaps, NEW rule_changed \in BOOLEAN,
         NEW app_now \in {n \in 0..MaxInstants : n - passed \in (-MaxSkew)..MaxSkew},
         UpdateSchedule(new_schedule, new_misfire, new_overlap, rule_changed, app_now)
  PROVE  SchedulerInv'
  <1>0. SchedulerTypeOK /\ MaxInstants \in Nat /\ MaxEdits \in Nat /\ ClaimLease \in Nat
    BY ScheduleConstantsAssumption DEF SchedulerInv, ForbidNeverOverlaps
  <1>1. /\ ~Locked /\ edits < MaxEdits /\ edits' = edits + 1 /\ version' = version + 1
        /\ schedule' = new_schedule /\ misfire' = new_misfire /\ overlap' = new_overlap
        /\ next_run' \in {app_now + 1, next_run}
        /\ claim_owner' = NoScheduler /\ claim_left' = 0
        /\ UNCHANGED <<status, claim_no, fires, passed, plan, retried, s_faults>>
    BY DEF UpdateSchedule, vars
  <1>2. edits' \in 0..MaxEdits /\ edits' # 0 /\ version' \in Nat
    BY <1>0, <1>1 DEF SchedulerTypeOK
  <1>3. next_run' \in 1..(MaxInstants + 1) /\ claim_left' \in 0..ClaimLease
    BY <1>0, <1>1 DEF SchedulerTypeOK
  <1>4. SchedulerTypeOK'
    BY <1>0, <1>1, <1>2, <1>3 DEF SchedulerTypeOK
  <1>5. StatusOK' /\ ForbidNeverOverlaps' /\ Active' = Active
    BY <1>1, <1>2, <1>4, TasksKept
  <1>6. \A r \in Schedulers : plan'[r].stage # "locked"
    BY <1>1 DEF Locked
  <1>7. PlansAreOfTheRow'
    <2> SUFFICES ASSUME NEW r \in Schedulers, plan'[r] # NoPlan
                 PROVE  /\ plan'[r].version <= version' /\ plan'[r].version # version'
                        /\ plan'[r].next \in 1..(MaxInstants + 1)
      BY <1>2, <1>6 DEF PlansAreOfTheRow, SelectedAndSkipped
    <2>1. plan[r].version <= version /\ plan[r].version \in Nat /\ version \in Nat
      BY <1>0, <1>1, PlanFields DEF SchedulerInv, PlansAreOfTheRow, SchedulerTypeOK
    <2>2. plan'[r] = plan[r] /\ version' = version + 1
      BY <1>1
    <2>3. plan[r].next \in 1..(MaxInstants + 1)
      BY <2>2 DEF SchedulerInv, PlansAreOfTheRow
    <2>4. PICK v : v = plan[r].version
      OBVIOUS
    <2>5. v <= version + 1 /\ v # version + 1
      BY <2>1, <2>4
    <2> QED
      BY <2>2, <2>3, <2>4, <2>5
  <1> QED
    BY <1>5, <1>6, <1>7 DEF SchedulerInv, OneHoldsTheRow, NoneUnseen

LEMMA DeleteScheduleKeepsInv == SchedulerInv /\ DeleteSchedule => SchedulerInv'
  <1> SUFFICES ASSUME SchedulerInv, DeleteSchedule PROVE SchedulerInv'
    OBVIOUS
  <1>0. SchedulerTypeOK /\ MaxEdits \in Nat
    BY ScheduleConstantsAssumption DEF SchedulerInv, ForbidNeverOverlaps
  <1>1. /\ ~Locked /\ edits < MaxEdits /\ edits' = edits + 1 /\ schedule' = "deleted"
        /\ UNCHANGED <<status, misfire, overlap, next_run, version, claimVars, fires, passed,
                       plan, retried, s_faults>>
    BY DEF DeleteSchedule, vars
  <1>2. edits' \in 0..MaxEdits /\ edits' # 0
    BY <1>0, <1>1 DEF SchedulerTypeOK
  <1>3. SchedulerTypeOK'
    BY <1>0, <1>1, <1>2 DEF SchedulerTypeOK, claimVars
  <1>4. StatusOK' /\ ForbidNeverOverlaps' /\ Active' = Active
    BY <1>1, <1>2, <1>3, TasksKept
  <1>5. \A r \in Schedulers : plan'[r].stage # "locked"
    BY <1>1 DEF Locked
  <1>6. PlansAreOfTheRow'
    BY <1>1, <1>2, <1>5 DEF SchedulerInv, PlansAreOfTheRow, SelectedAndSkipped
  <1> QED
    BY <1>4, <1>5, <1>6 DEF SchedulerInv, OneHoldsTheRow, NoneUnseen

\* A manual run is no task of an instant.
LEMMA RunNowKeepsInv ==
  ASSUME SchedulerInv, NEW t \in ManualTasks, RunNow(t)
  PROVE  SchedulerInv'
  <1>0. SchedulerTypeOK /\ StatusOK
    BY DEF SchedulerInv, ForbidNeverOverlaps
  <1>1. /\ RowKept /\ UNCHANGED <<claimVars, fires, passed, plan, retried, s_faults>>
        /\ ~Locked /\ status' = [status EXCEPT ![t] = "queued"]
    BY DEF RunNow, Enqueue, scheduleVars, ruleVars, RowKept
  <1>2. t \in Tasks /\ \A i \in Instants : CronTask[i] \in Tasks /\ CronTask[i] # t
    BY ScheduleConstantsAssumption DEF ManualTasks
  <1>3. StatusOK' /\ \A i \in Instants : CronTask[i] \in Active' => CronTask[i] \in Active
    BY <1>0, <1>1, <1>2 DEF StatusOK, Active, Statuses, Waiting
  <1>4. SchedulerTypeOK'
    BY <1>0, <1>1 DEF SchedulerTypeOK, RowKept, claimVars
  <1>5. ForbidNeverOverlaps'
    BY <1>1, <1>3, <1>4 DEF SchedulerInv, ForbidNeverOverlaps, RowKept
  <1>6. OneHoldsTheRow' /\ PlansAreOfTheRow'
    BY <1>1 DEF SchedulerInv, OneHoldsTheRow, PlansAreOfTheRow, RowKept, SelectedAndSkipped
  <1>7. NoneUnseen'
    BY <1>1 DEF NoneUnseen, Locked
  <1> QED
    BY <1>3, <1>5, <1>6, <1>7 DEF SchedulerInv

\* Time passes.
LEMMA SchedulerTickKeepsInv == SchedulerInv /\ SchedulerTick => SchedulerInv'
  <1> SUFFICES ASSUME SchedulerInv, SchedulerTick PROVE SchedulerInv'
    OBVIOUS
  <1>0. SchedulerTypeOK
    BY DEF SchedulerInv, ForbidNeverOverlaps
  <1>1. /\ RowKept /\ UNCHANGED <<status, claim_owner, claim_no, fires, plan, retried>>
        /\ claim_left' = ClaimSooner
        /\ passed' \in {passed, passed + 1} /\ passed' <= MaxInstants
        /\ s_faults' = s_faults + Cardinality(ClaimsAboutToLapse) /\ s_faults' <= MaxFaults
    BY DEF SchedulerTick, Tick, RowKept, ruleVars
  <1>2. Cardinality(ClaimsAboutToLapse) \in Nat
    <2>1. ClaimsAboutToLapse \subseteq Schedulers
      BY DEF ClaimsAboutToLapse
    <2>2. IsFiniteSet(ClaimsAboutToLapse)
      BY <2>1, ScheduleConstantsAssumption, FS_Subset
    <2> QED
      BY <2>2, FS_CardinalityType
  <1>3. s_faults' \in 0..MaxFaults /\ passed' \in 0..MaxInstants /\ claim_left' \in 0..ClaimLease
    <2>1. s_faults \in Nat /\ MaxFaults \in Nat
      BY <1>0, ScheduleConstantsAssumption DEF SchedulerTypeOK
    <2>2. s_faults' \in 0..MaxFaults
      BY <1>1, <1>2, <2>1
    <2>3. passed' \in 0..MaxInstants /\ claim_left' \in 0..ClaimLease
      BY <1>0, <1>1, ScheduleConstantsAssumption DEF SchedulerTypeOK, ClaimSooner
    <2> QED
      BY <2>2, <2>3
  <1>4. SchedulerTypeOK'
    BY <1>0, <1>1, <1>3 DEF SchedulerTypeOK, RowKept
  <1>5. StatusOK' /\ ForbidNeverOverlaps' /\ Active' = Active
    BY <1>1, <1>4, TasksKept DEF RowKept
  <1>6. OneHoldsTheRow' /\ PlansAreOfTheRow' /\ NoneUnseen'
    BY <1>1, <1>5 DEF SchedulerInv, OneHoldsTheRow, PlansAreOfTheRow, RowKept, SelectedAndSkipped,
                      NoneUnseen
  <1> QED
    BY <1>5, <1>6 DEF SchedulerInv

LEMMA SchedulerNextKeepsInv == SchedulerInv /\ [SchedulerNext]_schedulerVars => SchedulerInv'
  <1> SUFFICES ASSUME SchedulerInv, [SchedulerNext]_schedulerVars PROVE SchedulerInv'
    OBVIOUS
  <1>1. CASE TaskStep
    BY <1>1, TaskStepKeepsInv
  <1>2. CASE AdministratorStep
    BY <1>2, UpdateScheduleKeepsInv, DeleteScheduleKeepsInv, RunNowKeepsInv DEF AdministratorStep
  <1>3. ASSUME NEW s \in Schedulers, SchedulerStep(s) \/ SchedulerCrash(s) \/ PlanningFails(s)
        PROVE  SchedulerInv'
    BY <1>3, ClaimScheduleKeepsInv, BeginFinalizeKeepsInv, CommitFinalizeKeepsInv,
       SchedulerGivesUpKeepsInv DEF SchedulerStep
  <1>4. CASE SchedulerTick
    BY <1>4, SchedulerTickKeepsInv
  <1>5. CASE UNCHANGED schedulerVars
    <2>1. RowKept /\ UNCHANGED <<status, claimVars, fires, passed, plan, retried, s_faults>>
      BY <1>5 DEF schedulerVars, vars, scheduleVars, ruleVars, RowKept
    <2>2. SchedulerTypeOK'
      BY <2>1 DEF SchedulerInv, ForbidNeverOverlaps, SchedulerTypeOK, RowKept, claimVars
    <2>3. StatusOK' /\ ForbidNeverOverlaps' /\ Active' = Active
      BY <2>1, <2>2, TasksKept DEF RowKept
    <2> QED
      BY <2>1, <2>3 DEF SchedulerInv, OneHoldsTheRow, PlansAreOfTheRow, RowKept,
                        SelectedAndSkipped, NoneUnseen
  <1> QED
    BY <1>1, <1>2, <1>3, <1>4, <1>5 DEF SchedulerNext

\* The invariant, whatever schedulers, administrators, clients and workers do.
THEOREM SchedulerInvariance == SchedulerSpec => []SchedulerInv
  BY SchedulerInitInv, SchedulerNextKeepsInv, PTL DEF SchedulerSpec

\* A schedule that nobody has edited never has two unfinished tasks by its
\* instants under "forbid", but for tasks brought back by hand, although T2
\* reads the active tasks without a lock on them (_finalize_schedule_claim).
THEOREM ForbidHolds == SchedulerSpec => []ForbidNeverOverlaps
  <1>1. SchedulerInv => ForbidNeverOverlaps
    BY DEF SchedulerInv
  <1> QED
    BY <1>1, SchedulerInvariance, PTL

-----------------------------------------------------------------------------
\* Only the commit of a T2 writes fires, and only edits or such a commit move
\* the schedule on.
LEMMA FiresMoveAtCommit ==
  ASSUME [SchedulerNext]_schedulerVars, \A s \in Schedulers : ~CommitFinalize(s)
  PROVE  fires' = fires /\ (next_run' = next_run \/ edits' = edits + 1)
  <1>1. CASE TaskStep
    BY <1>1 DEF TaskStep, ruleVars
  <1>2. CASE AdministratorStep
    BY <1>2 DEF AdministratorStep, UpdateSchedule, DeleteSchedule, RunNow, scheduleVars, ruleVars
  <1>3. ASSUME NEW s \in Schedulers, SchedulerStep(s) \/ SchedulerCrash(s) \/ PlanningFails(s)
        PROVE  fires' = fires /\ next_run' = next_run
    BY <1>3 DEF SchedulerStep, ClaimSchedule, BeginFinalize, FinalizeRefused, SchedulerCrash,
                PlanningFails, ruleVars
  <1>4. CASE SchedulerTick
    BY <1>4 DEF SchedulerTick, ruleVars
  <1>5. CASE UNCHANGED schedulerVars
    BY <1>5 DEF schedulerVars, scheduleVars, ruleVars
  <1> QED
    BY <1>1, <1>2, <1>3, <1>4, <1>5 DEF SchedulerNext

\* The instants a plan of _cron_due_plan accounts for.
LEMMA BacklogIsPlanned ==
  ASSUME NEW policy \in Misfires, NEW first \in Nat, NEW next \in Nat,
         NEW found \in SelectedAndSkipped(policy, first, next - 1),
         NEW i \in first..(next - 1),
         i >= next - (IF policy = "catch_up_limited" THEN CatchUpLimit ELSE 1)
  PROVE  i \in found[1] \cup found[2]
  <1>1. policy \in {"skip", "fire_once", "catch_up_limited"} /\ CatchUpLimit \in Nat
    BY ScheduleConstantsAssumption
  <1>2. CASE policy = "fire_once"
    <2>1. found[1] = {next - 1}
      BY <1>2 DEF SelectedAndSkipped
    <2> QED
      BY <1>2, <2>1
  <1>3. CASE policy = "catch_up_limited"
    <2>1. found[1] = {n \in first..(next - 1) : n > (next - 1) - CatchUpLimit}
      BY <1>3 DEF SelectedAndSkipped
    <2> QED
      BY <1>1, <1>3, <2>1
  <1>4. CASE policy = "skip"
    <2>1. PICK g \in first..((next - 1) + 1) :
            found = <<g..(next - 1), {g - 1} \cap first..(next - 1)>>
      BY <1>4 DEF SelectedAndSkipped
    <2>2. i = next - 1
      BY <1>4
    <2>3. g <= i \/ g - 1 = i
      BY <2>1, <2>2
    <2> QED
      BY <2>1, <2>2, <2>3
  <1> QED
    BY <1>1, <1>2, <1>3, <1>4

\* The step in which the fates are decided.
LEMMA FateStep ==
  ASSUME SchedulerInv, [SchedulerNext]_schedulerVars
  PROVE  /\ \A i \in Instants : fires[i] # "none" => fires'[i] = fires[i]
         /\ next_run' > next_run /\ edits' = edits =>
              LET kept == IF misfire = "catch_up_limited" THEN CatchUpLimit ELSE 1 IN
              \A i \in next_run..(next_run' - 1) :
                i >= next_run' - kept => fires'[i] # "none"
  <1>0. SchedulerTypeOK
    BY DEF SchedulerInv, ForbidNeverOverlaps
  <1>1. CASE \A s \in Schedulers : ~CommitFinalize(s)
    <2>1. fires' = fires /\ (next_run' = next_run \/ edits' = edits + 1)
      BY <1>1, FiresMoveAtCommit
    <2>2. next_run \in Nat /\ edits \in Nat
      BY <1>0 DEF SchedulerTypeOK
    <2> QED
      BY <2>1, <2>2
  <1>2. ASSUME NEW s \in Schedulers, CommitFinalize(s)
        PROVE  /\ \A i \in Instants : fires[i] # "none" => fires'[i] = fires[i]
               /\ \A i \in next_run..(next_run' - 1) :
                    i >= next_run' - (IF misfire = "catch_up_limited" THEN CatchUpLimit ELSE 1)
                      => fires'[i] # "none"
    <2>1. PICK p : p = plan[s]
      OBVIOUS
    <2>2. /\ fires' = [i \in Instants |->
               IF i \in Unfired(p.skipped) THEN "skipped_misfire"
               ELSE IF i \in Enqueued(s) THEN "enqueued"
               ELSE IF i \in Unfired(p.selected) THEN "skipped_overlap"
               ELSE fires[i]]
          /\ p.stage = "locked" /\ next_run' = p.next
      BY <1>2, <2>1 DEF CommitFinalize
    <2>3. p # NoPlan
      BY <2>2, NoPlanIsIdle
    <2>4. /\ p.selected \subseteq Instants /\ p.skipped \subseteq Instants
          /\ p.first \in Nat /\ p.next \in Nat
      BY <1>0, <2>1, <2>3, PlanFields
    <2>5. /\ p.version = version /\ p.first = next_run
          /\ <<p.selected, p.skipped>> \in SelectedAndSkipped(misfire, p.first, p.next - 1)
      BY <2>1, <2>2, <2>3 DEF SchedulerInv, PlansAreOfTheRow
    <2>6. Enqueued(s) \subseteq Unfired(p.selected)
      BY <2>1, EnqueuedIs
    <2>7. \A i \in Instants : fires[i] # "none" => fires'[i] = fires[i]
      BY <2>2, <2>6 DEF Unfired
    <2>8. \A i \in p.selected \cup p.skipped : fires'[i] # "none"
      BY <2>2, <2>4, <2>6 DEF Unfired
    <2>9. ASSUME NEW i \in next_run..(next_run' - 1),
                 i >= next_run' - (IF misfire = "catch_up_limited" THEN CatchUpLimit ELSE 1)
          PROVE  fires'[i] # "none"
      <3>1. misfire \in Misfires
        BY <1>0 DEF SchedulerTypeOK
      <3>2. PICK found : found = <<p.selected, p.skipped>>
        OBVIOUS
      <3>3. i \in found[1] \cup found[2]
        BY <2>2, <2>4, <2>5, <2>9, <3>1, <3>2, BacklogIsPlanned
      <3> QED
        BY <2>8, <3>2, <3>3
    <2> QED
      BY <2>7, <2>9
  <1> QED
    BY <1>1, <1>2

\* What became of an instant is decided once, and the instants that a move of
\* the schedule leaves behind are accounted for (schedule_fires).
THEOREM FatesAreDecided == SchedulerSpec => EveryInstantHasOneFate
  <1>1. SchedulerInv /\ [SchedulerNext]_schedulerVars =>
          [/\ \A i \in Instants : fires[i] # "none" => fires'[i] = fires[i]
           /\ next_run' > next_run /\ edits' = edits =>
                LET kept == IF misfire = "catch_up_limited" THEN CatchUpLimit ELSE 1 IN
                \A i \in next_run..(next_run' - 1) :
                  i >= next_run' - kept => fires'[i] # "none"]_schedulerVars
    BY FateStep
  <1> QED
    BY <1>1, SchedulerInvariance, PTL DEF SchedulerSpec, EveryInstantHasOneFate

-----------------------------------------------------------------------------
(***************************************************************************)
(* The queue under a schedule.  As long as nobody chooses "replace", a T2  *)
(* only inserts rows, and the tasks of several instants at once: the       *)
(* queue's promises survive that because an instant without a fire has no  *)
(* task yet.                                                               *)
(***************************************************************************)
UnfiredIsAbsent == \A i \in Instants : fires[i] = "none" => status[CronTask[i]] = "absent"
NoPlanReplaces == \A s \in Schedulers : plan[s] # NoPlan => plan[s].overlap # "replace"

QueueInv == IInv /\ UnfiredIsAbsent /\ NoPlanReplaces

\* What a T2 without "replace" does to the queue.
EnqueueAll(new) ==
  /\ \A t \in new : status[t] = "absent"
  /\ status' = [t \in Tasks |-> IF t \in new THEN "queued" ELSE status[t]]
  /\ Insertable(new) /\ Insert(new)
  /\ UNCHANGED <<attempts, cancel_requested, wait_left, leaseVars, result, grants, settled>>

\* T2 enqueues the tasks of instants that have no fire, and each of them gets one.
LEMMA CommitEnqueuesAll ==
  ASSUME SchedulerInv, QueueInv, NEW s \in Schedulers, CommitFinalize(s)
  PROVE  \E new \in SUBSET Tasks :
           /\ EnqueueAll(new)
           /\ \A i \in Instants : fires'[i] = "none" => fires[i] = "none" /\ CronTask[i] \notin new
  <1>1. PICK new : new = {CronTask[i] : i \in Enqueued(s)}
    OBVIOUS
  <1>2. plan[s].stage = "locked" /\ plan[s] # NoPlan
    BY NoPlanIsIdle DEF CommitFinalize
  <1>3. plan[s].overlap # "replace"
    BY <1>2 DEF QueueInv, NoPlanReplaces
  <1>4. Enqueued(s) \subseteq Unfired(plan[s].selected) /\ plan[s].selected \subseteq Instants
    BY <1>2, EnqueuedIs, PlanFields DEF SchedulerInv, ForbidNeverOverlaps
  <1>5. \A i \in Enqueued(s) : i \in Instants /\ fires[i] = "none" /\ CronTask[i] \in Tasks
    BY <1>4, ScheduleConstantsAssumption DEF Unfired
  <1>6. new \in SUBSET Tasks /\ \A t \in new : status[t] = "absent"
    BY <1>1, <1>5 DEF QueueInv, UnfiredIsAbsent
  <1>7. /\ status' = [t \in Tasks |-> IF t \in {} \ plan[s].running THEN "cancelled"
                                      ELSE IF t \in new THEN "queued" ELSE status[t]]
        /\ cancel_requested' = [t \in Tasks |-> t \in {} \/ cancel_requested[t]]
        /\ Insertable(new) /\ Insert(new)
        /\ UNCHANGED <<attempts, wait_left, leaseVars, result, grants, settled>>
    BY <1>1, <1>3 DEF CommitFinalize
  <1>8. status' = [t \in Tasks |-> IF t \in new THEN "queued" ELSE status[t]]
    BY <1>7
  <1>9. cancel_requested' = cancel_requested
    <2>1. cancel_requested \in [Tasks -> BOOLEAN]
      BY DEF QueueInv, IInv, TypeOK
    <2> QED
      BY <1>7, <2>1, Zenon
  <1>10. ASSUME NEW i \in Instants, fires'[i] = "none"
         PROVE  fires[i] = "none" /\ CronTask[i] \notin new
    <2>1. i \notin Enqueued(s) /\ fires[i] = "none"
      BY <1>10 DEF CommitFinalize
    <2>2. \A j \in Instants : CronTask[i] = CronTask[j] => i = j
      BY ScheduleConstantsAssumption
    <2> QED
      BY <1>1, <1>5, <2>1, <2>2
  <1>11. EnqueueAll(new)
    BY <1>6, <1>7, <1>8, <1>9 DEF EnqueueAll
  <1> QED
    BY <1>6, <1>10, <1>11

\* Every other step moves the queue as the queue moves itself, and enqueues no
\* task of an instant.
LEMMA OtherStepsAreOfTheQueue ==
  ASSUME [SchedulerNext]_schedulerVars, ~ \E s \in Schedulers : CommitFinalize(s)
  PROVE  [Next]_vars
  <1>1. CASE TaskStep
    BY <1>1 DEF TaskStep, Next, ClientStep
  <1>2. CASE AdministratorStep
    <2>1. CASE UNCHANGED vars
      BY <2>1
    <2>2. CASE \E t \in ManualTasks : RunNow(t)
      BY <2>2 DEF RunNow, Next, ClientStep, ManualTasks
    <2> QED
      BY <1>2, <2>1, <2>2 DEF AdministratorStep, UpdateSchedule, DeleteSchedule
  <1>3. ASSUME NEW s \in Schedulers, SchedulerStep(s) \/ SchedulerCrash(s) \/ PlanningFails(s)
        PROVE  UNCHANGED vars
    BY <1>3 DEF SchedulerStep, SchedulerCrash, PlanningFails, ClaimSchedule, BeginFinalize,
                FinalizeRefused
  <1>4. CASE SchedulerTick
    BY <1>4 DEF SchedulerTick, Next
  <1>5. CASE UNCHANGED schedulerVars
    BY <1>5 DEF schedulerVars
  <1> QED
    BY <1>1, <1>2, <1>3, <1>4, <1>5 DEF SchedulerNext

LEMMA EnqueueAllKeepsIInv ==
  ASSUME IInv, NEW new \in SUBSET Tasks, EnqueueAll(new)
  PROVE  IInv'
  <1> USE DEF IInv, TypeOK, EnqueueAll, Insertable, Insert, Wakeup,
              leaseVars, Statuses, Waiting, Closed
  <1>1. TypeOK'
    OBVIOUS
  <1>2. LeaseShape'
    BY DEF LeaseShape
  <1>3. Generations'
    BY DEF Generations
  <1>4. AttemptBudget'
    BY DEF AttemptBudget
  <1>5. WaitingIsClaimable'
    <2>1. \A t \in new : attempts[t] = 0 /\ ~cancel_requested[t]
      BY DEF AttemptBudget, CancelIsKept
    <2> QED
      BY <2>1, MaxAttemptsPositive DEF WaitingIsClaimable
  <1>6. CancelIsKept'
    BY DEF CancelIsKept
  <1>7. ResultOfLatestClaim'
    BY DEF ResultOfLatestClaim
  <1>8. GrantBounds'
    BY DEF GrantBounds
  <1> QED
    BY <1>1, <1>2, <1>3, <1>4, <1>5, <1>6, <1>7, <1>8

LEMMA EnqueueAllOfOne ==
  ASSUME IInv, NEW new \in SUBSET Tasks, EnqueueAll(new), NEW t \in Tasks
  PROVE  KeptOrSettled(t) /\ JobStep(t)
  <1>1. /\ attempts'[t] = attempts[t] /\ lease_left'[t] = lease_left[t] /\ result'[t] = result[t]
        /\ lease_owner'[t] = lease_owner[t] /\ lease_token'[t] = lease_token[t]
    BY DEF EnqueueAll, leaseVars
  <1>2. CASE t \in new
    <2>1. status[t] = "absent" /\ status'[t] = "queued"
      BY <1>2 DEF EnqueueAll
    <2>2. Phase(status[t]) = "absent" /\ Phase(status'[t]) = "open"
      BY <2>1, PhaseOf DEF Waiting
    <2>3. Job(t)!Submit
      BY <1>1, <2>2 DEF Job!Submit
    <2> QED
      BY <2>1, <2>3 DEF JobStep, Job!Next, KeptOrSettled
  <1>3. CASE t \notin new
    <2>1. status'[t] = status[t]
      BY <1>3 DEF EnqueueAll
    <2> QED
      BY <1>1, <2>1, JobStutter DEF KeptOrSettled
  <1> QED
    BY <1>2, <1>3

\* A task that does not exist yet is only brought about by an enqueue.
LEMMA AbsentStays ==
  ASSUME TypeOK, TaskStep, NEW t \in Tasks, status[t] = "absent"
  PROVE  status'[t] = "absent"
  <1>1. ASSUME NEW u \in Tasks, CancelTask(u) \/ RetryTask(u) \/ DeadLetterTask(u)
        PROVE  status'[t] = "absent"
    BY <1>1 DEF CancelTask, RetryTask, DeadLetterTask, TypeOK, Waiting
  <1>2. CASE ClaimStep
    BY <1>2 DEF ClaimStep, ClaimTask, AtMostOne, Claimable, Expired, Waiting
  <1>3. CASE GrantStep
    <2>1. PICK g \in grants : \/ HeartbeatTask(g[1], g[2], g[3])
                              \/ CompleteTask(g[1], g[2], g[3])
                              \/ \E r \in BOOLEAN : FailTask(g[1], g[2], g[3], r)
      BY <1>3 DEF GrantStep
    <2> QED
      BY <2>1 DEF HeartbeatTask, CompleteTask, FailTask, ValidLease, TypeOK
  <1> QED
    BY <1>1, <1>2, <1>3 DEF TaskStep

LEMMA UnfiredStaysAbsent ==
  ASSUME SchedulerInv, QueueInv, [SchedulerNext]_schedulerVars
  PROVE  UnfiredIsAbsent'
  <1>1. CASE TaskStep
    <2>1. TypeOK /\ fires' = fires /\ \A i \in Instants : CronTask[i] \in Tasks
      BY <1>1, ScheduleConstantsAssumption DEF QueueInv, IInv, TaskStep
    <2> QED
      BY <1>1, <2>1, AbsentStays DEF QueueInv, UnfiredIsAbsent
  <1>2. ASSUME NEW t \in ManualTasks, RunNow(t) PROVE UnfiredIsAbsent'
    <2>1. /\ t \in Tasks /\ \A i \in Instants : CronTask[i] \in Tasks /\ CronTask[i] # t
      BY ScheduleConstantsAssumption DEF ManualTasks
    <2>2. fires' = fires /\ status' = [status EXCEPT ![t] = "queued"]
      BY <1>2 DEF RunNow, Enqueue, scheduleVars
    <2> QED
      BY <2>1, <2>2 DEF QueueInv, IInv, TypeOK, UnfiredIsAbsent
  <1>3. ASSUME NEW s \in Schedulers, CommitFinalize(s) PROVE UnfiredIsAbsent'
    <2>1. PICK new \in SUBSET Tasks :
            /\ EnqueueAll(new)
            /\ \A i \in Instants : fires'[i] = "none" => fires[i] = "none" /\ CronTask[i] \notin new
      BY <1>3, CommitEnqueuesAll
    <2>2. \A i \in Instants : CronTask[i] \in Tasks
      BY ScheduleConstantsAssumption
    <2> QED
      BY <2>1, <2>2 DEF EnqueueAll, QueueInv, UnfiredIsAbsent
  <1>4. CASE UNCHANGED <<status, fires>>
    BY <1>4 DEF QueueInv, UnfiredIsAbsent
  <1>5. ASSUME NEW s \in Schedulers,
               ClaimSchedule(s) \/ BeginFinalize(s) \/ FinalizeRefused(s) \/ SchedulerCrash(s)
                 \/ PlanningFails(s)
        PROVE  UNCHANGED <<status, fires>>
    BY <1>5 DEF ClaimSchedule, BeginFinalize, FinalizeRefused, SchedulerCrash, PlanningFails, vars
  <1>6. ASSUME SchedulerTick PROVE UNCHANGED <<status, fires>>
    BY <1>6 DEF SchedulerTick, Tick
  <1>7. ASSUME DeleteSchedule \/ \E a, b, c, d, e : UpdateSchedule(a, b, c, d, e)
        PROVE  UNCHANGED <<status, fires>>
    BY <1>7 DEF DeleteSchedule, UpdateSchedule, vars
  <1>8. ASSUME UNCHANGED schedulerVars PROVE UNCHANGED <<status, fires>>
    BY <1>8 DEF schedulerVars, scheduleVars, vars
  <1> QED
    BY <1>1, <1>2, <1>3, <1>4, <1>5, <1>6, <1>7, <1>8
    DEF SchedulerNext, SchedulerStep, AdministratorStep

LEMMA NoPlanComesToReplace ==
  ASSUME SchedulerInv, NoPlanReplaces, overlap # "replace", [SchedulerNext]_schedulerVars
  PROVE  NoPlanReplaces'
  <1>1. plan \in [Schedulers -> Plans]
    BY DEF SchedulerInv, ForbidNeverOverlaps, SchedulerTypeOK
  <1>2. ASSUME NEW s \in Schedulers, ClaimSchedule(s) PROVE NoPlanReplaces'
    <2>1. plan'[s].overlap = overlap /\ \A r \in Schedulers : r # s => plan'[r] = plan[r]
      BY <1>1, <1>2 DEF ClaimSchedule
    <2> QED
      BY <2>1 DEF NoPlanReplaces
  <1>3. ASSUME NEW s \in Schedulers, BeginFinalize(s) PROVE NoPlanReplaces'
    <2>1. plan[s] # NoPlan
      BY <1>3, NoPlanIsIdle DEF BeginFinalize
    <2>2. PICK p : p = [plan[s] EXCEPT !.stage = "locked",
                          !.waiting = {t \in Active : status[t] # "running"},
                          !.running = {t \in Active : status[t] = "running"}]
      OBVIOUS
    <2>3. plan' = [plan EXCEPT ![s] = p]
      BY <1>1, <1>3, <2>2 DEF BeginFinalize
    <2>4. p.overlap = plan[s].overlap
      BY <2>1, <2>2, PlanFields DEF SchedulerInv, ForbidNeverOverlaps
    <2>5. plan'[s] = p /\ \A r \in Schedulers : r # s => plan'[r] = plan[r]
      BY <1>1, <2>3
    <2> QED
      BY <2>1, <2>4, <2>5 DEF NoPlanReplaces
  <1>4. ASSUME NEW s \in Schedulers, plan' = [plan EXCEPT ![s] = NoPlan] PROVE NoPlanReplaces'
    <2>1. \A r \in Schedulers : plan'[r] = NoPlan \/ plan'[r] = plan[r]
      BY <1>1, <1>4
    <2> QED
      BY <2>1 DEF NoPlanReplaces
  <1>5. CASE plan' = plan
    BY <1>5 DEF NoPlanReplaces
  <1>6. ASSUME NEW s \in Schedulers,
               FinalizeRefused(s) \/ CommitFinalize(s) \/ SchedulerCrash(s) \/ PlanningFails(s)
        PROVE  plan' = [plan EXCEPT ![s] = NoPlan]
    BY <1>6 DEF FinalizeRefused, CommitFinalize, SchedulerCrash, PlanningFails
  <1>7. ASSUME TaskStep \/ AdministratorStep \/ SchedulerTick \/ UNCHANGED schedulerVars
        PROVE  plan' = plan
    BY <1>7 DEF TaskStep, AdministratorStep, UpdateSchedule, DeleteSchedule, RunNow, SchedulerTick,
                schedulerVars, scheduleVars
  <1> QED
    BY <1>2, <1>3, <1>4, <1>5, <1>6, <1>7 DEF SchedulerNext, SchedulerStep

LEMMA QueueInvStep ==
  ASSUME SchedulerInv, QueueInv, overlap # "replace", [SchedulerNext]_schedulerVars
  PROVE  /\ QueueInv'
         /\ \A t \in Tasks : KeptOrSettled(t) /\ JobStep(t)
  <1>1. UnfiredIsAbsent' /\ NoPlanReplaces'
    BY UnfiredStaysAbsent, NoPlanComesToReplace DEF QueueInv
  <1>2. ASSUME NEW s \in Schedulers, CommitFinalize(s)
        PROVE  IInv' /\ \A t \in Tasks : KeptOrSettled(t) /\ JobStep(t)
    <2>1. PICK new \in SUBSET Tasks : EnqueueAll(new)
      BY <1>2, CommitEnqueuesAll
    <2>2. IInv
      BY DEF QueueInv
    <2> QED
      BY <2>1, <2>2, EnqueueAllKeepsIInv, EnqueueAllOfOne
  <1>3. CASE ~ \E s \in Schedulers : CommitFinalize(s)
    <2>1. IInv /\ [Next]_vars
      BY <1>3, OtherStepsAreOfTheQueue DEF QueueInv
    <2>2. IInv'
      BY <2>1, NextKeepsIInv
    <2> QED
      BY <1>1, <2>1, <2>2, LiveLeaseStep, JobNext DEF QueueInv
  <1> QED
    BY <1>1, <1>2, <1>3 DEF QueueInv

LEMMA QueueInitInv == SchedulerInit => QueueInv
  <1> SUFFICES ASSUME SchedulerInit PROVE QueueInv
    OBVIOUS
  <1>1. IInv
    BY InitIInv DEF SchedulerInit
  <1>2. UnfiredIsAbsent
    BY ScheduleConstantsAssumption DEF SchedulerInit, Init, UnfiredIsAbsent
  <1>3. NoPlanReplaces
    BY DEF SchedulerInit, NoPlanReplaces
  <1> QED
    BY <1>1, <1>2, <1>3 DEF QueueInv

\* No administrator ever chooses "replace" for the schedule (overlap_policy).
NobodyReplaces == [](overlap # "replace")

\* The queue's invariant under a schedule that is never set to "replace".
THEOREM ScheduledQueueInvariance == SchedulerSpec /\ NobodyReplaces => []QueueInv
  <1>1. SchedulerInit => QueueInv
    BY QueueInitInv
  <1>2. SchedulerInv /\ QueueInv /\ overlap # "replace" /\ [SchedulerNext]_schedulerVars => QueueInv'
    BY QueueInvStep
  <1> QED
    BY <1>1, <1>2, SchedulerInvariance, PTL DEF SchedulerSpec, NobodyReplaces

\* Schedules strand no task and end none wrongly, but by "replace": a task
\* that waits has its hint, an attempt and no request to cancel it, and ends
\* cancelled once that was accepted, succeeded with the result of its latest
\* claim (_finalize_schedule_claim, enqueue_task).
THEOREM ScheduledTasksAreKept ==
  SchedulerSpec /\ NobodyReplaces => [](NoTaskIsStranded /\ EndsAreDue)
  <1>1. QueueInv => NoTaskIsStranded /\ EndsAreDue
    BY DEF QueueInv, IInv, NoTaskIsStranded, WakeupLedger, Generations, EndsAreDue
  <1> QED
    BY <1>1, ScheduledQueueInvariance, PTL

\* Nor does a schedule take a task from a worker that holds it, but by "replace".
THEOREM ScheduledLeaseExclusive == SchedulerSpec /\ NobodyReplaces => LiveLeaseIsExclusive
  <1>1. SchedulerInv /\ QueueInv /\ overlap # "replace" /\ [SchedulerNext]_schedulerVars =>
          [\A t \in Tasks : KeptOrSettled(t)]_vars
    BY QueueInvStep
  <1>2. SchedulerSpec /\ NobodyReplaces => [][\A t \in Tasks : KeptOrSettled(t)]_vars
    BY <1>1, ScheduledQueueInvariance, SchedulerInvariance, PTL DEF SchedulerSpec, NobodyReplaces
  <1> QED
    BY <1>2 DEF LiveLeaseIsExclusive, KeptOrSettled

\* And every task is, for its client, the leased job that LeasedJob promises,
\* whether a client, a manual run or an instant of the schedule enqueued it.
THEOREM ScheduledJobsAreLeased == SchedulerSpec /\ NobodyReplaces => EveryTaskIsALeasedJob
  <1>1. SchedulerInv /\ QueueInv /\ overlap # "replace" /\ [SchedulerNext]_schedulerVars =>
          [\A t \in Tasks : JobStep(t)]_vars
    BY QueueInvStep
  <1>2. SchedulerSpec /\ NobodyReplaces => [][\A t \in Tasks : JobStep(t)]_vars
    BY <1>1, ScheduledQueueInvariance, SchedulerInvariance, PTL DEF SchedulerSpec, NobodyReplaces
  <1>3. SchedulerInit => \A t \in Tasks : Job(t)!Init
    BY JobInit DEF SchedulerInit
  <1>4. SchedulerSpec => \A t \in Tasks : Job(t)!Init
    BY <1>3, PTL DEF SchedulerSpec
  <1> QED
    BY <1>2, <1>4 DEF EveryTaskIsALeasedJob, JobStep

-----------------------------------------------------------------------------
(***************************************************************************)
(* Cron plans.  The searches look at one minute after the other, and a     *)
(* walk at one due time after the other; both are understood by what they  *)
(* leave out, which is never a minute that matches.                        *)
(***************************************************************************)

\* A set of natural numbers has a least one.
LEMMA LeastNatural ==
  ASSUME NEW T \in SUBSET Nat, T # {}
  PROVE  \E d \in T : \A y \in T : d <= y
  <1>1. PICK d \in T : \A y \in T : <<y, d>> \notin OpToRel(<, Nat)
    BY NatLessThanWellFounded, WFMin
  <1>2. ASSUME NEW y \in T, y < d PROVE FALSE
    <2>1. y \in Nat /\ d \in Nat /\ <<y, d>> \notin OpToRel(<, Nat)
      BY <1>1
    <2> QED
      BY <1>2, <2>1 DEF OpToRel
  <1> QED
    BY <1>2

\* A set of numbers with a lower bound has a least one.
LEMMA LeastExists ==
  ASSUME NEW S, NEW a \in Int, S # {}, \A x \in S : x \in Int /\ a <= x
  PROVE  Min(S) \in S /\ \A x \in S : Min(S) <= x
  <1> DEFINE T == {x - a : x \in S}
  <1>1. T \in SUBSET Nat /\ T # {}
    OBVIOUS
  <1>2. PICK d \in T : \A y \in T : d <= y
    BY <1>1, LeastNatural
  <1>3. PICK x \in S : d = x - a
    BY <1>2
  <1>4. \A y \in S : x <= y
    <2> SUFFICES ASSUME NEW y \in S PROVE x <= y
      OBVIOUS
    <2>1. d <= y - a
      BY <1>2
    <2> QED
      BY <1>3, <2>1
  <1> QED
    BY <1>3, <1>4 DEF Min

\* A set of numbers with an upper bound has a greatest one.
LEMMA GreatestExists ==
  ASSUME NEW S, NEW b \in Int, S # {}, \A x \in S : x \in Int /\ x <= b
  PROVE  Max(S) \in S /\ \A x \in S : x <= Max(S)
  <1> DEFINE T == {b - x : x \in S}
  <1>1. T \in SUBSET Nat /\ T # {}
    OBVIOUS
  <1>2. PICK d \in T : \A y \in T : d <= y
    BY <1>1, LeastNatural
  <1>3. PICK x \in S : d = b - x
    BY <1>2
  <1>4. \A y \in S : y <= x
    <2> SUFFICES ASSUME NEW y \in S PROVE y <= x
      OBVIOUS
    <2>1. d <= b - y
      BY <1>2
    <2> QED
      BY <1>3, <2>1
  <1> QED
    BY <1>3, <1>4 DEF Max

\* A tick lies in its minute.
LEMMA TickInMinute ==
  ASSUME NEW t \in Int
  PROVE  /\ MinuteOf(t) \in Int /\ t % 2 \in {0, 1}
         /\ t = 2 * MinuteOf(t) + (t % 2)
  BY DEF MinuteOf

\* A minute starts at its first tick.
LEMMA StartInMinute ==
  ASSUME NEW m \in Int
  PROVE  /\ StartOf(m) \in Int /\ StartOf(m) = 2 * m /\ StartOf(m) % 2 = 0
         /\ MinuteOf(StartOf(m)) = m /\ StartOf(m) # NoTime
  BY DEF StartOf, MinuteOf, NoTime

DueAt(e, t) == t \in Int /\ t % 2 = 0 /\ CronMatches(e, MinuteOf(t))
NoMatch(e, from, to) == \A m \in from..to : ~CronMatches(e, m)

\* next_after: the first due time to come, or no minute matches for as long
\* as it looks.
LEMMA NextAfterIs ==
  ASSUME NEW e, NEW tick \in Int, NEW next, next = NextAfter(e, tick)
  PROVE  IF next = NoTime
         THEN NoMatch(e, MinuteOf(tick) + 1, MinuteOf(tick) + SearchMinutes)
         ELSE /\ DueAt(e, next) /\ next > tick
              /\ NoMatch(e, MinuteOf(tick) + 1, MinuteOf(next) - 1)
  <1> DEFINE a == MinuteOf(tick) + 1
             b == MinuteOf(tick) + SearchMinutes
             found == {m \in a..b : CronMatches(e, m)}
  <1> HIDE DEF found
  <1>1. a \in Int /\ b \in Int
    <2>1. SearchMinutes \in Int /\ MinuteOf(tick) \in Int
      BY TickInMinute, CronAssumption
    <2> QED
      BY <2>1
  <1>2. next = IF found = {} THEN NoTime ELSE StartOf(Min(found))
    BY DEF NextAfter, found
  <1>3. CASE found = {}
    <2>1. next = NoTime
      BY <1>2, <1>3
    <2>2. NoMatch(e, a, b)
      BY <1>3 DEF NoMatch, found
    <2> QED
      BY <2>1, <2>2
  <1>4. CASE found # {}
    <2> HIDE DEF a, b
    <2>1. Min(found) \in found /\ \A m \in found : Min(found) <= m
      BY <1>1, <1>4, LeastExists DEF found
    <2>2. PICK least : least = Min(found)
      OBVIOUS
    <2>3. least \in a..b /\ CronMatches(e, least)
      BY <2>1, <2>2 DEF found
    <2>4. \A m \in a..b : CronMatches(e, m) => least <= m
      BY <2>1, <2>2 DEF found
    <2>5. least \in Int /\ next = StartOf(least)
      BY <1>1, <1>2, <1>4, <2>2, <2>3
    <2>6. next # NoTime /\ DueAt(e, next) /\ MinuteOf(next) = least /\ next = 2 * least
      BY <2>3, <2>5, StartInMinute DEF DueAt
    <2>7. next > tick
      BY <2>3, <2>6, TickInMinute DEF a, b
    <2>8. NoMatch(e, a, least - 1)
      BY <1>1, <2>3, <2>4, <2>5 DEF NoMatch
    <2> QED
      BY <2>6, <2>7, <2>8 DEF a
  <1> QED
    BY <1>3, <1>4

\* previous_at_or_before: the last due time up to now, or no minute has
\* matched for as long as it looks.
LEMMA PreviousIs ==
  ASSUME NEW e, NEW tick \in Int, NEW before, before = PreviousAtOrBefore(e, tick)
  PROVE  IF before = NoTime
         THEN NoMatch(e, MinuteOf(tick) - SearchMinutes + 1, MinuteOf(tick))
         ELSE /\ DueAt(e, before) /\ before <= tick
              /\ MinuteOf(before) >= MinuteOf(tick) - SearchMinutes + 1
              /\ NoMatch(e, MinuteOf(before) + 1, MinuteOf(tick))
  <1> DEFINE a == MinuteOf(tick) - SearchMinutes + 1
             b == MinuteOf(tick)
             found == {m \in a..b : CronMatches(e, m)}
  <1> HIDE DEF found
  <1>1. a \in Int /\ b \in Int
    <2>1. SearchMinutes \in Int /\ MinuteOf(tick) \in Int
      BY TickInMinute, CronAssumption
    <2> QED
      BY <2>1
  <1>2. before = IF found = {} THEN NoTime ELSE StartOf(Max(found))
    BY DEF PreviousAtOrBefore, found
  <1>3. CASE found = {}
    <2>1. before = NoTime
      BY <1>2, <1>3
    <2>2. NoMatch(e, a, b)
      BY <1>3 DEF NoMatch, found
    <2> QED
      BY <2>1, <2>2
  <1>4. CASE found # {}
    <2> HIDE DEF a, b
    <2>1. Max(found) \in found /\ \A m \in found : m <= Max(found)
      BY <1>1, <1>4, GreatestExists DEF found
    <2>2. PICK greatest : greatest = Max(found)
      OBVIOUS
    <2>3. greatest \in a..b /\ CronMatches(e, greatest)
      BY <2>1, <2>2 DEF found
    <2>4. \A m \in a..b : CronMatches(e, m) => m <= greatest
      BY <2>1, <2>2 DEF found
    <2>5. greatest \in Int /\ before = StartOf(greatest)
      BY <1>1, <1>2, <1>4, <2>2, <2>3
    <2>6. before # NoTime /\ DueAt(e, before) /\ MinuteOf(before) = greatest /\ before = 2 * greatest
      BY <2>3, <2>5, StartInMinute DEF DueAt
    <2>7. before <= tick /\ greatest >= a
      BY <1>1, <2>3, <2>6, TickInMinute DEF b
    <2>8. NoMatch(e, greatest + 1, b)
      BY <1>1, <2>3, <2>4, <2>5 DEF NoMatch
    <2> QED
      BY <2>6, <2>7, <2>8 DEF a, b
  <1> QED
    BY <1>3, <1>4

\* No due time lies between a tick and the next one that the search finds.
LEMMA NextDue ==
  ASSUME NEW e, NEW tick \in Int, NEW next, next = NextAfter(e, tick), next # NoTime
  PROVE  /\ DueAt(e, next) /\ next > tick
         /\ NoMatch(e, MinuteOf(tick) + 1, MinuteOf(next) - 1)
         /\ \A t : DueAt(e, t) /\ t > tick => next <= t
  <1>1. /\ DueAt(e, next) /\ next > tick
        /\ NoMatch(e, MinuteOf(tick) + 1, MinuteOf(next) - 1)
    BY NextAfterIs
  <1>2. ASSUME NEW t, DueAt(e, t), t > tick, t < next PROVE FALSE
    <2>1. t \in Int /\ next \in Int /\ t % 2 = 0 /\ next % 2 = 0
      BY <1>1, <1>2 DEF DueAt
    <2>2. MinuteOf(t) \in (MinuteOf(tick) + 1)..(MinuteOf(next) - 1)
      BY <1>2, <2>1 DEF MinuteOf
    <2> QED
      BY <1>1, <1>2, <2>2 DEF NoMatch, DueAt
  <1>3. \A t : DueAt(e, t) => t \in Int /\ next \in Int
    BY <1>1 DEF DueAt
  <1> QED
    BY <1>1, <1>2, <1>3

LEMMA LastDue ==
  ASSUME NEW e, NEW tick \in Int, NEW before, before = PreviousAtOrBefore(e, tick),
         before # NoTime
  PROVE  /\ DueAt(e, before) /\ before <= tick
         /\ MinuteOf(before) >= MinuteOf(tick) - SearchMinutes + 1
         /\ \A t : DueAt(e, t) /\ t <= tick => t <= before
  <1>1. /\ DueAt(e, before) /\ before <= tick
        /\ MinuteOf(before) >= MinuteOf(tick) - SearchMinutes + 1
        /\ NoMatch(e, MinuteOf(before) + 1, MinuteOf(tick))
    BY PreviousIs
  <1>2. ASSUME NEW t, DueAt(e, t), t <= tick, before < t PROVE FALSE
    <2>1. t \in Int /\ before \in Int /\ t % 2 = 0 /\ before % 2 = 0
      BY <1>1, <1>2 DEF DueAt
    <2>2. MinuteOf(t) \in (MinuteOf(before) + 1)..MinuteOf(tick)
      BY <1>2, <2>1 DEF MinuteOf
    <2> QED
      BY <1>1, <1>2, <2>2 DEF NoMatch, DueAt
  <1>3. \A t : DueAt(e, t) => t \in Int /\ before \in Int
    BY <1>1 DEF DueAt
  <1> QED
    BY <1>1, <1>2, <1>3

-----------------------------------------------------------------------------
\* The schedule goes on from a due time; only then do the searches back from
\* a time after it know where to end.
CronTypeOK ==
  /\ cron_rule.misfire \in {"skip", "fire_once", "catch_up_limited"}
  /\ cron_rule.grace \in Graces /\ cron_rule.limit \in CatchUpLimits
  /\ clock \in Nat /\ next_due \in Nat
  /\ DueAt(cron_rule.expression, next_due)

\* Why a plan is given up.
LookedInVain ==
  \E tick \in 0..(clock + 2) :
    NoMatch(cron_rule.expression, MinuteOf(tick), MinuteOf(tick + StartOf(SearchMinutes - 1)))

LEMMA InVain ==
  ASSUME clock \in Nat, NEW m \in Nat, 2 * m <= clock + 2,
         NoMatch(cron_rule.expression, m, m + SearchMinutes - 1)
  PROVE  LookedInVain
  <1>1. SearchMinutes \in Nat
    BY CronAssumption
  <1>2. 2 * m \in 0..(clock + 2)
    OBVIOUS
  <1>3. MinuteOf(2 * m) = m
    BY DEF MinuteOf
  <1>4. MinuteOf(2 * m + StartOf(SearchMinutes - 1)) = m + SearchMinutes - 1
    BY <1>1 DEF MinuteOf, StartOf
  <1> QED
    BY <1>2, <1>3, <1>4 DEF LookedInVain

LEMMA NextInVain ==
  ASSUME clock \in Nat, NEW tick \in Int, -1 <= tick, tick <= clock,
         NextAfter(cron_rule.expression, tick) = NoTime
  PROVE  LookedInVain
  <1>1. PICK e : e = cron_rule.expression
    OBVIOUS
  <1>2. NoMatch(e, MinuteOf(tick) + 1, MinuteOf(tick) + SearchMinutes)
    BY <1>1, NextAfterIs
  <1>3. PICK m : m = MinuteOf(tick) + 1
    OBVIOUS
  <1>4. m \in Nat /\ 2 * m <= clock + 2
    <2>1. PICK n : n = MinuteOf(tick)
      OBVIOUS
    <2>2. n \in Int /\ tick % 2 \in {0, 1} /\ tick = 2 * n + (tick % 2)
      BY <2>1, TickInMinute
    <2>3. n \in Int /\ n >= -1 /\ 2 * n <= clock
      BY <2>2
    <2> QED
      BY <1>3, <2>1, <2>3
  <1>5. m + SearchMinutes - 1 = MinuteOf(tick) + SearchMinutes
    <2>1. SearchMinutes \in Int /\ MinuteOf(tick) \in Int
      BY CronAssumption, TickInMinute
    <2> QED
      BY <1>3, <2>1
  <1> QED
    BY <1>1, <1>2, <1>3, <1>4, <1>5, InVain

\* A search back from a time that is not before the next due time finds one of
\* the backlog.
LEMMA PreviousIsDue ==
  ASSUME CronTypeOK, NEW tick \in Int, next_due <= tick, tick <= clock,
         NEW before, before = PreviousAtOrBefore(cron_rule.expression, tick)
  PROVE  IF before = NoTime THEN LookedInVain
         ELSE /\ before \in DueTimes /\ before <= tick
              /\ \A t \in DueTimes : t <= tick => t <= before
  <1> DEFINE e == cron_rule.expression
  <1>1. clock \in Nat /\ next_due \in Nat /\ DueAt(e, next_due) /\ SearchMinutes \in Nat
    BY CronAssumption DEF CronTypeOK
  <1>2. CASE before = NoTime
    <2>1. NoMatch(e, MinuteOf(tick) - SearchMinutes + 1, MinuteOf(tick))
      BY <1>2, PreviousIs
    <2>2. PICK m : m = MinuteOf(tick) - SearchMinutes + 1
      OBVIOUS
    <2>3. MinuteOf(tick) \in Int /\ MinuteOf(next_due) \in Nat /\ MinuteOf(next_due) <= MinuteOf(tick)
          /\ 2 * MinuteOf(tick) <= clock
      BY <1>1 DEF MinuteOf
    <2>4. ~(m <= MinuteOf(next_due))
      <3>1. CronMatches(e, MinuteOf(next_due))
        BY <1>1 DEF DueAt
      <3> QED
        BY <2>1, <2>2, <2>3, <3>1 DEF NoMatch
    <2>5. m \in Nat /\ 2 * m <= clock + 2 /\ m + SearchMinutes - 1 = MinuteOf(tick)
      <3>1. SearchMinutes > 0
        BY CronAssumption
      <3> QED
        BY <1>1, <2>2, <2>3, <2>4, <3>1
    <2> QED
      BY <1>1, <1>2, <2>1, <2>2, <2>5, InVain
  <1>3. CASE before # NoTime
    <2>1. DueAt(e, before) /\ before <= tick /\ \A t : DueAt(e, t) /\ t <= tick => t <= before
      BY <1>3, LastDue
    <2>2. next_due <= before
      BY <1>1, <2>1
    <2>3. before \in DueTimes
      BY <1>1, <2>1, <2>2 DEF DueTimes, DueAt
    <2>4. \A t \in DueTimes : DueAt(e, t)
      BY <1>1 DEF DueTimes, DueAt
    <2> QED
      BY <1>3, <2>1, <2>3, <2>4
  <1> QED
    BY <1>2, <1>3

-----------------------------------------------------------------------------
LEMMA DueTimesFinite ==
  ASSUME CronTypeOK
  PROVE  IsFiniteSet(DueTimes) /\ DueTimes \subseteq Nat
  <1>1. next_due \in Nat /\ clock \in Nat
    BY DEF CronTypeOK
  <1>2. IsFiniteSet(next_due..clock)
    BY <1>1, FS_Interval
  <1>3. DueTimes \in SUBSET (next_due..clock)
    BY DEF DueTimes
  <1>4. DueTimes \subseteq Nat
    BY <1>1, <1>3
  <1> QED
    BY <1>2, <1>3, <1>4, FS_Subset

LEMMA LastOnesOfFew ==
  ASSUME NEW S, IsFiniteSet(S), NEW n \in Nat, Cardinality(S) <= n
  PROVE  LastOnes(S, n) = S
  <1> SUFFICES ASSUME NEW t \in S PROVE Cardinality({u \in S : u >= t}) <= n
    BY DEF LastOnes
  <1>1. {u \in S : u >= t} \in SUBSET S
    OBVIOUS
  <1>2. /\ Cardinality({u \in S : u >= t}) \in Nat /\ Cardinality(S) \in Nat
        /\ Cardinality({u \in S : u >= t}) <= Cardinality(S)
    BY <1>1, FS_Subset, FS_CardinalityType
  <1> QED
    BY <1>2

\* The n elements from c on are the last n.
LEMMA LastOnesFrom ==
  ASSUME NEW S \in SUBSET Int, IsFiniteSet(S), NEW c \in S, NEW T, T = {t \in S : t >= c},
         NEW n, Cardinality(T) = n
  PROVE  LastOnes(S, n) = T
  <1>1. IsFiniteSet(T) /\ n \in Nat
    <2>1. T \in SUBSET S
      OBVIOUS
    <2> QED
      BY <2>1, FS_Subset, FS_CardinalityType
  <1>2. ASSUME NEW t \in S, t >= c PROVE Cardinality({u \in S : u >= t}) <= n
    <2>1. \A u \in S : u \in Int /\ t \in Int /\ c \in Int
      OBVIOUS
    <2>2. \A u \in S : u >= t => u \in T
      BY <1>2, <2>1
    <2>3. {u \in S : u >= t} \in SUBSET T
      BY <2>2
    <2> QED
      BY <1>1, <2>3, FS_Subset
  <1>3. ASSUME NEW t \in S, t < c PROVE ~(Cardinality({u \in S : u >= t}) <= n)
    <2>1. PICK U : U = {u \in S : u >= t}
      OBVIOUS
    <2>2. T \cup {t} \in SUBSET U /\ t \notin T
      <3>1. \A u \in S : u \in Int /\ t \in Int /\ c \in Int
        OBVIOUS
      <3>2. \A u \in T : u \in S /\ u >= t
        BY <1>3, <3>1
      <3>3. t \in U /\ t \notin T
        BY <1>3, <2>1, <3>1
      <3> QED
        BY <2>1, <3>2, <3>3
    <2>3. IsFiniteSet(U)
      <3>1. U \in SUBSET S
        BY <2>1
      <3> QED
        BY <3>1, FS_Subset
    <2>4. IsFiniteSet(T \cup {t}) /\ Cardinality(T \cup {t}) = n + 1
      BY <1>1, <2>2, FS_AddElement
    <2>5. Cardinality(T \cup {t}) <= Cardinality(U) /\ Cardinality(U) \in Nat
      BY <2>2, <2>3, FS_Subset, FS_CardinalityType
    <2> QED
      BY <1>1, <2>1, <2>4, <2>5
  <1>4. \A t \in S : t >= c \/ t < c
    <2>1. \A t \in S : t \in Int /\ c \in Int
      OBVIOUS
    <2> QED
      BY <2>1
  <1> QED
    BY <1>2, <1>3, <1>4 DEF LastOnes

LEMMA LastOne ==
  ASSUME NEW S \in SUBSET Int, IsFiniteSet(S), NEW c \in S, \A t \in S : t <= c
  PROVE  LastOnes(S, 1) = {c}
  <1>1. {t \in S : t >= c} = {c}
    <2>1. \A t \in S : t \in Int /\ c \in Int
      OBVIOUS
    <2>2. \A t \in S : t >= c <=> t = c
      BY <2>1
    <2> QED
      BY <2>2
  <1>2. Cardinality({c}) = 1
    BY FS_Singleton
  <1> QED
    BY <1>1, <1>2, LastOnesFrom

-----------------------------------------------------------------------------
(***************************************************************************)
(* The walks.  Back from the latest due time, every due time after the     *)
(* cursor is selected, and they are fewer than the limit.  Forward through *)
(* the grace window, every due time before the cursor is.                  *)
(***************************************************************************)
Window == Later(next_due, clock - cron_rule.grace)

Found(p) ==
  /\ p \in [at : {"planned", "backwards", "forwards"}, next : Int, selected : SUBSET DueTimes,
            skipped : SUBSET DueTimes, cursor : Int]
  /\ next_due <= clock
  /\ p.next > clock /\ DueAt(cron_rule.expression, p.next)
  /\ NoMatch(cron_rule.expression, MinuteOf(clock) + 1, MinuteOf(p.next) - 1)

Backwards(p) ==
  /\ cron_rule.misfire = "catch_up_limited" /\ p.skipped = {}
  /\ p.cursor \in DueTimes
  /\ p.selected = {t \in DueTimes : t > p.cursor}
  /\ Cardinality(p.selected) < cron_rule.limit

Forwards(p) ==
  /\ cron_rule.misfire = "skip" /\ p.skipped = {}
  /\ IF p.cursor = NoTime THEN LookedInVain
     ELSE /\ DueAt(cron_rule.expression, p.cursor) /\ Window <= p.cursor
          /\ p.selected = {t \in DueTimes : Window <= t /\ t < p.cursor}

RecentDue == {t \in DueTimes : t >= clock - cron_rule.grace}

Planned(p) ==
  /\ p.selected =
       CASE cron_rule.misfire = "fire_once" -> LastOnes(DueTimes, 1)
         [] cron_rule.misfire = "catch_up_limited" -> LastOnes(DueTimes, cron_rule.limit)
         [] OTHER -> RecentDue
  /\ p.skipped = IF cron_rule.misfire = "skip" THEN LastOnes(DueTimes \ RecentDue, 1) ELSE {}

PlanOK(p) ==
  \/ p = NotPlanning
  \/ p = [at |-> "raised"] /\ LookedInVain
  \/ /\ Found(p)
     /\ p.at = "backwards" => Backwards(p)
     /\ p.at = "forwards" => Forwards(p)
     /\ p.at = "planned" => Planned(p)

PlanInv == PlanOK(planning)
CronInv == CronTypeOK /\ PlanInv

\* The schedule and the clock stand still while a plan is made.
LEMMA PlanIsMade ==
  ASSUME CronTypeOK, NEW p, PlanningBecomes(p), PlanOK(p)
  PROVE  CronInv'
  <1>1. planning' = p /\ cron_rule' = cron_rule /\ next_due' = next_due /\ clock' = clock
    BY DEF PlanningBecomes
  <1>2. DueTimes' = DueTimes
    BY <1>1 DEF DueTimes
  <1>3. RecentDue' = RecentDue
    BY <1>1, <1>2 DEF RecentDue
  <1>4. CronTypeOK'
    BY <1>1 DEF CronTypeOK
  <1>5. LookedInVain => LookedInVain'
    BY <1>1 DEF LookedInVain
  <1>6. Found(p) => Found(planning)'
    BY <1>1, <1>2 DEF Found
  <1>7. Backwards(p) => Backwards(planning)'
    BY <1>1, <1>2 DEF Backwards
  <1>8. Forwards(p) => Forwards(planning)'
    BY <1>1, <1>2, <1>5 DEF Forwards, Window
  <1>9. Planned(p) => Planned(planning)'
    BY <1>1, <1>2, <1>3 DEF Planned
  <1> QED
    BY <1>1, <1>4, <1>5, <1>6, <1>7, <1>8, <1>9 DEF CronInv, PlanInv, PlanOK

\* What is due in the grace window begins in at most MaxSlots minutes.
LEMMA SlotsSuffice ==
  ASSUME CronTypeOK, NEW T \in SUBSET DueTimes, \A t \in T : clock - cron_rule.grace <= t
  PROVE  /\ IsFiniteSet(T) /\ Cardinality(T) \in Nat /\ MaxSlots \in Int
         /\ Cardinality(T) <= MaxSlots
  <1>1. PICK longest \in Graces : \A g \in Graces : g <= longest
    BY CronAssumption
  <1>2. Max(Graces) \in Graces /\ \A g \in Graces : g <= Max(Graces)
    <2>1. \A g \in Graces : g \in Int /\ g <= longest
      BY <1>1, CronAssumption
    <2>2. longest \in Int /\ Graces # {}
      BY <1>1, <2>1
    <2> QED
      BY <2>1, <2>2, GreatestExists
  <1>3. PICK grace \in Nat : grace = cron_rule.grace
    BY CronAssumption DEF CronTypeOK
  <1>4. PICK most \in Nat : most = Max(Graces) /\ grace <= most
    BY <1>2, <1>3, CronAssumption DEF CronTypeOK
  <1>5. clock \in Nat
    BY DEF CronTypeOK
  <1>6. PICK a \in Int : a = MinuteOf(clock) - MinuteOf(grace)
    <2>1. MinuteOf(clock) \in Int /\ MinuteOf(grace) \in Int
      BY <1>5, TickInMinute
    <2> QED
      BY <2>1
  <1>7. PICK b \in Int : b = MinuteOf(clock)
    BY <1>5, TickInMinute
  <1>8. IsFiniteSet(a..b) /\ Cardinality(a..b) <= MaxSlots /\ Cardinality(a..b) \in Nat
    <2>1. MinuteOf(grace) \in Nat /\ MinuteOf(most) \in Nat /\ MinuteOf(grace) <= MinuteOf(most)
      BY <1>4 DEF MinuteOf
    <2>2. b - a + 1 <= MaxSlots /\ a <= b
      BY <1>4, <1>6, <1>7, <2>1 DEF MaxSlots
    <2> QED
      BY <2>2, FS_Interval
  <1>9. \A t \in T : t \in Int /\ MinuteOf(t) \in a..b /\ t = 2 * MinuteOf(t)
    <2> SUFFICES ASSUME NEW t \in T PROVE t \in Int /\ MinuteOf(t) \in a..b /\ t = 2 * MinuteOf(t)
      OBVIOUS
    <2>1. t \in Nat /\ t <= clock /\ t % 2 = 0
      <3>1. t \in next_due..clock /\ t % 2 = 0
        BY DEF DueTimes
      <3> QED
        BY <3>1 DEF CronTypeOK
    <2>2. clock - grace <= t
      BY <1>3
    <2>3. PICK m : m = MinuteOf(t)
      OBVIOUS
    <2>4. m \in Int /\ t = 2 * m
      <3>1. t \in Int
        BY <2>1
      <3>2. MinuteOf(t) \in Int /\ t = 2 * MinuteOf(t) + (t % 2)
        BY <3>1, TickInMinute
      <3> QED
        BY <2>1, <2>3, <3>2
    <2>5. 2 * m <= clock /\ clock - grace <= 2 * m
      BY <2>1, <2>2, <2>4
    <2>6. m <= b
      BY <1>5, <1>7, <2>4, <2>5 DEF MinuteOf
    <2>7. a <= m
      <3>1. PICK n : n = MinuteOf(grace)
        OBVIOUS
      <3>2. n \in Int /\ grace <= 2 * n + 1
        BY <3>1 DEF MinuteOf
      <3>3. 2 * b <= clock
        BY <1>5, <1>7 DEF MinuteOf
      <3>4. a = b - n
        BY <1>6, <1>7, <3>1
      <3> QED
        BY <1>5, <2>4, <2>5, <3>2, <3>3, <3>4
    <2> QED
      BY <2>1, <2>3, <2>4, <2>6, <2>7
  <1>10. [t \in T |-> MinuteOf(t)] \in Injection(T, a..b)
    BY <1>9 DEF Injection, IsInjective
  <1>11. IsFiniteSet(T) /\ Cardinality(T) <= Cardinality(a..b)
    BY <1>8, <1>10, FS_Injection
  <1>12. Cardinality(T) \in Nat
    BY <1>11, FS_CardinalityType
  <1>13. MaxSlots \in Int
    BY <1>4, TickInMinute DEF MaxSlots
  <1> QED
    BY <1>8, <1>11, <1>12, <1>13

-----------------------------------------------------------------------------
\* _cron_due_plan begins.
LEMMA BeginPlanKeepsInv == CronInv /\ BeginPlan => CronInv'
  <1> SUFFICES ASSUME CronInv, BeginPlan PROVE CronInv'
    OBVIOUS
  <1>1. PICK e : e = cron_rule.expression
    OBVIOUS
  <1>2. PICK latest : latest = PreviousAtOrBefore(e, clock)
    OBVIOUS
  <1>3. PICK next : next = NextAfter(e, clock)
    OBVIOUS
  <1>4. PICK lower : lower = Window
    OBVIOUS
  <1>5. PICK first : first = NextAfter(e, JustBefore(lower))
    OBVIOUS
  <1>6. PICK found : found = [at |-> "planned", next |-> next, selected |-> {}, skipped |-> {},
                              cursor |-> latest]
    OBVIOUS
  <1>7. /\ next_due <= clock
        /\ PlanningBecomes(
             IF latest = NoTime \/ next = NoTime \/ latest < next_due THEN [at |-> "raised"]
             ELSE CASE cron_rule.misfire = "fire_once" -> [found EXCEPT !.selected = {latest}]
                    [] cron_rule.misfire = "catch_up_limited" -> [found EXCEPT !.at = "backwards"]
                    [] OTHER -> [found EXCEPT !.at = "forwards", !.cursor = first])
    BY <1>1, <1>2, <1>3, <1>4, <1>5, <1>6 DEF BeginPlan, Window
  <1>8. CronTypeOK /\ clock \in Nat /\ next_due \in Nat
    BY DEF CronInv, CronTypeOK
  <1>9. IF latest = NoTime THEN LookedInVain
        ELSE latest \in DueTimes /\ latest <= clock /\ \A t \in DueTimes : t <= clock => t <= latest
    BY <1>1, <1>2, <1>7, <1>8, PreviousIsDue
  <1>10. next = NoTime => LookedInVain
    <2>1. clock \in Int /\ -1 <= clock /\ clock <= clock
      BY <1>8
    <2> QED
      BY <1>1, <1>3, <1>8, <2>1, NextInVain
  <1>11. CASE latest = NoTime \/ next = NoTime \/ latest < next_due
    <2>1. latest \in DueTimes => ~(latest < next_due)
      BY <1>8 DEF DueTimes
    <2>2. LookedInVain
      BY <1>9, <1>10, <1>11, <2>1
    <2>3. PlanningBecomes([at |-> "raised"]) /\ PlanOK([at |-> "raised"])
      BY <1>7, <1>11, <2>2 DEF PlanOK
    <2> QED
      BY <1>8, <2>3, PlanIsMade
  <1>12. CASE ~(latest = NoTime \/ next = NoTime \/ latest < next_due)
    <2>1. DueAt(e, next) /\ next > clock /\ NoMatch(e, MinuteOf(clock) + 1, MinuteOf(next) - 1)
      BY <1>3, <1>8, <1>12, NextDue
    <2>2. latest \in DueTimes /\ \A t \in DueTimes : t <= latest
      BY <1>8, <1>9, <1>12 DEF DueTimes
    <2>3. next \in Int /\ latest \in Int
      BY <1>8, <2>1, <2>2 DEF DueAt, DueTimes
    <2>4. ASSUME NEW at \in {"planned", "backwards", "forwards"}, NEW selected \in SUBSET DueTimes,
                 NEW cursor \in Int
          PROVE  Found([at |-> at, next |-> next, selected |-> selected, skipped |-> {}, cursor |-> cursor])
      BY <1>1, <1>7, <2>1, <2>3 DEF Found
    <2>5. CASE cron_rule.misfire = "fire_once"
      <3> DEFINE p == [at |-> "planned", next |-> next, selected |-> {latest}, skipped |-> {},
                       cursor |-> latest]
      <3>1. PlanningBecomes(p)
        BY <1>6, <1>7, <1>12, <2>5
      <3>2. LastOnes(DueTimes, 1) = {latest}
        BY <1>8, <2>2, DueTimesFinite, LastOne
      <3>3. Planned(p)
        BY <2>5, <3>2 DEF Planned
      <3>4. Found(p)
        BY <2>2, <2>3, <2>4
      <3>5. PlanOK(p)
        BY <3>3, <3>4 DEF PlanOK
      <3> HIDE DEF p
      <3> QED
        BY <1>8, <3>1, <3>5, PlanIsMade
    <2>6. CASE cron_rule.misfire = "catch_up_limited"
      <3> DEFINE p == [at |-> "backwards", next |-> next, selected |-> {}, skipped |-> {},
                       cursor |-> latest]
      <3>1. PlanningBecomes(p)
        BY <1>6, <1>7, <1>12, <2>6
      <3>2. \A t \in DueTimes : ~(t > latest)
        BY <2>2, <2>3, <1>8 DEF DueTimes
      <3>3. {} = {t \in DueTimes : t > latest}
        BY <3>2
      <3>4. Cardinality({}) < cron_rule.limit
        <4>1. cron_rule.limit \in 1..100
          BY <1>8, CronAssumption DEF CronTypeOK
        <4> QED
          BY <4>1, FS_EmptySet
      <3>5. Backwards(p)
        BY <2>2, <2>6, <3>3, <3>4 DEF Backwards
      <3>6. Found(p)
        BY <2>3, <2>4
      <3>7. PlanOK(p)
        BY <3>5, <3>6 DEF PlanOK
      <3> HIDE DEF p
      <3> QED
        BY <1>8, <3>1, <3>7, PlanIsMade
    <2>7. CASE cron_rule.misfire \notin {"fire_once", "catch_up_limited"}
      <3> DEFINE p == [at |-> "forwards", next |-> next, selected |-> {}, skipped |-> {},
                       cursor |-> first]
      <3>1. PlanningBecomes(p)
        BY <1>6, <1>7, <1>12, <2>7
      <3>2. lower \in Int /\ lower >= next_due /\ lower <= clock
        <4>1. cron_rule.grace \in Nat
          BY <1>8, CronAssumption DEF CronTypeOK
        <4> QED
          BY <1>4, <1>7, <1>8, <4>1 DEF Window, Later
      <3>3. PICK before : before = lower - 1
        OBVIOUS
      <3>4. before \in Int /\ -1 <= before /\ before <= clock /\ first = NextAfter(e, before)
        BY <1>5, <1>8, <3>2, <3>3 DEF JustBefore
      <3>5. first = NoTime => LookedInVain
        BY <1>1, <1>8, <3>4, NextInVain
      <3>6. first # NoTime =>
              DueAt(e, first) /\ first > before /\ \A t : DueAt(e, t) /\ t > before => first <= t
        BY <3>4, NextDue
      <3>7. first # NoTime => first \in Int /\ lower <= first
        BY <3>2, <3>3, <3>6 DEF DueAt
      <3>8. ASSUME first # NoTime, NEW t \in DueTimes, lower <= t, t < first PROVE FALSE
        <4>1. DueAt(e, t)
          BY <1>1, <1>8 DEF DueTimes, DueAt
        <4>2. t \in Int
          BY <4>1 DEF DueAt
        <4> QED
          BY <3>2, <3>3, <3>6, <3>7, <3>8, <4>1, <4>2
      <3>9. first # NoTime => {} = {t \in DueTimes : lower <= t /\ t < first}
        BY <3>8
      <3>10. cron_rule.misfire = "skip"
        BY <1>8, <2>7 DEF CronTypeOK
      <3>11. Forwards(p)
        BY <1>1, <1>4, <3>5, <3>6, <3>7, <3>9, <3>10 DEF Forwards
      <3>12. Found(p)
        BY <2>4, <3>7 DEF NoTime
      <3>13. PlanOK(p)
        BY <3>11, <3>12 DEF PlanOK
      <3> HIDE DEF p
      <3> QED
        BY <1>8, <3>1, <3>13, PlanIsMade
    <2> QED
      BY <2>5, <2>6, <2>7
  <1> QED
    BY <1>11, <1>12

\* What the walks make of the record of a plan.
LEMMA PlanMoves ==
  ASSUME NEW D, NEW p \in [at : {"planned", "backwards", "forwards"}, next : Int,
                           selected : SUBSET D, skipped : SUBSET D, cursor : Int],
         NEW a, NEW b
  PROVE  /\ [p EXCEPT !.at = "planned"]
              = [at |-> "planned", next |-> p.next, selected |-> p.selected, skipped |-> p.skipped,
                 cursor |-> p.cursor]
         /\ [p EXCEPT !.at = "planned", !.selected = a]
              = [at |-> "planned", next |-> p.next, selected |-> a, skipped |-> p.skipped,
                 cursor |-> p.cursor]
         /\ [p EXCEPT !.selected = a, !.cursor = b]
              = [at |-> p.at, next |-> p.next, selected |-> a, skipped |-> p.skipped, cursor |-> b]
  <1>1. p = [at |-> p.at, next |-> p.next, selected |-> p.selected, skipped |-> p.skipped,
             cursor |-> p.cursor]
    OBVIOUS
  <1>2. PICK v, w, x, y, z : /\ p = [at |-> v, next |-> w, selected |-> x, skipped |-> y, cursor |-> z]
                             /\ p.at = v /\ p.next = w /\ p.selected = x /\ p.skipped = y
                             /\ p.cursor = z
    BY <1>1
  <1>3. [p EXCEPT !.at = "planned"]
          = [at |-> "planned", next |-> w, selected |-> x, skipped |-> y, cursor |-> z]
    BY <1>2
  <1>4. PICK q : q = [p EXCEPT !.at = "planned"]
    OBVIOUS
  <1>5. q = [at |-> "planned", next |-> w, selected |-> x, skipped |-> y, cursor |-> z]
    BY <1>3, <1>4
  <1>6. [p EXCEPT !.at = "planned", !.selected = a]
          = [at |-> "planned", next |-> w, selected |-> a, skipped |-> y, cursor |-> z]
    <2>1. [p EXCEPT !.at = "planned", !.selected = a] = [q EXCEPT !.selected = a]
      BY <1>2, <1>4
    <2>2. [q EXCEPT !.selected = a]
            = [at |-> "planned", next |-> w, selected |-> a, skipped |-> y, cursor |-> z]
      BY <1>5
    <2> QED
      BY <2>1, <2>2
  <1>7. [p EXCEPT !.selected = a, !.cursor = b]
          = [at |-> v, next |-> w, selected |-> a, skipped |-> y, cursor |-> b]
    <2>1. PICK r : r = [p EXCEPT !.selected = a]
      OBVIOUS
    <2>2. r = [at |-> v, next |-> w, selected |-> a, skipped |-> y, cursor |-> z]
      BY <1>2, <2>1
    <2>3. [p EXCEPT !.selected = a, !.cursor = b] = [r EXCEPT !.cursor = b]
      BY <1>2, <2>1
    <2>4. [r EXCEPT !.cursor = b]
            = [at |-> v, next |-> w, selected |-> a, skipped |-> y, cursor |-> b]
      BY <2>2
    <2> QED
      BY <2>3, <2>4
  <1> QED
    BY <1>2, <1>3, <1>6, <1>7

\* The walk forward ends with what it leaves out.
LEMMA PlanSkips ==
  ASSUME NEW D, NEW p \in [at : {"planned", "backwards", "forwards"}, next : Int,
                           selected : SUBSET D, skipped : SUBSET D, cursor : Int],
         NEW a
  PROVE  [p EXCEPT !.at = "planned", !.skipped = a]
           = [at |-> "planned", next |-> p.next, selected |-> p.selected, skipped |-> a,
              cursor |-> p.cursor]
  <1>1. PICK q : q = [p EXCEPT !.at = "planned"]
    OBVIOUS
  <1>2. q = [at |-> "planned", next |-> p.next, selected |-> p.selected, skipped |-> p.skipped,
             cursor |-> p.cursor]
    BY <1>1, PlanMoves
  <1>3. [p EXCEPT !.at = "planned", !.skipped = a] = [q EXCEPT !.skipped = a]
    <2>1. p = [at |-> p.at, next |-> p.next, selected |-> p.selected, skipped |-> p.skipped,
               cursor |-> p.cursor]
      OBVIOUS
    <2>2. PICK v, w, x, y, z : p = [at |-> v, next |-> w, selected |-> x, skipped |-> y, cursor |-> z]
      BY <2>1
    <2> QED
      BY <1>1, <2>2
  <1>4. PICK w, x, y, z : /\ q = [at |-> "planned", next |-> w, selected |-> x, skipped |-> y,
                                  cursor |-> z]
                          /\ p.next = w /\ p.selected = x /\ p.cursor = z
    BY <1>2
  <1>5. [q EXCEPT !.skipped = a]
          = [at |-> "planned", next |-> w, selected |-> x, skipped |-> a, cursor |-> z]
    BY <1>4
  <1> QED
    BY <1>3, <1>4, <1>5

\* The walk back, for catch_up_limited.
LEMMA WalkBackKeepsInv == CronInv /\ WalkBack => CronInv'
  <1> SUFFICES ASSUME CronInv, WalkBack PROVE CronInv'
    OBVIOUS
  <1> DEFINE p == planning
             c == planning.cursor
  <1>1. CronTypeOK /\ clock \in Nat /\ next_due \in Nat /\ Found(p) /\ Backwards(p)
    <2>1. planning.at = "backwards"
      BY DEF WalkBack
    <2> QED
      BY <2>1 DEF CronInv, CronTypeOK, PlanInv, PlanOK, NotPlanning
  <1>2. PICK T : T = p.selected \cup {c}
    OBVIOUS
  <1>3. PICK before : before = PreviousAtOrBefore(cron_rule.expression, JustBefore(c))
    OBVIOUS
  <1>4. PlanningBecomes(
          IF c < next_due THEN [p EXCEPT !.at = "planned"]
          ELSE IF Cardinality(T) >= cron_rule.limit \/ c = next_due
            THEN [p EXCEPT !.at = "planned", !.selected = T]
          ELSE IF before = NoTime THEN [at |-> "raised"]
          ELSE [p EXCEPT !.selected = T, !.cursor = before])
    BY <1>2, <1>3 DEF WalkBack
  <1>5. /\ c \in DueTimes /\ c \in Nat /\ next_due <= c /\ c <= clock
        /\ IsFiniteSet(DueTimes) /\ DueTimes \in SUBSET Int
    BY <1>1, DueTimesFinite DEF Backwards, DueTimes
  <1>6. T = {t \in DueTimes : t >= c}
    <2>1. p.selected = {t \in DueTimes : t > c}
      BY <1>1 DEF Backwards
    <2>2. \A t \in DueTimes : t >= c <=> t > c \/ t = c
      BY <1>5
    <2> QED
      BY <1>2, <1>5, <2>1, <2>2
  <1>7. IsFiniteSet(T) /\ Cardinality(T) \in Nat /\ Cardinality(T) <= cron_rule.limit
        /\ cron_rule.limit \in Nat
    <2>1. p.selected \in SUBSET DueTimes /\ Cardinality(p.selected) < cron_rule.limit
      BY <1>1 DEF Backwards
    <2>2. IsFiniteSet(p.selected) /\ Cardinality(p.selected) \in Nat
      BY <1>5, <2>1, FS_Subset, FS_CardinalityType
    <2>3. c \notin p.selected
      BY <1>1, <1>5 DEF Backwards
    <2>4. IsFiniteSet(T) /\ Cardinality(T) = Cardinality(p.selected) + 1
      BY <1>2, <2>2, <2>3, FS_AddElement
    <2>5. cron_rule.limit \in 1..100
      BY <1>1, CronAssumption DEF CronTypeOK
    <2> QED
      BY <2>1, <2>2, <2>4, <2>5
  <1>8. /\ p.next \in Int /\ p.at = "backwards" /\ p.skipped = {} /\ T \in SUBSET DueTimes
    BY <1>1, <1>6 DEF Found, Backwards, WalkBack
  <1>9. ASSUME NEW at \in {"planned", "backwards"}, NEW cursor \in Int
        PROVE  Found([at |-> at, next |-> p.next, selected |-> T, skipped |-> {}, cursor |-> cursor])
    BY <1>1, <1>8 DEF Found
  <1>10. CASE Cardinality(T) >= cron_rule.limit \/ c = next_due
    <2> DEFINE q == [at |-> "planned", next |-> p.next, selected |-> T, skipped |-> {}, cursor |-> c]
    <2>1. PlanningBecomes(q)
      <3>1. [p EXCEPT !.at = "planned", !.selected = T] = q
        <4>1. p \in [at : {"planned", "backwards", "forwards"}, next : Int,
                     selected : SUBSET DueTimes, skipped : SUBSET DueTimes, cursor : Int]
          BY <1>1 DEF Found
        <4>2. [p EXCEPT !.at = "planned", !.selected = T]
                = [at |-> "planned", next |-> p.next, selected |-> T, skipped |-> p.skipped,
                   cursor |-> p.cursor]
          BY <4>1, PlanMoves
        <4> QED
          BY <1>8, <4>2
      <3>2. ~(c < next_due)
        BY <1>1, <1>5
      <3> QED
        BY <1>4, <1>10, <3>1, <3>2
    <2>2. LastOnes(DueTimes, cron_rule.limit) = T
      <3>1. CASE Cardinality(T) = cron_rule.limit
        BY <1>5, <1>6, <3>1, LastOnesFrom
      <3>2. CASE c = next_due
        <4>1. \A t \in DueTimes : t >= c
          BY <1>5, <3>2 DEF DueTimes
        <4>2. T = DueTimes
          BY <1>6, <4>1
        <4> QED
          BY <1>5, <1>7, <4>2, LastOnesOfFew
      <3> QED
        BY <1>7, <1>10, <3>1, <3>2
    <2>3. Planned(q)
      <3>1. cron_rule.misfire = "catch_up_limited"
        BY <1>1 DEF Backwards
      <3> QED
        BY <2>2, <3>1 DEF Planned
    <2>4. Found(q)
      BY <1>5, <1>9
    <2>5. PlanOK(q)
      BY <2>3, <2>4 DEF PlanOK
    <2> HIDE DEF q
    <2> QED
      BY <1>1, <2>1, <2>5, PlanIsMade
  <1>11. CASE ~(Cardinality(T) >= cron_rule.limit \/ c = next_due)
    <2>1. PICK tick \in Int : tick = c - 1
      BY <1>5
    <2>2. next_due <= tick /\ tick <= clock /\ before = PreviousAtOrBefore(cron_rule.expression, tick)
      <3>1. next_due < c
        BY <1>1, <1>5, <1>11
      <3>2. next_due <= tick /\ tick <= clock
        BY <1>1, <1>5, <2>1, <3>1
      <3> QED
        BY <1>3, <2>1, <3>2 DEF JustBefore
    <2>3. IF before = NoTime THEN LookedInVain
          ELSE before \in DueTimes /\ before <= tick /\ \A t \in DueTimes : t <= tick => t <= before
      BY <1>1, <2>2, PreviousIsDue
    <2>4. ~(c < next_due)
      BY <1>1, <1>5
    <2>5. CASE before = NoTime
      <3>1. PlanningBecomes([at |-> "raised"])
        BY <1>4, <1>11, <2>4, <2>5
      <3>2. PlanOK([at |-> "raised"])
        BY <2>3, <2>5 DEF PlanOK
      <3> QED
        BY <1>1, <3>1, <3>2, PlanIsMade
    <2>6. CASE before # NoTime
      <3> DEFINE q == [at |-> "backwards", next |-> p.next, selected |-> T, skipped |-> {},
                       cursor |-> before]
      <3>1. PlanningBecomes(q)
        <4>1. [p EXCEPT !.selected = T, !.cursor = before] = q
          <5>1. p \in [at : {"planned", "backwards", "forwards"}, next : Int,
                       selected : SUBSET DueTimes, skipped : SUBSET DueTimes, cursor : Int]
            BY <1>1 DEF Found
          <5>2. [p EXCEPT !.selected = T, !.cursor = before]
                  = [at |-> p.at, next |-> p.next, selected |-> T, skipped |-> p.skipped,
                     cursor |-> before]
            BY <5>1, PlanMoves
          <5> QED
            BY <1>8, <5>2
        <4> QED
          BY <1>4, <1>11, <2>4, <2>6, <4>1
      <3>2. before \in DueTimes /\ before \in Int /\ before < c
        <4>1. before \in DueTimes /\ before <= tick
          BY <2>3, <2>6
        <4>2. before \in Int
          BY <1>5, <4>1
        <4> QED
          BY <1>5, <2>1, <4>1, <4>2
      <3>3. T = {t \in DueTimes : t > before}
        <4>1. \A t \in DueTimes : t >= c <=> t > before
          <5> SUFFICES ASSUME NEW t \in DueTimes PROVE t >= c <=> t > before
            OBVIOUS
          <5>1. t \in Int /\ (t <= tick => t <= before)
            BY <1>5, <2>3, <2>6
          <5> QED
            BY <1>5, <2>1, <3>2, <5>1
        <4> QED
          BY <1>6, <4>1
      <3>4. Cardinality(T) < cron_rule.limit
        BY <1>7, <1>11
      <3>5. cron_rule.misfire = "catch_up_limited"
        BY <1>1 DEF Backwards
      <3>6. Backwards(q)
        BY <3>2, <3>3, <3>4, <3>5 DEF Backwards
      <3>7. Found(q)
        BY <1>9, <3>2
      <3>8. PlanOK(q)
        BY <3>6, <3>7 DEF PlanOK
      <3> HIDE DEF q
      <3> QED
        BY <1>1, <3>1, <3>8, PlanIsMade
    <2> QED
      BY <2>5, <2>6
  <1> QED
    BY <1>10, <1>11

\* The walk forward, for "skip".
LEMMA WalkForwardKeepsInv == CronInv /\ WalkForward => CronInv'
  <1> SUFFICES ASSUME CronInv, WalkForward PROVE CronInv'
    OBVIOUS
  <1> DEFINE p == planning
             c == planning.cursor
             e == cron_rule.expression
  <1>1. CronTypeOK /\ clock \in Nat /\ next_due \in Nat /\ Found(p) /\ Forwards(p)
    <2>1. planning.at = "forwards"
      BY DEF WalkForward
    <2> QED
      BY <2>1 DEF CronInv, CronTypeOK, PlanInv, PlanOK, NotPlanning
  <1>2. PICK T : T = p.selected \cup {c}
    OBVIOUS
  <1>3. PICK older : older = PreviousAtOrBefore(e, JustBefore(Window))
    OBVIOUS
  <1>4. PICK next : next = NextAfter(e, c)
    OBVIOUS
  <1>5. PlanningBecomes(
          IF c = NoTime THEN [at |-> "raised"]
          ELSE IF c <= clock
            THEN IF Cardinality(T) > MaxSlots THEN [at |-> "raised"]
                 ELSE [p EXCEPT !.selected = T, !.cursor = next]
          ELSE IF next_due = Window THEN [p EXCEPT !.at = "planned"]
          ELSE IF older = NoTime THEN [at |-> "raised"]
          ELSE [p EXCEPT !.at = "planned",
                         !.skipped = IF older >= next_due THEN {older} ELSE {}])
    BY <1>2, <1>3, <1>4 DEF WalkForward, Window
  <1>6. PICK grace \in Nat : grace = cron_rule.grace
    BY <1>1, CronAssumption DEF CronTypeOK
  <1>7. next_due <= clock
    BY <1>1 DEF Found
  <1>8. PICK lower \in Int : /\ lower = Window /\ next_due <= lower /\ lower <= clock
                             /\ clock - grace <= lower
                             /\ lower = next_due \/ lower = clock - grace
    BY <1>1, <1>6, <1>7 DEF Window, Later
  <1>9. /\ p.next \in Int /\ p.at = "forwards" /\ p.skipped = {} /\ cron_rule.misfire = "skip"
        /\ p.selected \in SUBSET DueTimes /\ c \in Int
    BY <1>1 DEF Found, Forwards, WalkForward
  <1>10. ASSUME NEW at \in {"planned", "forwards"}, NEW selected \in SUBSET DueTimes,
                NEW skipped \in SUBSET DueTimes, NEW cursor \in Int
         PROVE  Found([at |-> at, next |-> p.next, selected |-> selected, skipped |-> skipped,
                       cursor |-> cursor])
    BY <1>1, <1>9 DEF Found
  <1>11. \A t \in DueTimes : DueAt(e, t) /\ t \in Int /\ next_due <= t /\ t <= clock
    BY <1>1 DEF DueTimes, DueAt
  <1>12. CASE c = NoTime
    <2>1. LookedInVain
      BY <1>1, <1>12 DEF Forwards
    <2>2. PlanningBecomes([at |-> "raised"]) /\ PlanOK([at |-> "raised"])
      BY <1>5, <1>12, <2>1 DEF PlanOK
    <2> QED
      BY <1>1, <2>2, PlanIsMade
  <1>13. ASSUME c # NoTime
         PROVE  /\ DueAt(e, c) /\ lower <= c
                /\ p.selected = {t \in DueTimes : lower <= t /\ t < c}
    BY <1>1, <1>8, <1>13 DEF Forwards
  <1>14. CASE c # NoTime /\ c <= clock
    <2>1. c \in DueTimes
      BY <1>1, <1>8, <1>9, <1>13, <1>14 DEF DueTimes, DueAt
    <2>2. T = {t \in DueTimes : lower <= t /\ t <= c}
      <3>1. \A t \in DueTimes : lower <= t /\ t <= c <=> (lower <= t /\ t < c) \/ t = c
        BY <1>8, <1>9, <1>11, <1>13, <1>14
      <3> QED
        BY <1>2, <1>13, <1>14, <2>1, <3>1
    <2>3. T \in SUBSET DueTimes /\ \A t \in T : clock - cron_rule.grace <= t
      BY <1>1, <1>6, <1>8, <1>11, <2>2
    <2>4. Cardinality(T) <= MaxSlots /\ Cardinality(T) \in Nat /\ MaxSlots \in Int
      BY <1>1, <2>3, SlotsSuffice
    <2> DEFINE q == [at |-> "forwards", next |-> p.next, selected |-> T, skipped |-> {},
                     cursor |-> next]
    <2>5. PlanningBecomes(q)
      <3>1. [p EXCEPT !.selected = T, !.cursor = next] = q
        <4>1. p \in [at : {"planned", "backwards", "forwards"}, next : Int,
                     selected : SUBSET DueTimes, skipped : SUBSET DueTimes, cursor : Int]
          BY <1>1 DEF Found
        <4>2. [p EXCEPT !.selected = T, !.cursor = next]
                = [at |-> p.at, next |-> p.next, selected |-> T, skipped |-> p.skipped,
                   cursor |-> next]
          BY <4>1, PlanMoves
        <4> QED
          BY <1>9, <4>2
      <3>2. ~(Cardinality(T) > MaxSlots)
        BY <2>4
      <3> QED
        BY <1>5, <1>14, <3>1, <3>2
    <2>6. CASE next = NoTime
      <3>1. -1 <= c /\ c <= clock
        BY <1>1, <1>8, <1>9, <1>13, <1>14
      <3>2. LookedInVain
        BY <1>1, <1>4, <1>9, <2>6, <3>1, NextInVain
      <3>3. Forwards(q)
        BY <1>9, <2>6, <3>2 DEF Forwards
      <3>4. Found(q)
        <4>1. next \in Int
          BY <2>6 DEF NoTime
        <4> QED
          BY <1>10, <2>3, <4>1
      <3>5. PlanOK(q)
        BY <3>3, <3>4 DEF PlanOK
      <3> HIDE DEF q
      <3> QED
        BY <1>1, <2>5, <3>5, PlanIsMade
    <2>7. CASE next # NoTime
      <3>1. DueAt(e, next) /\ next > c /\ \A t : DueAt(e, t) /\ t > c => next <= t
        BY <1>4, <1>9, <2>7, NextDue
      <3>2. next \in Int /\ lower <= next
        <4>1. next \in Int
          BY <3>1 DEF DueAt
        <4> QED
          BY <1>8, <1>9, <1>13, <1>14, <3>1, <4>1
      <3>3. T = {t \in DueTimes : lower <= t /\ t < next}
        <4>1. \A t \in DueTimes : t <= c <=> t < next
          <5> SUFFICES ASSUME NEW t \in DueTimes PROVE t <= c <=> t < next
            OBVIOUS
          <5>1. t \in Int /\ (t > c => next <= t)
            BY <1>11, <3>1
          <5> QED
            BY <1>9, <3>1, <3>2, <5>1
        <4> QED
          BY <2>2, <4>1
      <3>4. Forwards(q)
        BY <1>8, <1>9, <2>7, <3>1, <3>2, <3>3 DEF Forwards
      <3>5. Found(q)
        BY <1>10, <2>3, <3>2
      <3>6. PlanOK(q)
        BY <3>4, <3>5 DEF PlanOK
      <3> HIDE DEF q
      <3> QED
        BY <1>1, <2>5, <3>6, PlanIsMade
    <2> QED
      BY <2>6, <2>7
  <1>15. CASE c # NoTime /\ ~(c <= clock)
    <2>1. p.selected = RecentDue
      <3>1. \A t \in DueTimes : (lower <= t /\ t < c) <=> t >= clock - cron_rule.grace
        <4> SUFFICES ASSUME NEW t \in DueTimes
                     PROVE  (lower <= t /\ t < c) <=> t >= clock - grace
          BY <1>6
        <4>1. t \in Int /\ next_due <= t /\ t <= clock
          BY <1>11
        <4> QED
          BY <1>1, <1>8, <1>9, <1>15, <4>1
      <3> QED
        BY <1>13, <1>15, <3>1 DEF RecentDue
    <2>2. DueTimes \ RecentDue = {t \in DueTimes : t < clock - grace}
      <3>1. \A t \in DueTimes : ~(t >= clock - cron_rule.grace) <=> t < clock - grace
        <4> SUFFICES ASSUME NEW t \in DueTimes PROVE ~(t >= clock - grace) <=> t < clock - grace
          BY <1>6
        <4>1. t \in Int
          BY <1>11
        <4> QED
          BY <1>1, <1>6, <4>1
      <3> QED
        BY <3>1 DEF RecentDue
    <2>3. ASSUME NEW skipped \in SUBSET DueTimes, LastOnes(DueTimes \ RecentDue, 1) = skipped,
                 PlanningBecomes([p EXCEPT !.at = "planned", !.skipped = skipped])
          PROVE  CronInv'
      <3> DEFINE q == [at |-> "planned", next |-> p.next, selected |-> p.selected,
                       skipped |-> skipped, cursor |-> c]
      <3>1. PlanningBecomes(q)
        <4>1. [p EXCEPT !.at = "planned", !.skipped = skipped] = q
          <5>1. p \in [at : {"planned", "backwards", "forwards"}, next : Int,
                       selected : SUBSET DueTimes, skipped : SUBSET DueTimes, cursor : Int]
            BY <1>1 DEF Found
          <5>2. [p EXCEPT !.at = "planned", !.skipped = skipped]
                  = [at |-> "planned", next |-> p.next, selected |-> p.selected,
                     skipped |-> skipped, cursor |-> p.cursor]
            BY <5>1, PlanSkips
          <5> QED
            BY <5>2
        <4> QED
          BY <2>3, <4>1
      <3>2. Planned(q)
        BY <1>9, <2>1, <2>3 DEF Planned
      <3>3. Found(q)
        BY <1>9, <1>10
      <3>4. PlanOK(q)
        BY <3>2, <3>3 DEF PlanOK
      <3> HIDE DEF q
      <3> QED
        BY <1>1, <3>1, <3>4, PlanIsMade
    <2>4. CASE next_due = lower
      <3>1. DueTimes \ RecentDue = {}
        <4>1. \A t \in DueTimes : ~(t < clock - grace)
          <5> SUFFICES ASSUME NEW t \in DueTimes PROVE ~(t < clock - grace)
            OBVIOUS
          <5>1. t \in Int /\ next_due <= t
            BY <1>11
          <5> QED
            BY <1>1, <1>8, <2>4, <5>1
        <4> QED
          BY <2>2, <4>1
      <3>2. LastOnes({}, 1) = {}
        BY DEF LastOnes
      <3>3. PlanningBecomes([p EXCEPT !.at = "planned"])
        BY <1>5, <1>8, <1>15, <2>4
      <3>4. [p EXCEPT !.at = "planned"] = [p EXCEPT !.at = "planned", !.skipped = {}]
        BY <1>1, <1>9, PlanMoves DEF Found
      <3> QED
        BY <2>3, <3>1, <3>2, <3>3, <3>4
    <2>5. CASE next_due # lower
      <3>1. PICK tick \in Int : tick = lower - 1
        OBVIOUS
      <3>2. lower = clock - grace /\ next_due <= tick /\ tick <= clock
            /\ older = PreviousAtOrBefore(e, tick)
        <4>1. lower = clock - grace /\ next_due <= tick /\ tick <= clock
          BY <1>1, <1>8, <2>5, <3>1
        <4> QED
          BY <1>3, <1>8, <3>1, <4>1 DEF JustBefore
      <3>3. IF older = NoTime THEN LookedInVain
            ELSE older \in DueTimes /\ older <= tick /\ \A t \in DueTimes : t <= tick => t <= older
        BY <1>1, <3>2, PreviousIsDue
      <3>4. CASE older = NoTime
        <4>1. PlanningBecomes([at |-> "raised"])
          BY <1>5, <1>8, <1>15, <2>5, <3>4
        <4>2. PlanOK([at |-> "raised"])
          BY <3>3, <3>4 DEF PlanOK
        <4> QED
          BY <1>1, <4>1, <4>2, PlanIsMade
      <3>5. CASE older # NoTime
        <4>1. older \in DueTimes /\ older >= next_due /\ older \in Int
          BY <1>11, <3>3, <3>5, <1>1
        <4>2. PlanningBecomes([p EXCEPT !.at = "planned", !.skipped = {older}])
          BY <1>5, <1>8, <1>15, <2>5, <3>5, <4>1
        <4>3. PICK S : S = DueTimes \ RecentDue
          OBVIOUS
        <4>4. S \in SUBSET DueTimes /\ S \in SUBSET Int /\ IsFiniteSet(S)
          BY <1>1, <1>11, <4>3, DueTimesFinite, FS_Subset
        <4>5. older \in S
          BY <2>2, <3>1, <3>2, <3>3, <3>5, <4>1, <4>3
        <4>6. \A t \in S : t <= older
          <5> SUFFICES ASSUME NEW t \in S PROVE t <= older
            OBVIOUS
          <5>1. t \in DueTimes /\ t \in Int /\ t < clock - grace
            BY <1>11, <2>2, <4>3
          <5>2. t <= tick
            BY <3>1, <3>2, <5>1
          <5> QED
            BY <3>3, <3>5, <5>1, <5>2
        <4>7. LastOnes(S, 1) = {older}
          BY <4>4, <4>5, <4>6, LastOne
        <4>8. {older} \in SUBSET DueTimes
          BY <4>1
        <4> QED
          BY <2>3, <4>2, <4>3, <4>7, <4>8
      <3> QED
        BY <3>4, <3>5
    <2> QED
      BY <2>4, <2>5
  <1> QED
    BY <1>12, <1>14, <1>15

\* The schedule goes on from the first due time to come.
LEMMA FinishPlanKeepsInv == CronInv /\ FinishPlan => CronInv'
  <1> SUFFICES ASSUME CronInv, FinishPlan PROVE CronInv'
    OBVIOUS
  <1>1. /\ planning' = NotPlanning /\ cron_rule' = cron_rule /\ clock' = clock
        /\ next_due' = IF planning.at = "planned" THEN planning.next ELSE next_due
    BY DEF FinishPlan
  <1>2. planning.at = "planned" => Found(planning)
    BY DEF CronInv, PlanInv, PlanOK, NotPlanning
  <1>3. planning.at = "planned" =>
          planning.next \in Nat /\ DueAt(cron_rule.expression, planning.next)
    BY <1>2 DEF Found, CronInv, CronTypeOK
  <1>4. CronTypeOK'
    BY <1>1, <1>3 DEF CronInv, CronTypeOK
  <1> QED
    BY <1>1, <1>4 DEF CronInv, PlanInv, PlanOK

LEMMA CronInitInv == CronInit => CronInv
  <1> SUFFICES ASSUME CronInit PROVE CronInv
    OBVIOUS
  <1>1. PICK e : e = cron_rule.expression
    OBVIOUS
  <1>2. next_due = NextAfter(e, 0) /\ next_due # NoTime
    BY <1>1 DEF CronInit
  <1>3. DueAt(e, next_due) /\ next_due > 0
    BY <1>2, NextDue
  <1>4. next_due \in Nat
    BY <1>3 DEF DueAt
  <1>5. CronTypeOK
    BY <1>1, <1>3, <1>4 DEF CronInit, CronTypeOK
  <1> QED
    BY <1>5 DEF CronInv, PlanInv, PlanOK, CronInit

LEMMA CronNextKeepsInv == CronInv /\ [CronNext]_cronVars => CronInv'
  <1> SUFFICES ASSUME CronInv, [CronNext]_cronVars PROVE CronInv'
    OBVIOUS
  <1>1. CASE ClockTicks
    BY <1>1 DEF ClockTicks, CronInv, CronTypeOK, PlanInv, PlanOK
  <1>2. CASE UNCHANGED cronVars
    <2>1. UNCHANGED <<cron_rule, next_due, clock>> /\ planning' = planning
      BY <1>2 DEF cronVars
    <2>2. PlanningBecomes(planning)
      BY <2>1 DEF PlanningBecomes
    <2> QED
      BY <2>2, PlanIsMade DEF CronInv, PlanInv
  <1> QED
    BY <1>1, <1>2, BeginPlanKeepsInv, WalkBackKeepsInv, WalkForwardKeepsInv, FinishPlanKeepsInv
    DEF CronNext

LEMMA PlansCover == CronInv => PlansCoverTheBacklog
  <1> SUFFICES ASSUME CronInv PROVE PlansCoverTheBacklog
    OBVIOUS
  <1> DEFINE e == cron_rule.expression
  <1>1. clock \in Nat
    BY DEF CronInv, CronTypeOK
  <1>2. planning.at = "planned" => Found(planning) /\ Planned(planning)
    BY DEF CronInv, PlanInv, PlanOK, NotPlanning
  <1>3. planning.at = "raised" => LookedInVain
    BY DEF CronInv, PlanInv, PlanOK, NotPlanning, Found
  <1>4. ASSUME planning.at = "planned"
        PROVE  /\ planning.next > clock /\ CronMatches(e, MinuteOf(planning.next))
               /\ \A m \in MinuteOf(clock + 2 - (clock % 2))..MinuteOf(planning.next - 1) :
                    ~CronMatches(e, m)
    <2>1. /\ planning.next \in Int /\ planning.next > clock /\ planning.next % 2 = 0
          /\ CronMatches(e, MinuteOf(planning.next))
          /\ NoMatch(e, MinuteOf(clock) + 1, MinuteOf(planning.next) - 1)
      BY <1>2, <1>4 DEF Found, DueAt
    <2>2. MinuteOf(clock + 2 - (clock % 2)) = MinuteOf(clock) + 1
      BY <1>1 DEF MinuteOf
    <2>3. MinuteOf(planning.next - 1) = MinuteOf(planning.next) - 1
      BY <2>1 DEF MinuteOf
    <2> QED
      BY <2>1, <2>2, <2>3 DEF NoMatch
  <1> QED
    BY <1>2, <1>3, <1>4 DEF PlansCoverTheBacklog, Planned, RecentDue, LookedInVain, NoMatch

\* However late a scheduler comes, the plan that _cron_due_plan walks together
\* is the one its policy describes on the whole backlog, and the schedule goes
\* on with the first due time to come; the walk is given up only when no minute
\* matches for as long as the searches look.
THEOREM BacklogIsCovered == CronSpec => []PlansCoverTheBacklog
  BY CronInitInv, CronNextKeepsInv, PlansCover, PTL DEF CronSpec

-----------------------------------------------------------------------------
(***************************************************************************)
(* The plans that Scheduler takes as given.  It numbers the due times, and *)
(* its SelectedAndSkipped must leave open no more than what the walks come *)
(* to, whatever number the first due time of the backlog has.              *)
(***************************************************************************)
Place(S, t) == Cardinality({u \in S : u <= t})
Number(first, t) == first - 1 + Place(DueTimes, t)
Numbered(first, S) == {Number(first, t) : t \in S}

\* The walks of CronPlans come to a plan of Scheduler.
PlansAreAsScheduled ==
  planning.at = "planned" /\ cron_rule.limit = CatchUpLimit =>
    \A first \in Nat \ {0} :
      <<Numbered(first, planning.selected), Numbered(first, planning.skipped)>>
        \in SelectedAndSkipped(cron_rule.misfire, first, first - 1 + Cardinality(DueTimes))

LEMMA PlaceInRange ==
  ASSUME NEW S \in SUBSET Nat, IsFiniteSet(S), NEW t \in S
  PROVE  Cardinality(S) \in Nat /\ Place(S, t) \in 1..Cardinality(S)
  <1>1. PICK U : U = {u \in S : u <= t}
    OBVIOUS
  <1>2. U \in SUBSET S /\ t \in U
    BY <1>1
  <1>3. /\ IsFiniteSet(U) /\ Cardinality(U) <= Cardinality(S)
        /\ Cardinality(U) \in Nat /\ Cardinality(S) \in Nat
    BY <1>2, FS_Subset, FS_CardinalityType
  <1>4. Cardinality(U) # 0
    BY <1>2, <1>3, FS_EmptySet
  <1> QED
    BY <1>1, <1>3, <1>4 DEF Place

LEMMA PlaceMonotone ==
  ASSUME NEW S \in SUBSET Nat, IsFiniteSet(S), NEW t \in S, NEW v \in S, t < v
  PROVE  Place(S, t) < Place(S, v)
  <1>1. PICK U, V : U = {u \in S : u <= t} /\ V = {u \in S : u <= v}
    OBVIOUS
  <1>2. \A u \in S : u \in Int /\ t \in Int /\ v \in Int
    OBVIOUS
  <1>3. U \cup {v} \in SUBSET V /\ v \notin U /\ U \in SUBSET S /\ V \in SUBSET S
    <2>1. \A u \in U : u \in V
      BY <1>1, <1>2
    <2>2. v \in V /\ v \notin U
      BY <1>1, <1>2
    <2>3. U \in SUBSET S /\ V \in SUBSET S
      BY <1>1
    <2> QED
      BY <2>1, <2>2, <2>3
  <1>4. IsFiniteSet(U) /\ IsFiniteSet(V) /\ Cardinality(U) \in Nat /\ Cardinality(V) \in Nat
    BY <1>3, FS_Subset, FS_CardinalityType
  <1>5. Cardinality(U \cup {v}) = Cardinality(U) + 1
    BY <1>3, <1>4, FS_AddElement
  <1>6. Cardinality(U \cup {v}) <= Cardinality(V)
    BY <1>3, <1>4, FS_Subset
  <1> QED
    BY <1>1, <1>4, <1>5, <1>6 DEF Place

\* The places of a set's elements are in their order.
LEMMA PlaceOrders ==
  ASSUME NEW S \in SUBSET Nat, IsFiniteSet(S), NEW t \in S, NEW v \in S
  PROVE  t <= v <=> Place(S, t) <= Place(S, v)
  <1>1. t \in Int /\ v \in Int /\ Place(S, t) \in Int /\ Place(S, v) \in Int
    BY PlaceInRange
  <1>2. t < v => Place(S, t) < Place(S, v)
    BY PlaceMonotone
  <1>3. v < t => Place(S, v) < Place(S, t)
    BY PlaceMonotone
  <1>4. t = v => Place(S, t) = Place(S, v)
    OBVIOUS
  <1> QED
    BY <1>1, <1>2, <1>3, <1>4

\* Every place is taken.
LEMMA PlaceTaken ==
  ASSUME NEW S \in SUBSET Nat, IsFiniteSet(S), NEW i \in 1..Cardinality(S)
  PROVE  \E t \in S : Place(S, t) = i
  <1> DEFINE f == [t \in S |-> Place(S, t)]
  <1>1. Cardinality(S) \in Nat
    BY FS_CardinalityType
  <1>2. PICK P : P = 1..Cardinality(S)
    OBVIOUS
  <1>3. IsFiniteSet(P) /\ Cardinality(P) = Cardinality(S)
    BY <1>1, <1>2, FS_Interval
  <1>4. f \in [S -> P]
    BY <1>2, PlaceInRange
  <1>5. ASSUME NEW t \in S, NEW v \in S, f[t] = f[v] PROVE t = v
    <2>1. Place(S, t) = Place(S, v) /\ Place(S, t) \in Int
      BY <1>5, PlaceInRange
    <2>2. t <= v /\ v <= t
      BY <2>1, PlaceOrders
    <2>3. t \in Int /\ v \in Int
      OBVIOUS
    <2> QED
      BY <2>2, <2>3
  <1>6. f \in Injection(S, P)
    BY <1>4, <1>5 DEF Injection, IsInjective
  <1>7. f \in Surjection(S, P)
    <2> HIDE DEF f
    <2> QED
      BY <1>3, <1>6, FS_Injection
  <1>8. \E t \in S : f[t] = i
    BY <1>2, <1>7 DEF Surjection
  <1> QED
    BY <1>8

\* How many come after an element, itself included.
LEMMA PlaceFromTheEnd ==
  ASSUME NEW S \in SUBSET Nat, IsFiniteSet(S), NEW t \in S
  PROVE  Cardinality({u \in S : u >= t}) = Cardinality(S) - Place(S, t) + 1
  <1>1. PICK U, V : U = {u \in S : u <= t} /\ V = {u \in S : u >= t}
    OBVIOUS
  <1>2. \A u \in S : u \in Int /\ t \in Int
    OBVIOUS
  <1>3. U \cup V = S /\ U \cap V = {t} /\ U \in SUBSET S /\ V \in SUBSET S
    <2>1. \A u \in S : u \in U \/ u \in V
      BY <1>1, <1>2
    <2>2. \A u \in S : u \in U /\ u \in V <=> u = t
      BY <1>1, <1>2
    <2>3. U \in SUBSET S /\ V \in SUBSET S
      BY <1>1
    <2> QED
      BY <2>1, <2>2, <2>3
  <1>4. /\ IsFiniteSet(U) /\ IsFiniteSet(V) /\ Cardinality(U) \in Nat /\ Cardinality(V) \in Nat
        /\ Cardinality(S) \in Nat
    BY <1>3, FS_Subset, FS_CardinalityType
  <1>5. Cardinality(U \cup V) = Cardinality(U) + Cardinality(V) - Cardinality(U \cap V)
    BY <1>4, FS_Union
  <1>6. Cardinality({t}) = 1
    BY FS_Singleton
  <1>7. Place(S, t) = Cardinality(U) /\ Cardinality({u \in S : u >= t}) = Cardinality(V)
    BY <1>1 DEF Place
  <1>8. Cardinality(S) = Cardinality(U) + Cardinality(V) - 1
    BY <1>3, <1>5, <1>6
  <1> QED
    BY <1>4, <1>7, <1>8

\* The last k have the last k places.
LEMMA PlacesOfTheLast ==
  ASSUME NEW S \in SUBSET Nat, IsFiniteSet(S), NEW k \in Nat
  PROVE  {Place(S, t) : t \in LastOnes(S, k)} = {i \in 1..Cardinality(S) : i > Cardinality(S) - k}
  <1>1. Cardinality(S) \in Nat
    BY FS_CardinalityType
  <1>2. ASSUME NEW t \in S
        PROVE  t \in LastOnes(S, k) <=> Place(S, t) > Cardinality(S) - k
    <2>1. Place(S, t) \in Int
      BY PlaceInRange
    <2> QED
      BY <1>1, <2>1, PlaceFromTheEnd DEF LastOnes
  <1>3. \A t \in LastOnes(S, k) : t \in S
    BY DEF LastOnes
  <1>4. ASSUME NEW t \in LastOnes(S, k)
        PROVE  Place(S, t) \in {i \in 1..Cardinality(S) : i > Cardinality(S) - k}
    BY <1>2, <1>3, PlaceInRange
  <1>5. ASSUME NEW i \in 1..Cardinality(S), i > Cardinality(S) - k
        PROVE  \E t \in LastOnes(S, k) : Place(S, t) = i
    BY <1>2, <1>5, PlaceTaken
  <1> QED
    BY <1>4, <1>5

\* What is closed upwards has the places from some g on, and the last one that
\* is left out, if there is one, has the place before.
LEMMA PlacesFromOneOn ==
  ASSUME NEW S \in SUBSET Nat, IsFiniteSet(S), NEW U \in SUBSET S,
         \A t \in U, u \in S : t <= u => u \in U
  PROVE  \E g \in 1..(Cardinality(S) + 1) :
           /\ {Place(S, t) : t \in U} = g..Cardinality(S)
           /\ {Place(S, t) : t \in LastOnes(S \ U, 1)} = {g - 1} \cap 1..Cardinality(S)
  <1>1. PICK n \in Nat : n = Cardinality(S)
    BY FS_CardinalityType
  <1>2. \A t \in S : t \in Int /\ Place(S, t) \in 1..n
    BY <1>1, PlaceInRange
  <1>3. PICK g \in 1..(n + 1) : \A t \in S : t \in U <=> Place(S, t) >= g
    <2>1. CASE U = {}
      <3>1. n + 1 \in 1..(n + 1) /\ \A t \in S : t \in U <=> Place(S, t) >= n + 1
        BY <1>2, <2>1
      <3> QED
        BY <3>1
    <2>2. CASE U # {}
      <3>1. 0 \in Int /\ \A x \in U : x \in Int /\ 0 <= x
        OBVIOUS
      <3>2. PICK c \in U : \A x \in U : c <= x
        BY <2>2, <3>1, LeastExists
      <3>3. \A t \in S : t \in U <=> c <= t
        BY <3>2
      <3>4. \A t \in S : c <= t <=> Place(S, c) <= Place(S, t)
        BY PlaceOrders
      <3>5. Place(S, c) \in 1..(n + 1)
        BY <1>2
      <3>6. \A t \in S : t \in U <=> Place(S, t) >= Place(S, c)
        BY <1>2, <3>3, <3>4
      <3> QED
        BY <3>5, <3>6
    <2> QED
      BY <2>1, <2>2
  <1>4. {Place(S, t) : t \in U} = g..n
    <2>1. \A t \in U : t \in S /\ Place(S, t) \in g..n
      BY <1>2, <1>3
    <2>2. ASSUME NEW i \in g..n PROVE \E t \in U : Place(S, t) = i
      <3>1. i \in 1..n
        OBVIOUS
      <3>2. PICK t \in S : Place(S, t) = i
        BY <1>1, <3>1, PlaceTaken
      <3> QED
        BY <1>3, <3>2
    <2> QED
      BY <2>1, <2>2
  <1>5. {Place(S, t) : t \in LastOnes(S \ U, 1)} = {g - 1} \cap 1..n
    <2>1. CASE S \ U = {}
      <3>1. LastOnes(S \ U, 1) = {}
        BY <2>1 DEF LastOnes
      <3>2. g - 1 \notin 1..n
        <4> SUFFICES ASSUME g - 1 \in 1..n PROVE FALSE
          OBVIOUS
        <4>1. PICK t \in S : Place(S, t) = g - 1
          BY <1>1, PlaceTaken
        <4>2. t \notin U
          BY <1>3, <4>1
        <4> QED
          BY <2>1, <4>2
      <3> QED
        BY <3>1, <3>2
    <2>2. CASE S \ U # {}
      <3>1. PICK D : D = S \ U
        OBVIOUS
      <3>2. D \in SUBSET S /\ IsFiniteSet(D) /\ D # {}
        BY <2>2, <3>1, FS_Subset
      <3>3. PICK b \in Nat : \A x \in S : x <= b
        <4>1. PICK last \in S : Place(S, last) = n
          <5>1. n \in 1..n
            <6>1. PICK t : t \in S
              BY <2>2
            <6> QED
              BY <1>2, <6>1
          <5> QED
            BY <1>1, <5>1, PlaceTaken
        <4>2. \A x \in S : x <= last
          BY <1>2, <4>1, PlaceOrders
        <4> QED
          BY <4>2
      <3>4. PICK d \in D : \A x \in D : x <= d
        <4>1. b \in Int /\ \A x \in D : x \in Int /\ x <= b
          BY <3>2, <3>3
        <4> QED
          BY <3>2, <4>1, GreatestExists
      <3>5. LastOnes(D, 1) = {d}
        <4>1. D \in SUBSET Int
          BY <3>2
        <4> QED
          BY <3>2, <3>4, <4>1, LastOne
      <3>6. d \in S /\ Place(S, d) \in 1..n /\ Place(S, d) < g
        BY <1>2, <1>3, <3>1
      <3>7. g - 1 \in 1..n
        BY <3>6
      <3>8. PICK t \in S : Place(S, t) = g - 1
        BY <1>1, <3>7, PlaceTaken
      <3>9. t \in D
        BY <1>3, <3>1, <3>8
      <3>10. Place(S, t) <= Place(S, d)
        BY <3>4, <3>6, <3>9, PlaceOrders
      <3>11. Place(S, d) = g - 1
        BY <3>6, <3>8, <3>10
      <3> QED
        BY <3>1, <3>5, <3>7, <3>11
    <2> QED
      BY <2>1, <2>2
  <1> QED
    BY <1>1, <1>4, <1>5

\* A place in the backlog is turned into a number.
LEMMA NumberedPlaces ==
  ASSUME NEW first, NEW T
  PROVE  Numbered(first, T) = {first - 1 + i : i \in {Place(DueTimes, t) : t \in T}}
  BY DEF Numbered, Number

LEMMA PlansAreScheduled == CronInv => PlansAreAsScheduled
  <1> SUFFICES ASSUME CronInv, planning.at = "planned", cron_rule.limit = CatchUpLimit,
                      NEW first \in Nat \ {0}
               PROVE  <<Numbered(first, planning.selected), Numbered(first, planning.skipped)>>
                        \in SelectedAndSkipped(cron_rule.misfire, first,
                                               first - 1 + Cardinality(DueTimes))
    BY DEF PlansAreAsScheduled
  <1>1. CronTypeOK /\ Found(planning) /\ Planned(planning)
    BY DEF CronInv, PlanInv, PlanOK, NotPlanning
  <1>2. PICK S : S = DueTimes
    OBVIOUS
  <1>3. IsFiniteSet(S) /\ S \in SUBSET Nat
    BY <1>1, <1>2, DueTimesFinite
  <1>4. PICK n \in Nat : n = Cardinality(S)
    BY <1>3, FS_CardinalityType
  <1>5. PICK now : now = first - 1 + n
    OBVIOUS
  <1>6. PICK places, left : /\ places = {Place(S, t) : t \in planning.selected}
                            /\ left = {Place(S, t) : t \in planning.skipped}
    OBVIOUS
  <1>7. /\ Numbered(first, planning.selected) = {first - 1 + i : i \in places}
        /\ Numbered(first, planning.skipped) = {first - 1 + i : i \in left}
    <2>1. /\ places = {Place(DueTimes, t) : t \in planning.selected}
          /\ left = {Place(DueTimes, t) : t \in planning.skipped}
      BY <1>2, <1>6
    <2>2. Numbered(first, planning.selected) = {first - 1 + i : i \in places}
      BY <2>1, NumberedPlaces
    <2>3. Numbered(first, planning.skipped) = {first - 1 + i : i \in left}
      BY <2>1, NumberedPlaces
    <2> QED
      BY <2>2, <2>3
  <1>8. CASE cron_rule.misfire = "fire_once"
    <2>1. n >= 1
      <3>1. next_due \in S
        BY <1>1, <1>2 DEF CronTypeOK, Found, DueTimes, DueAt
      <3> QED
        BY <1>3, <1>4, <3>1, PlaceInRange
    <2>2. planning.selected = LastOnes(S, 1) /\ planning.skipped = {}
      BY <1>1, <1>2, <1>8 DEF Planned
    <2>3. places = {i \in 1..n : i > n - 1}
      BY <1>3, <1>4, <1>6, <2>2, PlacesOfTheLast
    <2>4. places = {n} /\ left = {}
      BY <1>6, <2>1, <2>2, <2>3
    <2>5. {first - 1 + i : i \in places} = {now} /\ {first - 1 + i : i \in left} = {}
      BY <1>5, <2>4
    <2> QED
      BY <1>2, <1>4, <1>5, <1>7, <1>8, <2>5 DEF SelectedAndSkipped
  <1>9. CASE cron_rule.misfire = "catch_up_limited"
    <2>1. CatchUpLimit \in Nat
      BY ScheduleConstantsAssumption
    <2>2. planning.selected = LastOnes(S, CatchUpLimit) /\ planning.skipped = {}
      BY <1>1, <1>2, <1>9 DEF Planned
    <2>3. places = {i \in 1..n : i > n - CatchUpLimit}
      BY <1>3, <1>4, <1>6, <2>1, <2>2, PlacesOfTheLast
    <2>4. {first - 1 + i : i \in places} = {i \in first..now : i > now - CatchUpLimit}
      <3>1. ASSUME NEW i \in places PROVE first - 1 + i \in first..now /\ first - 1 + i > now - CatchUpLimit
        BY <1>5, <2>1, <2>3
      <3>2. ASSUME NEW j \in first..now, j > now - CatchUpLimit
            PROVE  \E i \in places : j = first - 1 + i
        <4>1. j - first + 1 \in places
          BY <1>5, <2>1, <2>3, <3>2
        <4>2. j = first - 1 + (j - first + 1)
          BY <1>5
        <4> QED
          BY <4>1, <4>2
      <3> QED
        BY <3>1, <3>2
    <2>5. {first - 1 + i : i \in left} = {}
      BY <1>6, <2>2
    <2> QED
      BY <1>2, <1>4, <1>5, <1>7, <1>9, <2>4, <2>5 DEF SelectedAndSkipped
  <1>10. CASE cron_rule.misfire = "skip"
    <2>1. /\ planning.selected = RecentDue /\ planning.skipped = LastOnes(S \ RecentDue, 1)
          /\ RecentDue \in SUBSET S
      BY <1>1, <1>2, <1>10 DEF Planned, RecentDue
    <2>2. ASSUME NEW t \in RecentDue, NEW u \in S, t <= u PROVE u \in RecentDue
      <3>1. PICK cutoff \in Int : cutoff = clock - cron_rule.grace
        <4>1. clock \in Nat /\ cron_rule.grace \in Nat
          BY <1>1, CronAssumption DEF CronTypeOK
        <4>2. clock - cron_rule.grace \in Int
          BY <4>1
        <4> QED
          BY <4>2
      <3>2. RecentDue = {x \in S : x >= cutoff}
        BY <1>2, <3>1 DEF RecentDue
      <3>3. t \in Int /\ u \in Int
        BY <1>3, <2>1
      <3> QED
        BY <2>2, <3>2, <3>3
    <2>3. PICK g \in 1..(n + 1) : places = g..n /\ left = {g - 1} \cap 1..n
      BY <1>3, <1>4, <1>6, <2>1, <2>2, PlacesFromOneOn
    <2>4. PICK h \in first..(now + 1) : h = first - 1 + g
      BY <1>5
    <2>5. {first - 1 + i : i \in places} = h..now
      <3>1. ASSUME NEW i \in places PROVE first - 1 + i \in h..now
        BY <1>5, <2>3, <2>4
      <3>2. ASSUME NEW j \in h..now PROVE \E i \in places : j = first - 1 + i
        <4>1. j - first + 1 \in places
          BY <1>5, <2>3, <2>4
        <4>2. j = first - 1 + (j - first + 1)
          BY <1>5, <2>4
        <4> QED
          BY <4>1, <4>2
      <3> QED
        BY <3>1, <3>2
    <2>6. {first - 1 + i : i \in left} = {h - 1} \cap first..now
      <3>1. CASE g - 1 \in 1..n
        <4>1. left = {g - 1} /\ first - 1 + (g - 1) = h - 1 /\ h - 1 \in first..now
          BY <1>5, <2>3, <2>4, <3>1
        <4> QED
          BY <4>1
      <3>2. CASE g - 1 \notin 1..n
        <4>1. left = {} /\ h - 1 \notin first..now
          BY <1>5, <2>3, <2>4, <3>2
        <4> QED
          BY <4>1
      <3> QED
        BY <3>1, <3>2
    <2> QED
      BY <1>2, <1>4, <1>5, <1>7, <1>10, <2>5, <2>6 DEF SelectedAndSkipped
  <1> QED
    BY <1>1, <1>8, <1>9, <1>10 DEF CronTypeOK

\* What _cron_due_plan selects and skips of a backlog, its due times numbered
\* from any number on, is what Scheduler takes a plan to be; so what was proved
\* of the scheduler holds of the cron rules of CronPlans.
THEOREM PlansAreTheScheduler == CronSpec => []PlansAreAsScheduled
  BY CronInitInv, CronNextKeepsInv, PlansAreScheduled, PTL DEF CronSpec

===============================================================================
