----------------------------- MODULE DeviceLeases -----------------------------
(***************************************************************************)
(* Devices and their exclusive leases (tables devices and device_leases),  *)
(* which workers acquire for the tasks they have leased from the queue.    *)
(* Operations lock task, device and lease rows in this order, so that each *)
(* is one atomic step here; the sweep that expires leases runs one         *)
(* transaction per lease before a request's own transaction.               *)
(*                                                                         *)
(* A device counts as heard of while its last heartbeat is younger than    *)
(* offline_after; fresh_left is the time left of that.  A lease is named   *)
(* by its number, which stands for its id and its token.  The version of a *)
(* device only serves to refuse an edit based on a superseded copy, so it  *)
(* is kept as whether the administrator's copy is still the current one.   *)
(***************************************************************************)
EXTENDS TaskQueue

CONSTANTS
  Devices,
  OfflineAfter,   \* a device not heard of for this long is offline
  MaxLeases       \* bound on the leases ever granted

ASSUME DeviceConstantsAssumption == OfflineAfter \in Nat \ {0} /\ MaxLeases \in Nat

VARIABLES
  dev_status,    \* "absent" before the device is created
  enabled,
  fresh_left,    \* time until the device counts as offline, 0 also before
                 \* its first heartbeat
  active_lease,  \* active_lease_id, 0 for none
  copy_current,  \* the administrator has read the current version
  lease,         \* device_leases
  expiry_left    \* time until a lease expires

deviceVars == <<dev_status, enabled, fresh_left, active_lease, copy_current>>
deviceLeaseVars == <<lease, expiry_left>>
deviceAllVars == <<vars, deviceVars, deviceLeaseVars>>

Leases == 1..MaxLeases
NoLease == [state |-> "none"]
LeaseRecords ==
  [state : {"active", "released", "expired"}, device : Devices, task : Tasks,
   owner : Workers, claim : Nat] \cup {NoLease}
DeviceStatuses == {"absent", "offline", "idle", "reserved", "busy", "maintenance"}

DeviceInit ==
  /\ Init
  /\ dev_status = [d \in Devices |-> "absent"]
  /\ enabled = [d \in Devices |-> FALSE]
  /\ fresh_left = [d \in Devices |-> 0]
  /\ active_lease = [d \in Devices |-> 0]
  /\ copy_current = [d \in Devices |-> FALSE]
  /\ lease = [i \in Leases |-> NoLease]
  /\ expiry_left = [i \in Leases |-> 0]

\* _available_device_status, of a device with these columns.
AvailableStatus(is_enabled, left) == IF is_enabled /\ left > 0 THEN "idle" ELSE "offline"

\* Every write of a device row gives it a new version.
Bump(d) == copy_current' = [copy_current EXCEPT ![d] = FALSE]

-----------------------------------------------------------------------------
(* Administrators and agents.                                              *)

CreateDevice(d) ==
  /\ dev_status[d] = "absent"
  /\ dev_status' = [dev_status EXCEPT ![d] = "offline"]
  /\ enabled' = [enabled EXCEPT ![d] = TRUE]
  /\ UNCHANGED <<vars, fresh_left, active_lease, copy_current, deviceLeaseVars>>

ReadDevice(d) ==
  /\ dev_status[d] # "absent" /\ ~copy_current[d]
  /\ copy_current' = [copy_current EXCEPT ![d] = TRUE]
  /\ UNCHANGED <<vars, dev_status, enabled, fresh_left, active_lease, deviceLeaseVars>>

Maintainable(d) == active_lease[d] = 0

\* A patch sets enabled, or maintenance, or neither ("keep").
UpdateDevice(d, is_enabled, maintenance) ==
  /\ dev_status[d] # "absent" /\ copy_current[d]
  /\ maintenance = "on" => Maintainable(d)
  /\ enabled' = [enabled EXCEPT ![d] = is_enabled]
  /\ dev_status' = [dev_status EXCEPT ![d] =
       IF maintenance = "on" THEN "maintenance"
       ELSE IF maintenance = "off" THEN AvailableStatus(is_enabled, fresh_left[d])
       ELSE IF ~is_enabled /\ active_lease[d] = 0 THEN "offline"
       ELSE @]
  /\ Bump(d)
  /\ UNCHANGED <<vars, fresh_left, active_lease, deviceLeaseVars>>

\* A device that was ever leased is kept for its history.
DeleteDevice(d) ==
  /\ dev_status[d] # "absent"
  /\ ~\E i \in Leases : lease[i] # NoLease /\ lease[i].device = d
  /\ dev_status' = [dev_status EXCEPT ![d] = "absent"]
  /\ enabled' = [enabled EXCEPT ![d] = FALSE]
  /\ fresh_left' = [fresh_left EXCEPT ![d] = 0]
  /\ Bump(d)
  /\ UNCHANGED <<vars, active_lease, deviceLeaseVars>>

HeartbeatDevice(d) ==
  /\ dev_status[d] # "absent"
  /\ fresh_left' = [fresh_left EXCEPT ![d] = OfflineAfter]
  /\ dev_status' = [dev_status EXCEPT ![d] =
       IF @ = "maintenance" \/ active_lease[d] # 0 THEN @
       ELSE IF enabled[d] THEN "idle" ELSE "offline"]
  /\ Bump(d)
  /\ UNCHANGED <<vars, enabled, active_lease, deviceLeaseVars>>

-----------------------------------------------------------------------------
(* Workers.                                                                *)

\* Faulty variant: the device's own record of its lease is not looked at.
CandidateByStatus(d) == enabled[d] /\ dev_status[d] = "idle" /\ fresh_left[d] > 0

\* The candidate query, evaluated again on the locked row.
Candidate(d) ==
  /\ enabled[d]
  /\ dev_status[d] = "idle"
  /\ active_lease[d] = 0
  /\ fresh_left[d] > 0

\* The task of a device is leased to w by claim k, and nobody asked for its end.
MayUseDevices(t, w, k) == ValidLease(t, w, k) /\ ~cancel_requested[t]

Expiry(t, seconds) == IF seconds <= lease_left[t] THEN seconds ELSE lease_left[t]

AcquireDevice(w, t, k, d, seconds) ==
  /\ MayUseDevices(t, w, k)
  /\ Candidate(d)
  /\ \E i \in Leases :
       /\ lease[i] = NoLease /\ \A j \in 1..(i - 1) : lease[j] # NoLease
       /\ lease' = [lease EXCEPT ![i] = [state |-> "active", device |-> d, task |-> t,
                                         owner |-> w, claim |-> k]]
       /\ expiry_left' = [expiry_left EXCEPT ![i] = Expiry(t, seconds)]
       /\ active_lease' = [active_lease EXCEPT ![d] = i]
  /\ dev_status' = [dev_status EXCEPT ![d] = "reserved"]
  /\ Bump(d)
  /\ UNCHANGED <<vars, enabled, fresh_left>>

\* Faulty variant: a lease that ended is accepted from its former holder.
ValidDeviceLeaseOnceHeld(i) == lease[i] # NoLease

\* _require_device_lease, for the worker and the token of lease i.
ValidDeviceLease(i) ==
  /\ lease[i].state = "active"
  /\ expiry_left[i] > 0
  /\ active_lease[lease[i].device] = i

\* _validate_leased_device_state on the effective status of a leased device.
Usable(d) ==
  enabled[d] /\ fresh_left[d] > 0 /\ dev_status[d] \in {"reserved", "busy"}

\* Starting needs the parent task to run under the same owner, but no token of
\* the task: any claim of the owner will do.
StartDeviceWork(i) ==
  LET d == lease[i].device
      t == lease[i].task IN
  /\ ValidDeviceLease(i)
  /\ MayUseDevices(t, lease[i].owner, lease_token[t])
  /\ Usable(d)
  /\ dev_status' = [dev_status EXCEPT ![d] = "busy"]
  /\ Bump(d)
  /\ UNCHANGED <<vars, enabled, fresh_left, active_lease, deviceLeaseVars>>

RenewDeviceLease(i, k, seconds) ==
  LET t == lease[i].task IN
  /\ ValidDeviceLease(i)
  /\ MayUseDevices(t, lease[i].owner, k)
  /\ Usable(lease[i].device)
  /\ expiry_left' = [expiry_left EXCEPT ![i] = Expiry(t, seconds)]
  /\ UNCHANGED <<vars, deviceVars, lease>>

Freed(d) == AvailableStatus(enabled[d], fresh_left[d])

EndLease(i, state) ==
  /\ lease' = [lease EXCEPT ![i].state = state]
  /\ expiry_left' = [expiry_left EXCEPT ![i] = 0]

FreeDevice(d) ==
  /\ active_lease' = [active_lease EXCEPT ![d] = 0]
  /\ dev_status' = [dev_status EXCEPT ![d] = Freed(d)]
  /\ Bump(d)

ReleaseDeviceLease(i) ==
  /\ ValidDeviceLease(i)
  /\ EndLease(i, "released")
  /\ FreeDevice(lease[i].device)
  /\ UNCHANGED <<vars, enabled, fresh_left>>

\* The sweep's transaction for one lease that has expired.
ExpireDeviceLease(i) ==
  LET d == lease[i].device IN
  /\ lease[i].state = "active" /\ expiry_left[i] = 0
  /\ EndLease(i, "expired")
  /\ IF active_lease[d] = i THEN FreeDevice(d)
     ELSE UNCHANGED <<active_lease, dev_status, copy_current>>
  /\ UNCHANGED <<vars, enabled, fresh_left>>

-----------------------------------------------------------------------------
DeviceSooner(left) == [x \in DOMAIN left |-> IF left[x] > 0 THEN left[x] - 1 ELSE 0]

DeviceTick ==
  /\ Tick
  /\ fresh_left' = DeviceSooner(fresh_left)
  /\ expiry_left' = DeviceSooner(expiry_left)
  /\ UNCHANGED <<dev_status, enabled, active_lease, copy_current, lease>>

QueueStep == ClientStep \/ ClaimStep \/ GrantStep

AdminStep(d) ==
  \/ CreateDevice(d) \/ ReadDevice(d) \/ DeleteDevice(d) \/ HeartbeatDevice(d)
  \/ \E is_enabled \in BOOLEAN, maintenance \in {"on", "off", "keep"} :
       UpdateDevice(d, is_enabled, maintenance)

LeaseStep(i) ==
  /\ lease[i] # NoLease
  /\ \/ StartDeviceWork(i) \/ ReleaseDeviceLease(i) \/ ExpireDeviceLease(i)
     \/ \E k \in 1..attempts[lease[i].task], seconds \in 1..MaxLease :
          RenewDeviceLease(i, k, seconds)

DeviceNext ==
  \/ QueueStep /\ UNCHANGED <<deviceVars, deviceLeaseVars>>
  \/ \E d \in Devices : AdminStep(d)
  \/ \E g \in grants, d \in Devices, seconds \in 1..MaxLease :
       AcquireDevice(g[1], g[2], g[3], d, seconds)
  \/ \E i \in Leases : LeaseStep(i)
  \/ DeviceTick

DeviceSpec == DeviceInit /\ [][DeviceNext]_deviceAllVars

-----------------------------------------------------------------------------
(* Properties.                                                             *)

\* Type correctness of the two device tables.
DeviceTypeOK ==
  /\ dev_status \in [Devices -> DeviceStatuses]
  /\ enabled \in [Devices -> BOOLEAN]
  /\ fresh_left \in [Devices -> 0..OfflineAfter]
  /\ active_lease \in [Devices -> 0..MaxLeases]
  /\ copy_current \in [Devices -> BOOLEAN]
  /\ lease \in [Leases -> LeaseRecords]
  /\ expiry_left \in [Leases -> 0..MaxLease]

\* The device and the lease table agree: a lease is active exactly when it is
\* the one its device names, so that a device never has two active leases and no
\* active lease is left that nobody can release; and a device is not left
\* reserved or busy when its lease is over, nor leased in maintenance.
DeviceAndLeaseAgree ==
  /\ DeviceTypeOK
  /\ \A i \in Leases : lease[i] # NoLease =>
       (lease[i].state = "active" <=> active_lease[lease[i].device] = i)
  /\ \A d \in Devices :
       /\ dev_status[d] \in {"reserved", "busy"} => active_lease[d] # 0
       /\ dev_status[d] = "maintenance" => active_lease[d] = 0

\* A device is only taken from a lease that has time left by the release of
\* that very lease: neither a former holder, nor a sweep, nor an edit does.
LiveDeviceLeaseIsExclusive ==
  [][\A d \in Devices :
       LET i == active_lease[d] IN
       i # 0 /\ expiry_left[i] > 0 /\ active_lease'[d] # i =>
         lease'[i].state = "released"]_deviceAllVars
=============================================================================
