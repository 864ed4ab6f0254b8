---------------------------- MODULE TeachingDevices ----------------------------
(***************************************************************************)
(* InMemoryDeviceManager of app/automation: devices and their leases in    *)
(* the lessons.  Every operation is one step.  A lease id stands for its   *)
(* owner and token; register enables a device and nothing disables it.     *)
(***************************************************************************)
EXTENDS Integers

CONSTANTS
  Devices, LeaseIds,
  OfflineAfter,     \* offline_after_seconds
  DeviceLease       \* bound on lease_seconds

NoLease == "none"

ASSUME TeachingDevicesAssumption ==
  OfflineAfter \in Nat \ {0} /\ DeviceLease \in Nat \ {0} /\ NoLease \notin LeaseIds

VARIABLES
  devices,       \* [status, fresh, lease]: fresh is the time left of the last heartbeat
  device_leases, \* [status, device, left]
  opened         \* history: devices whose maintenance was ended under a lease

deviceVars == <<devices, device_leases, opened>>

Unregistered == [status |-> "absent", fresh |-> 0, lease |-> NoLease]
Unused == [status |-> "unused"]

DevicesInit ==
  /\ devices = [d \in Devices |-> Unregistered]
  /\ device_leases = [l \in LeaseIds |-> Unused]
  /\ opened = {}

Registered == {d \in Devices : devices[d].status # "absent"}
ActiveLeases == {l \in LeaseIds : device_leases[l].status = "active"}

EffectiveStatus(device) ==
  IF device.status = "maintenance" THEN "maintenance"
  ELSE IF device.fresh = 0 THEN "offline"
  ELSE IF device.lease # NoLease THEN device.status
  ELSE "idle"

AvailableStatus(device) ==
  IF device.status = "maintenance" THEN "maintenance"
  ELSE IF device.fresh > 0 THEN "idle" ELSE "offline"

RegisterDevice(d) ==
  /\ d \notin Registered
  /\ devices' = [devices EXCEPT ![d].status = "offline"]
  /\ UNCHANGED <<device_leases, opened>>

DeviceHeartbeat(d) ==
  /\ d \in Registered
  /\ devices' = [devices EXCEPT
       ![d].fresh = OfflineAfter,
       ![d].status = IF @ # "maintenance" /\ devices[d].lease = NoLease THEN "idle" ELSE @]
  /\ UNCHANGED <<device_leases, opened>>

-----------------------------------------------------------------------------
\* _expire_locked, which get, list_devices and acquire begin with.
ExpiredLeases == {l \in ActiveLeases : device_leases[l].left = 0}
SweptLeases ==
  [l \in LeaseIds |-> IF l \in ExpiredLeases THEN [device_leases[l] EXCEPT !.status = "expired"]
                      ELSE device_leases[l]]
SweptDevices ==
  [d \in Devices |->
     IF devices[d].lease \in ExpiredLeases
     THEN [devices[d] EXCEPT !.lease = NoLease, !.status = AvailableStatus(devices[d])]
     ELSE devices[d]]

SweepLeases ==
  /\ devices' = SweptDevices /\ device_leases' = SweptLeases
  /\ UNCHANGED opened

\* Names and capabilities decide which idle device it is.
AcquireDevice(d, l) ==
  /\ device_leases[l] = Unused
  /\ d \in Registered /\ EffectiveStatus(SweptDevices[d]) = "idle"
  /\ \E seconds \in 1..DeviceLease :
       device_leases' = [SweptLeases EXCEPT ![l] =
         [status |-> "active", device |-> d, left |-> seconds]]
  /\ devices' = [SweptDevices EXCEPT ![d].lease = l, ![d].status = "reserved"]
  /\ UNCHANGED opened

\* _require_lease
UsableLease(l) ==
  /\ l \in ActiveLeases /\ device_leases[l].left > 0
  /\ devices[device_leases[l].device].lease = l

StartWork(l) ==
  /\ UsableLease(l)
  /\ devices' = [devices EXCEPT ![device_leases[l].device].status = "busy"]
  /\ UNCHANGED <<device_leases, opened>>

RenewLease(l) ==
  /\ UsableLease(l)
  /\ \E seconds \in 1..DeviceLease : device_leases' = [device_leases EXCEPT ![l].left = seconds]
  /\ UNCHANGED <<devices, opened>>

ReleaseLease(l) ==
  /\ UsableLease(l)
  /\ device_leases' = [device_leases EXCEPT ![l].status = "released"]
  /\ LET d == device_leases[l].device IN
       devices' = [devices EXCEPT ![d].lease = NoLease, ![d].status = AvailableStatus(devices[d])]
  /\ UNCHANGED opened

BeginMaintenance(d) ==
  /\ d \in Registered /\ devices[d].lease = NoLease
  /\ devices' = [devices EXCEPT ![d].status = "maintenance"]
  /\ UNCHANGED <<device_leases, opened>>

\* set_maintenance with enabled = False does not look at the lease, and leaves
\* a device under maintenance as it is.
EndMaintenance(d) ==
  /\ d \in Registered
  /\ devices' = [devices EXCEPT ![d].status = AvailableStatus(devices[d])]
  /\ opened' = IF devices[d].lease # NoLease THEN opened \cup {d} ELSE opened
  /\ UNCHANGED device_leases

Less(n) == IF n > 0 THEN n - 1 ELSE 0
DeviceTimePasses ==
  /\ devices' = [d \in Devices |-> [devices[d] EXCEPT !.fresh = Less(@)]]
  /\ device_leases' = [l \in LeaseIds |->
       IF l \in ActiveLeases THEN [device_leases[l] EXCEPT !.left = Less(@)] ELSE device_leases[l]]
  /\ UNCHANGED opened

DevicesNext ==
  \/ \E d \in Devices :
       \/ RegisterDevice(d) \/ DeviceHeartbeat(d) \/ BeginMaintenance(d) \/ EndMaintenance(d)
       \/ \E l \in LeaseIds : AcquireDevice(d, l)
  \/ \E l \in LeaseIds : StartWork(l) \/ RenewLease(l) \/ ReleaseLease(l)
  \/ SweepLeases
  \/ DeviceTimePasses

DevicesSpec == DevicesInit /\ [][DevicesNext]_deviceVars

-----------------------------------------------------------------------------
(* Properties.                                                             *)

LiveLeases == {l \in ActiveLeases : device_leases[l].left > 0}

\* The docstring of the class (app/automation/devices.py:35) promises exclusive
\* device leases: no two leases of a device are active and have time left.
DeviceLeasesAreExclusive ==
  \A l, m \in LiveLeases : device_leases[l].device = device_leases[m].device => l = m

\* But for devices whose maintenance was ended under a lease: a device is
\* reserved or busy exactly while it names a lease, that lease is active and
\* no other lease of the device is.
DevicesFollowLeases ==
  \A d \in Devices \ opened :
    /\ devices[d].status \in {"reserved", "busy"} <=> devices[d].lease # NoLease
    /\ {l \in ActiveLeases : device_leases[l].device = d} = {devices[d].lease} \ {NoLease}
=============================================================================
