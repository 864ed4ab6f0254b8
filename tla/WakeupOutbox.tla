----------------------------- MODULE WakeupOutbox -----------------------------
(***************************************************************************)
(* The transactional outbox of wake-up hints (automation_task_wakeup_      *)
(* outbox) and the dispatcher processes that relay its rows to the broker: *)
(* dispatch_task_wakeup_once of PersistentRuntimeService, the loop of      *)
(* outbox/main.py and the publisher of broker/rabbitmq.py.                 *)
(*                                                                         *)
(* A dispatcher claims a row in one transaction, publishes outside of any  *)
(* transaction, and settles the row in another one by compare-and-set.     *)
(* Between these steps it may crash, the broker may refuse, the confirm    *)
(* may be lost, or the lease may run out.  Each of these is a fault, and   *)
(* faults are counted so that a property can say what holds without them.  *)
(*                                                                         *)
(* Timestamps are kept as the time left until they are reached.  A lease   *)
(* token is named by the row version of the claim that drew it.            *)
(***************************************************************************)
EXTENDS Integers, FiniteSets, Faults

CONSTANTS
  Rows,          \* outbox rows, one for each task and generation
  Dispatchers,   \* dispatcher processes
  Ids,           \* dispatcher_id values
  DispatcherId,  \* the id each process is configured with, perhaps shared
  HintLease,     \* lease_seconds
  HintDelay,     \* bound on how far ahead a row may be due when it is added
  MaxHintBackoff, \* the cap of the retry delay (60 seconds in the code)
  NoId

ASSUME DispatchersAssumption ==
  /\ IsFiniteSet(Dispatchers)
  /\ DispatcherId \in [Dispatchers -> Ids]
  /\ NoId \notin Ids
ASSUME OutboxTimesAssumption ==
  /\ HintLease \in Nat \ {0}
  /\ HintDelay \in Nat
  /\ MaxHintBackoff \in Nat \ {0}

VARIABLES
  row_status,        \* "absent" before the row is inserted
  publish_attempts,
  row_version,
  row_owner,
  row_wait,          \* time until available_at
  row_lease,         \* time until lease_expires_at
  held,              \* what each dispatcher is busy with
  sent               \* history: hints the broker accepted for each row

rowVars == <<row_status, publish_attempts, row_version, row_owner, row_wait, row_lease>>
outboxVars == <<rowVars, held, sent, faults>>

NoClaim == [stage |-> "idle"]
Stages == {"publishing", "published", "refused"}
Held == [stage : Stages, row : Rows, version : Nat, attempts : Nat] \cup {NoClaim}
RowStatuses == {"absent", "pending", "claimed", "retry_wait", "published"}

OutboxInit ==
  /\ row_status = [r \in Rows |-> "absent"]
  /\ publish_attempts = [r \in Rows |-> 0]
  /\ row_version = [r \in Rows |-> 0]
  /\ row_owner = [r \in Rows |-> NoId]
  /\ row_wait = [r \in Rows |-> 0]
  /\ row_lease = [r \in Rows |-> 0]
  /\ held = [d \in Dispatchers |-> NoClaim]
  /\ sent = [r \in Rows |-> 0]
  /\ faults = 0

\* The retry delay after attempt n: min(cap, 2^(n-1)), 2^6 being over any cap.
PublishBackoff(n) ==
  LET delay == IF n > 6 THEN MaxHintBackoff ELSE <<1, 2, 4, 8, 16, 32>>[n]
  IN  IF delay > MaxHintBackoff THEN MaxHintBackoff ELSE delay

-----------------------------------------------------------------------------
\* The row is inserted by the transaction that makes its task claimable.
AddRow(r, wait) ==
  /\ row_status[r] = "absent"
  /\ row_status' = [row_status EXCEPT ![r] = "pending"]
  /\ row_wait' = [row_wait EXCEPT ![r] = wait]
  /\ UNCHANGED <<publish_attempts, row_version, row_owner, row_lease, held, sent, faults>>

\* Faulty variant: a claimed row can be claimed again before its lease ends.
DueAnyLease(r) ==
  \/ row_status[r] \in {"pending", "retry_wait"} /\ row_wait[r] = 0
  \/ row_status[r] = "claimed"

\* Faulty variant: a row claimed by a process that died is never taken again.
DueUnclaimed(r) == row_status[r] \in {"pending", "retry_wait"} /\ row_wait[r] = 0

Due(r) ==
  \/ row_status[r] \in {"pending", "retry_wait"} /\ row_wait[r] = 0
  \/ row_status[r] = "claimed" /\ row_lease[r] = 0

\* Any due row may be the first that no other transaction has locked.
ClaimWakeup(d, r) ==
  /\ held[d] = NoClaim
  /\ Due(r)
  /\ row_status' = [row_status EXCEPT ![r] = "claimed"]
  /\ publish_attempts' = [publish_attempts EXCEPT ![r] = @ + 1]
  /\ row_version' = [row_version EXCEPT ![r] = @ + 1]
  /\ row_owner' = [row_owner EXCEPT ![r] = DispatcherId[d]]
  /\ row_lease' = [row_lease EXCEPT ![r] = HintLease]
  /\ held' = [held EXCEPT ![d] = [stage |-> "publishing", row |-> r,
                                  version |-> row_version[r] + 1,
                                  attempts |-> publish_attempts[r] + 1]]
  /\ UNCHANGED <<row_wait, sent, faults>>

\* The broker confirms the persistent message.
PublishConfirmed(d) ==
  /\ held[d].stage = "publishing"
  /\ held' = [held EXCEPT ![d].stage = "published"]
  /\ sent' = [sent EXCEPT ![held[d].row] = @ + 1]
  /\ UNCHANGED <<rowVars, faults>>

\* The publisher raises: the broker did not get the message, or did get it
\* and the confirm was lost.
PublishFails(d) ==
  /\ held[d].stage = "publishing"
  /\ held' = [held EXCEPT ![d].stage = "refused"]
  /\ \/ UNCHANGED sent
     \/ sent' = [sent EXCEPT ![held[d].row] = @ + 1]
  /\ Fault
  /\ UNCHANGED rowVars

\* Faulty variant: neither the token nor the version is compared.
StillHeldByOwner(d) ==
  LET r == held[d].row IN
  row_status[r] = "claimed" /\ row_owner[r] = DispatcherId[d] /\ row_lease[r] > 0

\* The compare-and-set of the settlement.
StillHeld(d) ==
  LET r == held[d].row IN
  /\ row_status[r] = "claimed"
  /\ row_owner[r] = DispatcherId[d]
  /\ row_version[r] = held[d].version
  /\ row_lease[r] > 0

Settle(d) ==
  LET r == held[d].row IN
  /\ held[d].stage \in {"published", "refused"}
  /\ IF StillHeld(d)
     THEN /\ row_status' = [row_status EXCEPT ![r] =
                              IF held[d].stage = "published" THEN "published"
                              ELSE "retry_wait"]
          /\ row_wait' = [row_wait EXCEPT ![r] =
                            IF held[d].stage = "published" THEN @
                            ELSE PublishBackoff(held[d].attempts)]
          /\ row_version' = [row_version EXCEPT ![r] = @ + 1]
          /\ row_owner' = [row_owner EXCEPT ![r] = NoId]
          /\ row_lease' = [row_lease EXCEPT ![r] = 0]
          /\ UNCHANGED publish_attempts
     ELSE UNCHANGED rowVars
  /\ held' = [held EXCEPT ![d] = NoClaim]
  /\ UNCHANGED <<sent, faults>>

\* The process dies and is started again, or a database error ends the round.
DispatcherCrash(d) ==
  /\ held[d] # NoClaim
  /\ held' = [held EXCEPT ![d] = NoClaim]
  /\ Fault
  /\ UNCHANGED <<rowVars, sent>>

RowSooner(left) == [r \in Rows |-> IF left[r] > 0 THEN left[r] - 1 ELSE 0]

\* The dispatchers whose lease is in its last moment.
AboutToLapse ==
  {d \in Dispatchers : held[d] # NoClaim /\ StillHeld(d) /\ row_lease[held[d].row] = 1}

\* A publish that outlasts the lease of its claim is a fault as well.
OutboxTick ==
  /\ \E r \in Rows : row_wait[r] > 0 \/ row_lease[r] > 0
  /\ row_wait' = RowSooner(row_wait)
  /\ row_lease' = RowSooner(row_lease)
  /\ faults' = faults + Cardinality(AboutToLapse)
  /\ faults' <= MaxFaults
  /\ UNCHANGED <<row_status, publish_attempts, row_version, row_owner, held, sent>>

DispatcherStep(d) ==
  \/ \E r \in Rows : ClaimWakeup(d, r)
  \/ PublishConfirmed(d)
  \/ Settle(d)

OutboxNext ==
  \/ \E r \in Rows, wait \in 0..HintDelay : AddRow(r, wait)
  \/ \E d \in Dispatchers : DispatcherStep(d) \/ PublishFails(d) \/ DispatcherCrash(d)
  \/ OutboxTick

\* The loop of every dispatcher keeps running (a crashed process is started
\* again), and time passes.
OutboxFairness ==
  /\ \A d \in Dispatchers : WF_outboxVars(DispatcherStep(d))
  /\ WF_outboxVars(OutboxTick)

OutboxSpec == OutboxInit /\ [][OutboxNext]_outboxVars
OutboxFairSpec == OutboxSpec /\ OutboxFairness

-----------------------------------------------------------------------------
(* Properties.                                                             *)

\* Type correctness of the outbox table and of what the dispatchers hold.
OutboxTypeOK ==
  /\ row_status \in [Rows -> RowStatuses]
  /\ publish_attempts \in [Rows -> Nat]
  /\ row_version \in [Rows -> Nat]
  /\ row_owner \in [Rows -> Ids \cup {NoId}]
  /\ row_wait \in [Rows -> Nat]
  /\ row_lease \in [Rows -> Nat]
  /\ held \in [Dispatchers -> Held]
  /\ sent \in [Rows -> Nat]
  /\ faults \in 0..MaxFaults

\* At-least-once with no more repeats than faults: every hint after the first
\* one of a row is accounted for by a fault, so none is sent twice in a run
\* without faults.
RepeatsCostFaults == OutboxTypeOK /\ \A r \in Rows : sent[r] <= 1 + faults

\* While a claim's lease lasts the row is only changed by the process that
\* made this very claim, also when processes share one dispatcher_id and an
\* earlier claim of the same row is settled late.
LiveClaimIsExclusive ==
  [][\A r \in Rows :
       row_status[r] = "claimed" /\ row_lease[r] > 0 /\ row_status'[r] # "claimed" =>
         \E d \in Dispatchers : /\ held[d].stage \in {"published", "refused"}
                                /\ held[d].row = r
                                /\ held[d].version = row_version[r]
                                /\ held'[d] = NoClaim]_outboxVars

\* Once faults stop every row gets published: no crash, lost confirm or lost
\* lease leaves a row that is never taken up again.
EveryRowIsPublished ==
  \A r \in Rows : row_status[r] # "absent" ~> row_status[r] = "published"
=============================================================================
