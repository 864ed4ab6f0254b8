----------------------------- MODULE ProviderRuns -----------------------------
(***************************************************************************)
(* The platform's side of a CI run: the provider run and its trigger       *)
(* intent, the dispatchers that trigger the remote run, the requests that  *)
(* poll, cancel and decide, and the reception of the CI Lab's webhooks     *)
(* (PersistentRuntimeService of runtime/service.py), together with the lab *)
(* itself (CiLab).                                                         *)
(*                                                                         *)
(* No transaction spans a remote call.  Every operation reads or claims in *)
(* one transaction, calls the lab, and writes in another one; webhooks     *)
(* arrive at any time in between.  An answer is recorded when the lab      *)
(* gives it and used later, or lost.  A run is named by its correlation    *)
(* id, which is the lab's idempotency key, so that the lab run of a run is *)
(* always the same one and its external id is only bound or not.  The lab  *)
(* announces events with times that do not decrease, so the check of       *)
(* occurred_at never refuses one.  Connections of the kind learning_ci     *)
(* only; a changed or disabled connection shows as a rejected call.        *)
(***************************************************************************)
EXTENDS CiLab

CONSTANTS
  Dispatchers,
  Pollers,           \* clients that refresh or cancel runs
  Approvers,         \* clients that decide gates
  MaxAttempts,       \* max_attempts of a trigger intent (5 in the code)
  MaxQueries,        \* bound on refresh and cancel requests
  MaxApprovals,      \* bound on requests to decide a gate
  LateCancels        \* whether a cancellation can overlap other transactions

ASSUME ProviderAssumption ==
  /\ MaxAttempts \in Nat \ {0} /\ MaxQueries \in Nat /\ MaxApprovals \in Nat
  /\ LateCancels \in BOOLEAN

VARIABLES
  run,         \* the provider run of each correlation id, or NoRun
  intent,      \* its trigger intent
  receipts,    \* the sequences of the webhook events received for it
  dispatcher,  \* what each dispatcher is busy with
  poller,
  approver,
  queries,     \* number of refresh and cancel requests so far
  approvals    \* number of requests to decide a gate so far

clientVars == <<dispatcher, poller, approver, queries, approvals>>
platformVars == <<run, intent, receipts, clientVars>>
clockVars == <<phase, interventions>>
allVars == <<labVars, platformVars>>

DispatchStatuses == {"pending", "dispatching", "retry_wait", "dispatched", "unknown", "failed", "cancelled"}
IntentStatuses == {"pending", "claimed", "retry_wait", "succeeded", "unknown", "failed", "cancelled"}
RawStatuses == RunStatuses \cup
  {"waiting_approval", "trigger_pending", "trigger_result_unknown", "trigger_failed",
   "cancelled_before_dispatch"}
\* bound: external_id is set; seq: last_provider_sequence; approval: the row of
\* provider_run_approvals.
ProviderRun ==
  [status : RunStatuses, raw : RawStatuses, gate : GateStatuses, dispatch : DispatchStatuses,
   bound : BOOLEAN, seq : Nat, reconcile : BOOLEAN, version : Nat,
   approval : Approval \cup {NoApproval}]
\* The lease token is named by the attempt whose claim drew it.
Intent == [status : IntentStatuses, attempts : 0 .. MaxAttempts, live : BOOLEAN]
\* What the lab answers: its public status, its gate and its webhook_sequence.
View == [raw : RunStatuses \cup {"waiting_approval"}, gate : GateStatuses, seq : Nat]
\* The absence of a run can be told from a run and from an intent.
ASSUME NoRunAssumption == NoRun \notin ProviderRun /\ NoRun \notin Intent
Idle == [at |-> "idle"]
Failure(kind) == [at |-> kind]

\* The lab's answer about run r.
LabView(r) == [raw |-> Public(lab[r]), gate |-> lab[r].gate, seq |-> Len(outbox[r])]

ProviderInit ==
  /\ Init
  /\ run = [r \in Runs |-> NoRun]
  /\ intent = [r \in Runs |-> NoRun]
  /\ receipts = [r \in Runs |-> {}]
  /\ dispatcher = [d \in Dispatchers |-> Idle]
  /\ poller = [p \in Pollers |-> Idle]
  /\ approver = [a \in Approvers |-> Idle]
  /\ queries = 0
  /\ approvals = 0

-----------------------------------------------------------------------------
(* The reducers.                                                           *)

Normal(raw) == IF raw = "waiting_approval" THEN "queued" ELSE raw

Flagged(p) == [p EXCEPT !.reconcile = TRUE, !.version = @ + 1]

\* Faulty variant: a refresh is trusted with the release of the gate.
ReleasesGateUnlessPolled(p, v, source) ==
  /\ source = "dispatch"
  /\ p.gate = "waiting_approval"
  /\ v.raw # "waiting_approval"
  /\ Normal(v.raw) \notin {"failed", "cancelled"}

\* A snapshot that would release the gate without the decision of a person.
ReleasesGate(p, v, source) ==
  /\ source # "gate_decision"
  /\ p.gate = "waiting_approval"
  /\ v.raw # "waiting_approval"
  /\ Normal(v.raw) \notin {"failed", "cancelled"}

LeavesTheEnd(p, status) == p.status \in Terminal /\ status # p.status

\* The gate status a snapshot brings; the lab reports a gate only if it has one.
GateAfter(p, v) ==
  IF v.gate # "none" THEN v.gate
  ELSE IF v.raw = "waiting_approval" THEN "waiting_approval"
  ELSE IF v.raw = "failed" /\ p.gate # "rejected" THEN "failed"
  ELSE IF v.raw = "cancelled" THEN "cancelled"
  ELSE "none"

Watermark(p, v) == IF v.seq >= p.seq THEN v.seq ELSE p.seq

\* _apply_provider_run_snapshot.  A watermark of 0 is left out of an answer.
WithSnapshot(p, v, source) ==
  IF ReleasesGate(p, v, source) THEN IF p.reconcile THEN p ELSE Flagged(p)
  ELSE IF LeavesTheEnd(p, Normal(v.raw)) THEN Flagged(p)
  ELSE [p EXCEPT !.bound = TRUE, !.status = Normal(v.raw), !.raw = v.raw,
                 !.gate = GateAfter(p, v), !.seq = Watermark(p, v),
                 !.reconcile = IF source \in {"poll", "gate_decision"} THEN FALSE ELSE @,
                 !.version = @ + 1]

\* The statuses a webhook may take a run to.
AllowedAfter(status) ==
  CASE status \in {"queued", "running"} -> RunStatuses
    [] OTHER -> {status}

\* _apply_webhook_snapshot refuses an event that says the run is s.
EventRefused(p, s) ==
  \/ p.gate = "waiting_approval" /\ s \notin {"waiting_approval", "failed", "cancelled"}
  \/ Normal(s) \notin AllowedAfter(p.status)
  \/ p.status = "running" /\ s = "queued"

WithEvent(p, s) ==
  [p EXCEPT !.status = Normal(s), !.raw = s, !.version = @ + 1,
            !.gate = CASE s = "waiting_approval" -> "waiting_approval"
                       [] s = "succeeded" /\ @ = "waiting_approval" -> "approved"
                       [] s = "failed" -> IF @ = "waiting_approval" THEN "rejected" ELSE "failed"
                       [] s = "cancelled" -> "cancelled"
                       [] OTHER -> @]

Bound(p) == IF p.bound THEN p ELSE [p EXCEPT !.bound = TRUE, !.version = @ + 1]

\* Faulty variant: an event that cannot be applied leaves no trace.
AfterEventSilent(p, i, s) ==
  LET b == Bound(p)
  IN  IF i # b.seq + 1 \/ EventRefused(b, s) THEN b
      ELSE [WithEvent(b, s) EXCEPT !.seq = i, !.reconcile = FALSE]

\* The run after event i, which says s: stale, out of order, refused or applied.
AfterEvent(p, i, s) ==
  LET b == Bound(p)
  IN  IF i <= b.seq THEN b
      ELSE IF i # b.seq + 1 \/ EventRefused(b, s) THEN Flagged(b)
      ELSE [WithEvent(b, s) EXCEPT !.seq = i, !.reconcile = FALSE]

-----------------------------------------------------------------------------
(* The trigger and the dispatchers.                                        *)

\* trigger_provider; a repeated request returns the run that is there.
TriggerRun(r) ==
  /\ run[r] = NoRun
  /\ run' = [run EXCEPT ![r] =
       [status |-> "queued", raw |-> "trigger_pending",
        gate |-> IF r \in Gated THEN "evaluating" ELSE "none", dispatch |-> "pending",
        bound |-> FALSE, seq |-> 0, reconcile |-> FALSE, version |-> 0,
        approval |-> NoApproval]]
  /\ intent' = [intent EXCEPT ![r] = [status |-> "pending", attempts |-> 0, live |-> FALSE]]
  /\ UNCHANGED <<labVars, receipts, clientVars>>

IntentClaimable(r) ==
  /\ intent[r].attempts < MaxAttempts
  /\ \/ intent[r].status \in {"pending", "retry_wait"}
     \/ intent[r].status = "claimed" /\ ~intent[r].live

ClaimTrigger(d, r) ==
  /\ dispatcher[d] = Idle
  /\ run[r] # NoRun /\ IntentClaimable(r)
  /\ intent' = [intent EXCEPT ![r] =
       [status |-> "claimed", attempts |-> @.attempts + 1, live |-> TRUE]]
  /\ run' = [run EXCEPT ![r].dispatch = "dispatching", ![r].version = @ + 1]
  /\ dispatcher' = [dispatcher EXCEPT ![d] =
       [at |-> "claimed", run |-> r, token |-> intent[r].attempts + 1]]
  /\ UNCHANGED <<labVars, receipts, poller, approver, queries, approvals>>

\* The dispatcher has the lab's answer v, or knows why there is none.
Answered(d, v) ==
  dispatcher' = [dispatcher EXCEPT ![d] =
    [at |-> "answered", run |-> @.run, token |-> @.token, answer |-> v]]

\* provider.trigger reaches the lab; the answer may be lost on its way back.
CallTrigger(d) ==
  /\ dispatcher[d].at = "claimed"
  /\ \E r \in Runs :
       /\ r = dispatcher[d].run
       /\ LabTrigger(r)
       /\ Answered(d, LabView(r)') \/ Answered(d, Failure("uncertain"))
  /\ UNCHANGED <<clockVars, poster, run, intent, receipts, poller, approver, queries, approvals>>

\* The call fails before it reaches the lab: a transport error, or a rejection.
CallFails(d) ==
  /\ dispatcher[d].at = "claimed"
  /\ \E kind \in {"uncertain", "rejected"} : Answered(d, Failure(kind))
  /\ UNCHANGED <<labVars, run, intent, receipts, poller, approver, queries, approvals>>

HoldsIntent(d) ==
  LET r == dispatcher[d].run
  IN  intent[r].status = "claimed" /\ intent[r].attempts = dispatcher[d].token

NewerThanAnswer(p, v) == p.seq > 0 /\ v.seq < p.seq

Ended(i, status) == [i EXCEPT !.status = status, !.live = FALSE]

\* _finalize_provider_trigger.
FinalizeTrigger(d) ==
  /\ dispatcher[d].at = "answered" /\ dispatcher[d].answer \in View
  /\ LET r == dispatcher[d].run
         v == dispatcher[d].answer
         p == [run[r] EXCEPT !.dispatch = "dispatched"]
     IN  IF HoldsIntent(d)
         THEN /\ intent' = [intent EXCEPT ![r] = Ended(@, "succeeded")]
              /\ run' = [run EXCEPT ![r] =
                   IF NewerThanAnswer(p, v) THEN [p EXCEPT !.version = @ + 1]
                   ELSE WithSnapshot([p EXCEPT !.reconcile = FALSE], v, "dispatch")]
         ELSE UNCHANGED <<run, intent>>
  /\ dispatcher' = [dispatcher EXCEPT ![d] = Idle]
  /\ UNCHANGED <<labVars, receipts, poller, approver, queries, approvals>>

\* Faulty variant: a verified event does not outweigh a lost answer.
KnownFromEventsNever(p) == FALSE

KnownFromEvents(p) == p.bound /\ p.seq > 0

\* _settle_provider_trigger_failure.
SettleTriggerFailure(d) ==
  /\ dispatcher[d].at = "answered" /\ dispatcher[d].answer \notin View
  /\ LET r == dispatcher[d].run
         p == run[r]
         retryable == dispatcher[d].answer = Failure("uncertain")
         outcome == IF ~retryable THEN "failed"
                    ELSE IF intent[r].attempts < MaxAttempts THEN "retry_wait" ELSE "unknown"
     IN  IF ~HoldsIntent(d) THEN UNCHANGED <<run, intent>>
         ELSE IF KnownFromEvents(p)
         THEN /\ intent' = [intent EXCEPT ![r] = Ended(@, "succeeded")]
              /\ run' = [run EXCEPT ![r] = [p EXCEPT !.dispatch = "dispatched", !.version = @ + 1]]
         ELSE /\ intent' = [intent EXCEPT ![r] = Ended(@, outcome)]
              /\ run' = [run EXCEPT ![r] =
                   [p EXCEPT !.dispatch = outcome, !.reconcile = retryable,
                             !.status = IF retryable THEN @ ELSE "failed",
                             !.gate = IF retryable \/ @ = "none" THEN @ ELSE "failed",
                             !.raw = IF retryable THEN "trigger_result_unknown" ELSE "trigger_failed",
                             !.version = @ + 1]]
  /\ dispatcher' = [dispatcher EXCEPT ![d] = Idle]
  /\ UNCHANGED <<labVars, receipts, poller, approver, queries, approvals>>

\* The dispatcher crashes and restarts, or its cycle fails.
DispatcherFails(d) ==
  /\ dispatcher[d] # Idle
  /\ dispatcher' = [dispatcher EXCEPT ![d] = Idle]
  /\ UNCHANGED <<labVars, run, intent, receipts, poller, approver, queries, approvals>>

IntentLeaseRunsOut(r) ==
  /\ run[r] # NoRun /\ intent[r].live
  /\ intent' = [intent EXCEPT ![r] = [@ EXCEPT !.live = FALSE]]
  /\ UNCHANGED <<labVars, run, receipts, clientVars>>
-----------------------------------------------------------------------------
(* Refreshing and cancelling a run.                                        *)

\* A run that has not been dispatched is cancelled without asking the lab.
CancellableHere(r) ==
  /\ ~run[r].bound
  /\ run[r].dispatch \in {"pending", "retry_wait"}
  /\ intent[r].status \in {"pending", "retry_wait"}

\* What the cancellation writes over run p, having read the given version.
CancelledHere(p, version) ==
  [p EXCEPT !.status = "cancelled", !.raw = "cancelled_before_dispatch", !.gate = "cancelled",
            !.dispatch = "cancelled", !.version = version + 1]

\* Faulty variant: the run is cancelled but its intent is left to be dispatched.
CancelOnlyRun(r, version) ==
  /\ run' = [run EXCEPT ![r] = CancelledHere(@, version)]
  /\ UNCHANGED intent

CancelHere(r, version) ==
  /\ run' = [run EXCEPT ![r] = CancelledHere(@, version)]
  /\ intent' = [intent EXCEPT ![r] = [@ EXCEPT !.status = "cancelled"]]

Query == queries < MaxQueries /\ queries' = queries + 1

\* The first transaction of _refresh_provider_run.  It takes no row lock, so a
\* cancellation is two steps: what it reads, and what it writes.
RefreshBegins(p, r, cancel) ==
  /\ poller[p] = Idle
  /\ Query
  /\ run[r] # NoRun
  /\ \/ /\ run[r].bound
        /\ poller' = [poller EXCEPT ![p] =
             [at |-> "read", run |-> r, cancel |-> cancel, version |-> run[r].version]]
     \/ /\ cancel /\ CancellableHere(r)
        /\ poller' = [poller EXCEPT ![p] =
             [at |-> "cancelling", run |-> r, version |-> run[r].version]]
  /\ UNCHANGED <<labVars, run, intent, receipts, dispatcher, approver, approvals>>

\* A cancellation is between its two steps, and the process-wide lock of SQLite
\* makes every other transaction wait.  There is no such lock with PostgreSQL.
SingleProcessLock == ~LateCancels /\ \E p \in Pollers : poller[p].at = "cancelling"

CancelCommits(p) ==
  /\ poller[p].at = "cancelling"
  /\ CancelHere(poller[p].run, poller[p].version)
  /\ poller' = [poller EXCEPT ![p] = Idle]
  /\ UNCHANGED <<labVars, receipts, dispatcher, approver, queries, approvals>>

\* provider.get or provider.cancel; a refused or lost answer ends the request.
RefreshCalls(p) ==
  /\ poller[p].at = "read"
  /\ \E r \in Runs :
       /\ r = poller[p].run
       /\ IF poller[p].cancel THEN LabCancel(r) ELSE LabGet(r)
       /\ \/ poller' = [poller EXCEPT ![p] =
                [at |-> "answered", run |-> r, version |-> @.version, answer |-> LabView(r)']]
          \/ poller' = [poller EXCEPT ![p] = Idle]
  /\ UNCHANGED <<clockVars, poster, run, intent, receipts, dispatcher, approver, queries, approvals>>

\* The call or the transaction fails, or the process stops.
RefreshFails(p) ==
  /\ poller[p] # Idle
  /\ poller' = [poller EXCEPT ![p] = Idle]
  /\ UNCHANGED <<labVars, run, intent, receipts, dispatcher, approver, queries, approvals>>

UnchangedSince(r, version) == run[r].version = version

\* The second transaction: an answer older than the run's version is dropped.
RefreshEnds(p) ==
  /\ poller[p].at = "answered"
  /\ LET r == poller[p].run
     IN  IF UnchangedSince(r, poller[p].version)
         THEN run' = [run EXCEPT ![r] = WithSnapshot(@, poller[p].answer, "poll")]
         ELSE UNCHANGED run
  /\ poller' = [poller EXCEPT ![p] = Idle]
  /\ UNCHANGED <<labVars, intent, receipts, dispatcher, approver, queries, approvals>>

-----------------------------------------------------------------------------
(* Deciding a gate.  That the person is not the one who triggered the run   *)
(* is a check of the request alone.                                        *)

CanBeDecided(r) ==
  /\ run[r] # NoRun
  /\ run[r].approval = NoApproval
  /\ run[r].bound /\ run[r].dispatch = "dispatched"
  /\ run[r].gate = "waiting_approval" /\ run[r].raw = "waiting_approval"

DecisionBegins(a, r, decision) ==
  /\ approver[a] = Idle
  /\ approvals < MaxApprovals /\ approvals' = approvals + 1
  /\ CanBeDecided(r)
  /\ approver' = [approver EXCEPT ![a] =
       [at |-> "read", run |-> r, decision |-> decision, version |-> run[r].version]]
  /\ UNCHANGED <<labVars, run, intent, receipts, dispatcher, poller, queries>>

DecisionCalls(a) ==
  /\ approver[a].at = "read"
  /\ \E r \in Runs :
       /\ r = approver[a].run
       /\ LabDecide(r, approver[a].decision)
       /\ \/ approver' = [approver EXCEPT ![a] =
                [at |-> "answered", run |-> r, decision |-> @.decision, version |-> @.version,
                 answer |-> LabView(r)']]
          \/ approver' = [approver EXCEPT ![a] = Idle]
  /\ UNCHANGED <<clockVars, poster, run, intent, receipts, dispatcher, poller, queries, approvals>>

\* The lab refuses, the call fails, or the process stops.
DecisionFails(a) ==
  /\ approver[a] # Idle
  /\ approver' = [approver EXCEPT ![a] = Idle]
  /\ UNCHANGED <<labVars, run, intent, receipts, dispatcher, poller, queries, approvals>>

\* A run has one approval at most; a changed run asks for a repeated request.
DecisionEnds(a) ==
  /\ approver[a].at = "answered"
  /\ LET r == approver[a].run
     IN  IF run[r].approval = NoApproval /\ UnchangedSince(r, approver[a].version)
         THEN run' = [run EXCEPT ![r] =
                WithSnapshot([@ EXCEPT !.approval = approver[a].decision],
                             approver[a].answer, "gate_decision")]
         ELSE UNCHANGED run
  /\ approver' = [approver EXCEPT ![a] = Idle]
  /\ UNCHANGED <<labVars, intent, receipts, dispatcher, poller, queries, approvals>>

-----------------------------------------------------------------------------
(* Webhooks.                                                               *)

\* process_learning_ci_webhook; the answer to the worker may be lost.
ReceiveEvent(w) ==
  /\ Unsent(w)
  /\ LET r == poster[w].run
         i == poster[w].seq
     IN  /\ run[r] # NoRun
         /\ run' = IF i \in receipts[r] THEN run
                   ELSE [run EXCEPT ![r] = AfterEvent(@, i, outbox[r][i].said)]
         /\ receipts' = [receipts EXCEPT ![r] = @ \cup {i}]
  /\ Posted(w, "delivered") \/ Posted(w, "retryable")
  /\ UNCHANGED <<lab, phase, outbox, interventions, intent, clientVars>>

\* The event does not reach the platform, or is refused unprocessed.
EventNotReceived(w) ==
  /\ Unsent(w)
  /\ Posted(w, "retryable") \/ Posted(w, "rejected")
  /\ UNCHANGED <<lab, phase, outbox, interventions, platformVars>>

-----------------------------------------------------------------------------
DispatcherStep(d) ==
  \/ \E r \in Runs : ClaimTrigger(d, r)
  \/ CallTrigger(d) \/ CallFails(d) \/ FinalizeTrigger(d) \/ SettleTriggerFailure(d)

\* The transactions and calls of the platform's processes.
PlatformStep ==
  \/ \E r \in Runs : TriggerRun(r) \/ IntentLeaseRunsOut(r)
  \/ \E d \in Dispatchers : DispatcherStep(d) \/ DispatcherFails(d)
  \/ \E p \in Pollers :
       \/ \E r \in Runs, cancel \in BOOLEAN : RefreshBegins(p, r, cancel)
       \/ RefreshCalls(p) \/ RefreshEnds(p)
  \/ \E a \in Approvers :
       \/ \E r \in Runs, decision \in Approval : DecisionBegins(a, r, decision)
       \/ DecisionCalls(a) \/ DecisionFails(a) \/ DecisionEnds(a)
  \/ \E w \in Workers : ReceiveEvent(w) \/ EventNotReceived(w)

ProviderNext ==
  \/ ~SingleProcessLock /\ PlatformStep
  \/ \E p \in Pollers : CancelCommits(p) \/ RefreshFails(p)
  \/ LabStep /\ UNCHANGED platformVars

ProviderSpec == ProviderInit /\ [][ProviderNext]_allVars

\* The lab's worker and the platform's web process keep running, and each
\* transaction ends.  Clients and dispatchers need not act.
ProviderFairSpec ==
  /\ ProviderSpec
  /\ \A w \in Workers :
       /\ WF_allVars(WorkerStep(w) /\ UNCHANGED platformVars)
       /\ WF_allVars(~SingleProcessLock /\ (ReceiveEvent(w) \/ EventNotReceived(w)))
  /\ \A p \in Pollers : WF_allVars(poller[p].at = "cancelling" /\ (CancelCommits(p) \/ RefreshFails(p)))
  /\ \A r \in Runs :
       WF_allVars((\E i \in DOMAIN outbox[r] : LeaseRunsOut(r, i)) /\ UNCHANGED platformVars)

-----------------------------------------------------------------------------
(* Properties.                                                             *)

\* Every variable has its type.
ProviderTypeOK ==
  /\ TypeOK
  /\ run \in [Runs -> ProviderRun \cup {NoRun}]
  /\ intent \in [Runs -> Intent \cup {NoRun}]
  /\ receipts \in [Runs -> SUBSET Nat]
  /\ \A d \in Dispatchers : dispatcher[d].at \in {"idle", "claimed", "answered"}
  /\ \A p \in Pollers : poller[p].at \in {"idle", "read", "cancelling", "answered"}
  /\ \A a \in Approvers : approver[a].at \in {"idle", "read", "answered"}

Known(r) == run[r] # NoRun

\* A run whose intent has been settled as dispatched is a run of the lab, whose
\* external id is known; a run's dispatch status and its intent never part, nor
\* does a run lose what it was told when an answer fails to arrive
\* (_finalize_provider_trigger, _settle_provider_trigger_failure).
IntentAndRunAgree ==
  \A r \in Runs : Known(r) =>
    /\ run[r].dispatch = CASE intent[r].status = "claimed" -> "dispatching"
                           [] intent[r].status = "succeeded" -> "dispatched"
                           [] OTHER -> intent[r].status
    /\ run[r].dispatch = "dispatched" => Started(r)
    /\ run[r].bound => Started(r)

\* The status of a run that needs no reconciliation is the one the lab announced
\* with the sequence the run has reached, through lost and late answers,
\* duplicates, refreshes and decisions (_apply_provider_run_snapshot,
\* _apply_webhook_snapshot, last_provider_sequence).
StatusMatchesWatermark ==
  \A r \in Subscribed : Known(r) =>
    /\ run[r].seq <= Len(outbox[r])
    /\ (run[r].seq > 0 /\ ~run[r].reconcile) => run[r].raw = outbox[r][run[r].seq].said

\* The tables of a run agree with each other and with the lab's announcements.
TablesAgree == ProviderTypeOK /\ IntentAndRunAgree /\ StatusMatchesWatermark

\* A gated run succeeds on the platform only together with the record of the
\* approval that the lab accepted (decide_provider_quality_gate): neither an
\* event nor a refresh releases the gate.
SuccessIsApproved ==
  \A r \in Gated : (Known(r) /\ run[r].status = "succeeded") =>
    /\ run[r].approval # NoApproval /\ run[r].approval.decision = "approve"
    /\ run[r].gate = "approved"

\* The platform records a decision only if it is the one the lab has made, also
\* when several people decide at once (decide_provider_quality_gate).
RecordedDecisionIsTheLabs ==
  \A r \in Runs : (Known(r) /\ run[r].approval # NoApproval) =>
    Started(r) /\ lab[r].approval = run[r].approval

\* Approvals, the platform's and the lab's, agree with what they let happen.
DecisionsAgree == SuccessIsApproved /\ RecordedDecisionIsTheLabs

\* A finished run stays as it ended (PipelineStatus: terminal states cannot
\* transition again).
EndIsKept ==
  [][\A r \in Runs : (Known(r) /\ run[r].status \in Terminal) =>
       run'[r].status = run[r].status]_allVars

\* When the lab has finished a run, the platform comes to the same end, or
\* shows that it needs reconciliation, or a dead letter shows why not.
EndIsLearned ==
  \A r \in Subscribed :
    (Started(r) /\ lab[r].status \in Terminal) ~>
      \/ Known(r) /\ Started(r) /\ (run[r].reconcile \/ run[r].status = lab[r].status)
      \/ \E i \in DOMAIN outbox[r] : outbox[r][i].status = "dead_letter"

\* dispatcher/main.py: a crashed dispatcher leaves a lease that another process
\* can recover.
LeftLeaseIsRecoverable ==
  \A r \in Runs :
    (/\ Known(r) /\ intent[r].status = "claimed" /\ ~intent[r].live
     /\ \A d \in Dispatchers : dispatcher[d] = Idle) => IntentClaimable(r)
=============================================================================
