-------------------------------- MODULE CiLab --------------------------------
(***************************************************************************)
(* The CI Lab: a small CI server whose runs follow a fixed timeline, with  *)
(* a quality gate that only a human decision releases, and the outbox of   *)
(* webhook deliveries that tells the subscriber of a run each change of    *)
(* its public status (ci_lab/service.py, ci_lab/webhook_worker.py).        *)
(*                                                                         *)
(* Every operation of the service is one write transaction (BEGIN          *)
(* IMMEDIATE), hence one action; a refused operation rolls back.  A run is *)
(* named by its idempotency key.  The clock is kept as the phase of the    *)
(* run's timeline it has reached.  The message of a run is determined by   *)
(* its public status, and a delivery is numbered by its place in the       *)
(* outbox of its run.  A lease token is named by the row version of the    *)
(* claim that drew it.  A payload whose digest no longer matches its body, *)
(* and a key that is reused with other input, do not occur.                *)
(***************************************************************************)
EXTENDS Integers, Sequences, FiniteSets

CONSTANTS
  Runs,              \* idempotency keys
  Gated,             \* runs of a definition with a quality gate
  Failing,           \* runs of a definition with a job that fails
  Subscribed,        \* runs triggered with a webhook_connection_id
  Events,            \* event_id values of gate decisions
  Workers,           \* webhook workers
  MaxDeliveryAttempts,
  MaxInterventions,  \* bound on clocks set back and dead letters retried by hand
  NoRun, NoApproval

ASSUME RunsAssumption ==
  Gated \subseteq Runs /\ Failing \subseteq Runs /\ Subscribed \subseteq Runs
ASSUME DeliveryAssumption ==
  MaxDeliveryAttempts \in Nat \ {0} /\ MaxInterventions \in Nat

VARIABLES
  lab,        \* the run of each key with its gate and its decision, or NoRun
  phase,      \* how far the clock is on the timeline of each run
  outbox,     \* the webhook deliveries of each run in sequence order
  poster,     \* what each webhook worker is busy with
  interventions  \* number of clocks set back and manual retries so far

runVars == <<lab, outbox>>
labVars == <<lab, phase, outbox, poster, interventions>>

Terminal == {"succeeded", "failed", "cancelled"}
RunStatuses == {"queued", "running"} \cup Terminal
GateStatuses ==
  {"none", "evaluating", "waiting_approval", "approved", "rejected", "failed", "cancelled"}
DeliveryStatuses == {"pending", "claimed", "retry_wait", "delivered", "dead_letter"}
Decisions == {"approve", "reject"}
Approval == [event : Events, decision : Decisions]
LabRun == [status : RunStatuses, gate : GateStatuses, approval : Approval \cup {NoApproval}]
\* The absence of a run and of a decision can be told from any of them.
ASSUME AbsenceAssumption == NoApproval \notin Approval /\ NoRun \notin LabRun

\* said: normalized_status; live: the lease has not expired
Delivery == [said : RunStatuses \cup {"waiting_approval"}, status : DeliveryStatuses,
             attempts : Nat, version : Nat, live : BOOLEAN]
Outcomes == {"unsent", "delivered", "retryable", "rejected"}
Resting == [at |-> "rest"]
Polling == [at |-> "poll"]
Posting == [at : {"post"}, run : Runs, seq : Nat, version : Nat, outcome : Outcomes]

\* Phases of the timeline: the queue delay, the jobs, after the last job.
QueuePhase == 0
JobPhase == 1
EndPhase == 2

Init ==
  /\ lab = [r \in Runs |-> NoRun]
  /\ phase = [r \in Runs |-> QueuePhase]
  /\ outbox = [r \in Runs |-> << >>]
  /\ poster = [w \in Workers |-> Resting]
  /\ interventions = 0

-----------------------------------------------------------------------------
(* The runs.                                                               *)

Started(r) == lab[r] # NoRun

\* The status shown to others.
Public(l) == IF l.gate = "waiting_approval" THEN "waiting_approval" ELSE l.status

Fresh(r) ==
  [status |-> "queued", gate |-> IF r \in Gated THEN "evaluating" ELSE "none",
   approval |-> NoApproval]

\* Faulty variant: the gate does not stop the timeline.
TimedIgnoringGate(r) ==
  CASE phase[r] = QueuePhase -> "queued"
    [] phase[r] = JobPhase -> "running"
    [] phase[r] = EndPhase -> IF r \in Failing THEN "failed" ELSE "succeeded"

\* What the timeline alone makes of run r; a gate is reached in its place.
Timed(r) ==
  CASE phase[r] = QueuePhase -> "queued"
    [] phase[r] = JobPhase -> "running"
    [] phase[r] = EndPhase -> IF r \in Failing THEN "failed"
                              ELSE IF lab[r].gate # "none" THEN "running" ELSE "succeeded"

GateReached(r) ==
  phase[r] = EndPhase /\ r \notin Failing /\ lab[r].gate = "evaluating"

\* The timeline no longer moves run r: it is finished, or waits for a decision.
Held(r) == lab[r].status \in Terminal \/ lab[r].gate = "waiting_approval"

\* Faulty variant: a running run follows a clock that was set back.
RefreshedByClock(r) ==
  IF Held(r) THEN lab[r]
  ELSE [lab[r] EXCEPT
          !.status = Timed(r),
          !.gate = IF GateReached(r) THEN "waiting_approval"
                   ELSE IF lab[r].gate = "evaluating" /\ Timed(r) = "failed" THEN "failed"
                   ELSE lab[r].gate]

\* Run r brought up to date with the clock.  A running run does not become
\* queued again when the clock was set back.
Refreshed(r) ==
  IF Held(r) THEN lab[r]
  ELSE LET status == IF lab[r].status = "running" /\ Timed(r) = "queued"
                     THEN "running" ELSE Timed(r)
           gate == IF GateReached(r) THEN "waiting_approval"
                   ELSE IF lab[r].gate = "evaluating" /\ status = "failed" THEN "failed"
                   ELSE lab[r].gate
       IN  [lab[r] EXCEPT !.status = status, !.gate = gate]

NewDelivery(said) ==
  [said |-> said, status |-> "pending", attempts |-> 0, version |-> 0, live |-> FALSE]

\* Faulty variant: only a run that is not finished is announced.
NotifiedWhileActive(r, l) ==
  IF r \in Subscribed /\ l.status \notin {"cancelled"}
     /\ (outbox[r] = << >> \/ outbox[r][Len(outbox[r])].said # Public(l))
  THEN Append(outbox[r], NewDelivery(Public(l)))
  ELSE outbox[r]

\* The outbox of run r after it has become l.
Notified(r, l) ==
  IF r \in Subscribed /\ (outbox[r] = << >> \/ outbox[r][Len(outbox[r])].said # Public(l))
  THEN Append(outbox[r], NewDelivery(Public(l)))
  ELSE outbox[r]

\* Run r becomes l, and a change of its public status is announced.
Becomes(r, l) ==
  /\ lab' = [lab EXCEPT ![r] = l]
  /\ outbox' = [outbox EXCEPT ![r] = Notified(r, l)]

\* The trigger request; a repeated one answers with the run it made before.
LabTrigger(r) == Becomes(r, IF Started(r) THEN Refreshed(r) ELSE Fresh(r))

LabGet(r) == Started(r) /\ Becomes(r, Refreshed(r))

CancelRefused(r) == Refreshed(r).status \in {"succeeded", "failed"}

Cancelled(r) ==
  IF Refreshed(r).status = "cancelled" THEN Refreshed(r)
  ELSE [Refreshed(r) EXCEPT
          !.status = "cancelled",
          !.gate = IF @ = "none" THEN "none" ELSE "cancelled"]

LabCancel(r) == Started(r) /\ ~CancelRefused(r) /\ Becomes(r, Cancelled(r))

\* A decision is accepted when it repeats the one that was made, or when none
\* was made and the gate waits for one.
DecisionAccepted(r, decision) ==
  \/ lab[r].approval = decision
  \/ lab[r].approval = NoApproval /\ Refreshed(r).gate = "waiting_approval"

Decided(r, decision) ==
  IF lab[r].approval = decision THEN Refreshed(r)
  ELSE [Refreshed(r) EXCEPT
          !.approval = decision,
          !.status = IF decision.decision = "approve" THEN "succeeded" ELSE "failed",
          !.gate = IF decision.decision = "approve" THEN "approved" ELSE "rejected"]

LabDecide(r, decision) ==
  /\ Started(r)
  /\ lab[r].gate # "none"
  /\ DecisionAccepted(r, decision)
  /\ Becomes(r, Decided(r, decision))

-----------------------------------------------------------------------------
(* The webhook worker: advance the runs, claim a delivery, post it, settle. *)

\* Faulty variant: a run is no longer looked at once it is running.
ToAdvanceQueued == {r \in Subscribed : Started(r) /\ lab[r].status = "queued"}

\* The runs that advance_webhook_runs_once brings up to date.
ToAdvance == {r \in Subscribed : Started(r) /\ ~Held(r)}

Advance(w) ==
  /\ poster[w] = Resting
  /\ lab' = [r \in Runs |-> IF r \in ToAdvance THEN Refreshed(r) ELSE lab[r]]
  /\ outbox' = [r \in Runs |-> IF r \in ToAdvance THEN Notified(r, Refreshed(r)) ELSE outbox[r]]
  /\ poster' = [poster EXCEPT ![w] = Polling]
  /\ UNCHANGED <<phase, interventions>>

LeaseOver(d) == d.status = "claimed" /\ ~d.live

\* Faulty variant: the final attempt of a worker that died is not noticed.
NeverExhausted(d) == FALSE

\* A worker may die during its final attempt.
Exhausted(d) == LeaseOver(d) /\ d.attempts >= MaxDeliveryAttempts

Buried(d) == IF Exhausted(d)
             THEN [d EXCEPT !.status = "dead_letter", !.live = FALSE, !.version = @ + 1]
             ELSE d

AfterBurials == [r \in Runs |-> [i \in DOMAIN outbox[r] |-> Buried(outbox[r][i])]]

\* Faulty variant: a dead letter does not hold up what comes after it.
ClaimablePastDeadLetters(o, i) ==
  /\ o[i].status \in {"pending", "retry_wait"} \/ LeaseOver(o[i])
  /\ o[i].attempts < MaxDeliveryAttempts
  /\ \A j \in 1 .. i - 1 : o[j].status \in {"delivered", "dead_letter"}

\* Delivery i of sequence o can be claimed: it is due, has attempts left, and
\* the subscriber has everything that came before it.
Claimable(o, i) ==
  /\ o[i].status \in {"pending", "retry_wait"} \/ LeaseOver(o[i])
  /\ o[i].attempts < MaxDeliveryAttempts
  /\ \A j \in 1 .. i - 1 : o[j].status = "delivered"

Claimed(d) == [d EXCEPT !.status = "claimed", !.attempts = @ + 1, !.version = @ + 1, !.live = TRUE]

ClaimNext(w) ==
  /\ poster[w] = Polling
  /\ LET o == AfterBurials
     IN  \/ \E r \in Runs : \E i \in DOMAIN o[r] :
              /\ Claimable(o[r], i)
              /\ outbox' = [o EXCEPT ![r][i] = Claimed(@)]
              /\ poster' = [poster EXCEPT ![w] =
                   [at |-> "post", run |-> r, seq |-> i, version |-> o[r][i].version + 1,
                    outcome |-> "unsent"]]
         \/ /\ \A r \in Runs : \A i \in DOMAIN o[r] : ~Claimable(o[r], i)
            /\ outbox' = o
            /\ poster' = [poster EXCEPT ![w] = Resting]
  /\ UNCHANGED <<lab, phase, interventions>>

Unsent(w) == poster[w].at = "post" /\ poster[w].outcome = "unsent"

\* The answer to the POST, or its absence, as the worker classifies it.
Posted(w, outcome) == poster' = [poster EXCEPT ![w].outcome = outcome]

\* Any answer of the subscriber.
PostAnswered(w) ==
  /\ Unsent(w)
  /\ \E outcome \in Outcomes \ {"unsent"} : Posted(w, outcome)
  /\ UNCHANGED <<lab, phase, outbox, interventions>>

HoldsDelivery(w) ==
  LET d == outbox[poster[w].run][poster[w].seq]
  IN  d.status = "claimed" /\ d.version = poster[w].version /\ d.live

SettledDelivery(d, outcome) ==
  [d EXCEPT !.status =
              IF outcome = "delivered" THEN "delivered"
              ELSE IF outcome = "retryable" /\ d.attempts < MaxDeliveryAttempts THEN "retry_wait"
              ELSE "dead_letter",
            !.version = @ + 1, !.live = FALSE]

\* A worker that lost its lease leaves the delivery as it is.
Settle(w) ==
  /\ poster[w].at = "post" /\ poster[w].outcome # "unsent"
  /\ LET r == poster[w].run
         i == poster[w].seq
     IN  outbox' = IF HoldsDelivery(w)
                   THEN [outbox EXCEPT ![r][i] = SettledDelivery(@, poster[w].outcome)]
                   ELSE outbox
  /\ poster' = [poster EXCEPT ![w] = Resting]
  /\ UNCHANGED <<lab, phase, interventions>>

\* The worker dies, or its cycle fails, while it has a delivery; it restarts.
WorkerFails(w) ==
  /\ poster[w].at = "post"
  /\ poster' = [poster EXCEPT ![w] = Resting]
  /\ UNCHANGED <<lab, phase, outbox, interventions>>

Intervention == interventions < MaxInterventions /\ interventions' = interventions + 1

Revived(d) == [d EXCEPT !.status = "pending", !.attempts = 0, !.version = @ + 1]

\* The machine API puts a dead letter back; it keeps its place.
RetryDeadLetter(r, i) ==
  /\ Intervention
  /\ outbox[r][i].status = "dead_letter"
  /\ outbox' = [outbox EXCEPT ![r][i] = Revived(@)]
  /\ UNCHANGED <<lab, phase, poster>>

-----------------------------------------------------------------------------
(* The clock.                                                              *)

ClockAdvances(r) ==
  /\ phase[r] < EndPhase
  /\ phase' = [phase EXCEPT ![r] = @ + 1]
  /\ UNCHANGED <<lab, outbox, poster, interventions>>

ClockIsSetBack(r) ==
  /\ Intervention
  /\ phase[r] > QueuePhase
  /\ phase' = [phase EXCEPT ![r] = @ - 1]
  /\ UNCHANGED <<lab, outbox, poster>>

LeaseRunsOut(r, i) ==
  /\ outbox[r][i].live
  /\ outbox' = [outbox EXCEPT ![r][i].live = FALSE]
  /\ UNCHANGED <<lab, phase, poster, interventions>>

ClockMoves ==
  \E r \in Runs :
    ClockAdvances(r) \/ ClockIsSetBack(r) \/ \E i \in DOMAIN outbox[r] : LeaseRunsOut(r, i)

-----------------------------------------------------------------------------
\* A request of a machine client.
Request(r) ==
  /\ \/ LabTrigger(r)
     \/ LabGet(r)
     \/ LabCancel(r)
     \/ \E decision \in Approval : LabDecide(r, decision)
  /\ UNCHANGED <<phase, poster, interventions>>

WorkerStep(w) == Advance(w) \/ ClaimNext(w) \/ Settle(w)

\* What happens in the lab without a call from or to the outside.
LabStep ==
  \/ \E w \in Workers : WorkerStep(w) \/ WorkerFails(w)
  \/ \E r \in Runs : \E i \in DOMAIN outbox[r] : RetryDeadLetter(r, i)
  \/ ClockMoves

Next ==
  \/ \E r \in Runs : Request(r)
  \/ \E w \in Workers : PostAnswered(w)
  \/ LabStep

Spec == Init /\ [][Next]_labVars

\* Workers keep running and the clock moves on; nobody has to ask for a run.
FairSpec ==
  /\ Spec
  /\ \A w \in Workers : WF_labVars(WorkerStep(w)) /\ WF_labVars(PostAnswered(w))
  /\ \A r \in Runs :
       /\ WF_labVars(ClockAdvances(r))
       /\ WF_labVars(\E i \in DOMAIN outbox[r] : LeaseRunsOut(r, i))

-----------------------------------------------------------------------------
(* Properties.                                                             *)

\* Every variable has its type, and only a claimed delivery has a lease.
TypeOK ==
  /\ lab \in [Runs -> LabRun \cup {NoRun}]
  /\ phase \in [Runs -> {QueuePhase, JobPhase, EndPhase}]
  /\ outbox \in [Runs -> Seq(Delivery)]
  /\ \A r \in Runs : \A i \in DOMAIN outbox[r] :
       outbox[r][i].live => outbox[r][i].status = "claimed"
  /\ poster \in [Workers -> Posting \cup {Resting, Polling}]
  /\ interventions \in 0 .. MaxInterventions

\* A delivery is attempted only when the subscriber has acknowledged all the
\* deliveries of the run with a lower sequence, through retries, dead letters
\* and workers that lose their lease (claim_webhook_delivery).
AttemptedInOrder ==
  \A r \in Runs : \A i \in DOMAIN outbox[r] :
    outbox[r][i].attempts > 0 => \A j \in 1 .. i - 1 : outbox[r][j].status = "delivered"

\* The newest delivery of a subscribed run announces the run's present public
\* status, whichever operation changed it (_enqueue_webhook_if_changed).
EveryChangeIsAnnounced ==
  \A r \in Subscribed :
    Started(r) => /\ outbox[r] # << >>
                  /\ outbox[r][Len(outbox[r])].said = Public(lab[r])

\* The place of a status in the life of a run.
Rank(s) == CASE s = "queued" -> 0 [] s = "running" -> 1 [] s = "waiting_approval" -> 2 [] OTHER -> 3

\* The deliveries of a run tell a life that only moves forward and ends once,
\* also when the clock is set back between two observations (_refresh_record).
AnnouncedLifeMovesForward ==
  \A r \in Runs : \A i, j \in DOMAIN outbox[r] :
    i < j => Rank(outbox[r][i].said) < Rank(outbox[r][j].said)

\* A gated run succeeds only with a recorded approval, and a recorded decision
\* is the end of its run, approved or rejected accordingly (decide_gate,
\* _refresh_record: neither time nor a read releases the gate).
GateNeedsADecision ==
  \A r \in Gated : Started(r) =>
    /\ lab[r].status = "succeeded" =>
         lab[r].approval # NoApproval /\ lab[r].approval.decision = "approve"
    /\ lab[r].approval # NoApproval =>
         /\ r \notin Failing
         /\ lab[r].status = IF lab[r].approval.decision = "approve" THEN "succeeded" ELSE "failed"

\* At most one worker can settle a delivery (_require_webhook_delivery_lease).
OneWorkerCanSettle ==
  \A v, w \in Workers :
    (/\ poster[v].at = "post" /\ poster[w].at = "post"
     /\ poster[v].run = poster[w].run /\ poster[v].seq = poster[w].seq
     /\ HoldsDelivery(v) /\ HoldsDelivery(w)) => v = w

\* The deliveries of a run are attempted in order and settled by one worker.
DeliveriesAreOrderly == AttemptedInOrder /\ OneWorkerCanSettle

\* A finished run and a decision never change again (cancel, decide_gate).
TheEndIsFinal ==
  [][\A r \in Runs : Started(r) =>
       /\ lab[r].status \in Terminal => lab'[r] = lab[r]
       /\ lab[r].approval # NoApproval => lab'[r].approval = lab[r].approval]_labVars

\* Without anybody asking for it, a subscribed run reaches its end or its gate
\* (advance_webhook_runs_once).
RunsComeToRest ==
  \A r \in Subscribed : Started(r) ~> (Started(r) /\ Held(r))

\* The announcements of a run are all delivered, or one of them is visibly a
\* dead letter: none is stuck with a worker that died, not even on its last
\* attempt (claim_webhook_delivery, fail_webhook_delivery).
NoDeliveryIsStuck ==
  \A r \in Subscribed :
    (outbox[r] # << >>) ~>
      \/ \A i \in DOMAIN outbox[r] : outbox[r][i].status = "delivered"
      \/ \E i \in DOMAIN outbox[r] : outbox[r][i].status = "dead_letter"
=============================================================================
