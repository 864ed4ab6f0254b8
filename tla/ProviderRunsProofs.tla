-------------------------- MODULE ProviderRunsProofs --------------------------
(***************************************************************************)
(* To the CI Lab, the platform is a machine client and a subscriber like   *)
(* any other: each step of the two together is a step of the lab or leaves *)
(* it alone.  Whatever is proved of the lab holds with the platform.       *)
(*                                                                         *)
(* The platform's own invariant, PlatformInv, says which rows each task    *)
(* holds and what the marks of a run mean.  MarkInv is its part about      *)
(* cancellations: it needs a server that does not accept one that comes    *)
(* too late (~LateCancels).                                                *)
(***************************************************************************)
EXTENDS ProviderRuns, CiLabProofs

\* A person who decides a gate decides it one way or the other.
DecisionsAreMade ==
  /\ approver = [a \in Approvers |-> approver[a]]
  /\ \A a \in Approvers : approver[a].at = "read" => approver[a].decision \in Approval

\* The platform leaves the lab alone, calls it, or receives an event.
LEMMA PlatformStepIsALabStep ==
  ASSUME DecisionsAreMade, PlatformStep
  PROVE  [Next]_labVars
  <1>1. ASSUME NEW r \in Runs, TriggerRun(r) \/ IntentLeaseRunsOut(r) PROVE UNCHANGED labVars
    BY <1>1 DEF TriggerRun, IntentLeaseRunsOut
  <1>2. ASSUME NEW d \in Dispatchers, DispatcherStep(d) \/ DispatcherFails(d)
        PROVE  [Next]_labVars
    <2>1. CASE CallTrigger(d)
      <3>1. PICK r \in Runs : LabTrigger(r)
        BY <2>1 DEF CallTrigger
      <3>2. Request(r)
        BY <2>1, <3>1 DEF CallTrigger, clockVars, Request
      <3> QED
        BY <3>2 DEF Next
    <2>2. CASE ~CallTrigger(d)
      BY <1>2, <2>2
      DEF DispatcherStep, ClaimTrigger, CallFails, FinalizeTrigger, SettleTriggerFailure,
          DispatcherFails
    <2> QED
      BY <2>1, <2>2
  <1>3. ASSUME NEW p \in Pollers, RefreshCalls(p) PROVE [Next]_labVars
    <2>1. PICK r \in Runs : LabCancel(r) \/ LabGet(r)
      BY <1>3 DEF RefreshCalls
    <2>2. Request(r)
      BY <1>3, <2>1 DEF RefreshCalls, clockVars, Request
    <2> QED
      BY <2>2 DEF Next
  <1>4. ASSUME NEW p \in Pollers,
               RefreshEnds(p) \/ \E r \in Runs, cancel \in BOOLEAN : RefreshBegins(p, r, cancel)
        PROVE  UNCHANGED labVars
    BY <1>4 DEF RefreshEnds, RefreshBegins
  <1>5. ASSUME NEW a \in Approvers, DecisionCalls(a) PROVE [Next]_labVars
    <2>1. approver[a].decision \in Approval
      BY <1>5 DEF DecisionCalls, DecisionsAreMade
    <2>2. PICK r \in Runs : LabDecide(r, approver[a].decision)
      BY <1>5 DEF DecisionCalls
    <2>3. Request(r)
      BY <1>5, <2>1, <2>2 DEF DecisionCalls, clockVars, Request
    <2> QED
      BY <2>3 DEF Next
  <1>6. ASSUME NEW a \in Approvers,
               \/ \E r \in Runs, decision \in Approval : DecisionBegins(a, r, decision)
               \/ DecisionFails(a) \/ DecisionEnds(a)
        PROVE  UNCHANGED labVars
    BY <1>6 DEF DecisionBegins, DecisionFails, DecisionEnds
  <1>7. ASSUME NEW w \in Workers, ReceiveEvent(w) \/ EventNotReceived(w) PROVE PostAnswered(w)
    <2>1. PICK outcome \in Outcomes \ {"unsent"} : Posted(w, outcome)
      BY <1>7 DEF ReceiveEvent, EventNotReceived, Outcomes
    <2> QED
      BY <1>7, <2>1 DEF ReceiveEvent, EventNotReceived, PostAnswered
  <1> QED
    BY <1>1, <1>2, <1>3, <1>4, <1>5, <1>6, <1>7 DEF PlatformStep, Next

LEMMA ProviderStepIsALabStep ==
  ASSUME DecisionsAreMade, [ProviderNext]_allVars
  PROVE  [Next]_labVars
  <1>1. ASSUME NEW p \in Pollers, CancelCommits(p) \/ RefreshFails(p) PROVE UNCHANGED labVars
    BY <1>1 DEF CancelCommits, RefreshFails
  <1>2. CASE LabStep
    BY <1>2 DEF Next
  <1>3. CASE UNCHANGED allVars
    BY <1>3 DEF allVars
  <1> QED
    BY <1>1, <1>2, <1>3, PlatformStepIsALabStep DEF ProviderNext

LEMMA DecisionsStayMade ==
  ASSUME DecisionsAreMade, [ProviderNext]_allVars
  PROVE  DecisionsAreMade'
  <1>1. CASE UNCHANGED approver
    BY <1>1 DEF DecisionsAreMade
  <1>2. ASSUME NEW a \in Approvers,
               \/ \E r \in Runs, decision \in Approval : DecisionBegins(a, r, decision)
               \/ DecisionCalls(a) \/ DecisionFails(a) \/ DecisionEnds(a)
        PROVE  DecisionsAreMade'
    <2>1. PICK x : approver' = [approver EXCEPT ![a] = x] /\ (x.at = "read" => x.decision \in Approval)
      BY <1>2 DEF DecisionBegins, DecisionCalls, DecisionFails, DecisionEnds, Idle
    <2> QED
      BY <2>1 DEF DecisionsAreMade
  <1> QED
    BY <1>1, <1>2
    DEF ProviderNext, PlatformStep, TriggerRun, IntentLeaseRunsOut, DispatcherStep, ClaimTrigger,
        CallTrigger, CallFails, FinalizeTrigger, SettleTriggerFailure, DispatcherFails,
        RefreshBegins, RefreshCalls, RefreshEnds, RefreshFails, CancelCommits, ReceiveEvent,
        EventNotReceived, platformVars, clientVars, allVars

\* The lab together with the platform behaves as the lab.
THEOREM ProviderImplementsLab == ProviderSpec => Spec
  <1>1. ProviderInit => Init /\ DecisionsAreMade
    BY DEF ProviderInit, DecisionsAreMade, Idle
  <1>2. DecisionsAreMade /\ [ProviderNext]_allVars => DecisionsAreMade' /\ [Next]_labVars
    BY ProviderStepIsALabStep, DecisionsStayMade
  <1> QED
    BY <1>1, <1>2, PTL DEF ProviderSpec, Spec

\* Neither the platform's retries, nor its lost answers, nor the persons who
\* decide at the same time open a gate without a decision (decide_gate), or make
\* the lab announce a life that goes back (_refresh_record).
THEOREM LabPromisesHold == ProviderSpec => [](GateNeedsADecision /\ AnnouncedLifeMovesForward)
  BY ProviderImplementsLab, GateHolds, LifeMovesForward, PTL

-----------------------------------------------------------------------------
(* The inductive invariant of the platform's tables: what each run, each   *)
(* dispatcher and each client holds is true of the lab.                    *)

DispatcherStates ==
  {Idle} \cup [at : {"claimed"}, run : Runs, token : Nat]
         \cup [at : {"answered"}, run : Runs, token : Nat,
               answer : View \cup {Failure("uncertain"), Failure("rejected")}]
PollerStates ==
  {Idle} \cup [at : {"read"}, run : Runs, cancel : BOOLEAN, version : Nat]
         \cup [at : {"cancelling"}, run : Runs, version : Nat]
         \cup [at : {"answered"}, run : Runs, version : Nat, answer : View]
ApproverStates ==
  {Idle} \cup [at : {"read"}, run : Runs, decision : Approval, version : Nat]
         \cup [at : {"answered"}, run : Runs, decision : Approval, version : Nat, answer : View]

PlatformTypes ==
  /\ run \in [Runs -> ProviderRun \cup {NoRun}]
  /\ intent \in [Runs -> Intent \cup {NoRun}]
  /\ receipts \in [Runs -> SUBSET Nat]
  /\ dispatcher \in [Dispatchers -> DispatcherStates]
  /\ poller \in [Pollers -> PollerStates]
  /\ approver \in [Approvers -> ApproverStates]

\* v is what the lab has said of run r, at some time: it may be old, but the
\* announcement it was made with is there, and an end is for ever.
IsTold(r, v) ==
  /\ v \in View
  /\ Started(r)
  /\ v.raw = "waiting_approval" <=> v.gate = "waiting_approval"
  /\ v.raw \in Terminal => v.raw = lab[r].status /\ v.gate = lab[r].gate
  /\ v.seq <= Len(outbox[r])
  /\ r \in Subscribed => v.seq > 0 /\ outbox[r][v.seq].said = v.raw

\* The gate of a run that a person could decide is not left but by the end.
AtGateOrEnd(p) == p.gate = "waiting_approval" \/ p.status \in Terminal

\* The dispatch status that goes with the status of an intent.
DispatchOf(i) == CASE i.status = "claimed" -> "dispatching"
                   [] i.status = "succeeded" -> "dispatched"
                   [] OTHER -> i.status

\* The run p and the intent i of r agree with each other and with the lab.
RunIsTrue(r, p, i) ==
  /\ p.dispatch = DispatchOf(i)
  /\ p.dispatch = "dispatched" \/ p.bound => Started(r)
  /\ r \in Gated /\ p.status = "succeeded" =>
       /\ p.approval # NoApproval /\ p.approval.decision = "approve"
       /\ p.gate = "approved"
  /\ p.approval # NoApproval => Started(r) /\ lab[r].approval = p.approval
  /\ Started(r) /\ lab[r].approval # NoApproval => AtGateOrEnd(p)

TableInv(r) ==
  /\ run[r] = NoRun <=> intent[r] = NoRun
  /\ Known(r) => RunIsTrue(r, run[r], intent[r])
  /\ Started(r) /\ lab[r].approval # NoApproval => Known(r)

\* What a dispatcher, a poller and an approver know.
DispatcherKnows(x) ==
  /\ x \in DispatcherStates
  /\ x.at # "idle" => Known(x.run)
  /\ x.at = "answered" /\ x.answer \in View => IsTold(x.run, x.answer)
PollerKnows(x) ==
  /\ x \in PollerStates
  /\ x.at # "idle" => Known(x.run)
  /\ x.at = "answered" => IsTold(x.run, x.answer)
ApproverKnows(x) ==
  /\ x \in ApproverStates
  /\ x.at # "idle" => Known(x.run) /\ AtGateOrEnd(run[x.run])
  /\ x.at = "answered" =>
       /\ IsTold(x.run, x.answer)
       /\ x.answer.raw \in Terminal
       /\ lab[x.run].approval = x.decision

PlatformInv ==
  /\ LabInv
  /\ PlatformTypes
  /\ \A r \in Runs : TableInv(r)
  /\ \A d \in Dispatchers : DispatcherKnows(dispatcher[d])
  /\ \A p \in Pollers : PollerKnows(poller[p])
  /\ \A a \in Approvers : ApproverKnows(approver[a])

\* The watermark of run p of r, and what it says of the run.
Undispatched(p) == p.dispatch \in {"pending", "dispatching", "retry_wait"}
MarkIsPossible(r, p) ==
  /\ p.seq <= Len(outbox[r])
  /\ p.seq > 0 => p.bound
  /\ Undispatched(p) /\ p.status \in Terminal => p.seq > 0
  /\ p.bound /\ r \notin Subscribed => p.dispatch = "dispatched"
MarkIsTrue(r, p) ==
  /\ MarkIsPossible(r, p)
  /\ r \in Subscribed /\ p.seq > 0 /\ ~p.reconcile => p.raw = outbox[r][p.seq].said

\* An answer is not older than the run, as long as the run is what was read.
ReadIsRecent(x) ==
  x.at \in {"read", "answered"} =>
    /\ run[x.run].bound
    /\ x.version <= run[x.run].version
    /\ (x.at = "answered" /\ x.version = run[x.run].version) => run[x.run].seq <= x.answer.seq

\* A cancellation that has begun may still be made, and is the only one.
CancellationIsDue(p) ==
  poller[p].at = "cancelling" =>
    /\ CancellableHere(poller[p].run)
    /\ poller[p].version = run[poller[p].run].version
    /\ \A q \in Pollers : poller[q].at = "cancelling" => q = p

MarkInv ==
  /\ \A r \in Runs : Known(r) => MarkIsTrue(r, run[r])
  /\ \A p \in Pollers : ReadIsRecent(poller[p]) /\ CancellationIsDue(p)
  /\ \A a \in Approvers : ReadIsRecent(approver[a])

-----------------------------------------------------------------------------
(* What a step of the lab leaves true.                                     *)

\* No run of the lab has a decision that it did not have before.
SameApprovals ==
  \A r \in Runs : (Started(r)' /\ lab'[r].approval # NoApproval) =>
    Started(r) /\ lab'[r].approval = lab[r].approval

LEMMA LabFacts ==
  ASSUME LabInv, NEW r \in Runs, Started(r)
  PROVE  /\ lab[r] \in LabRun /\ RunIsSound(r, lab[r])
         /\ lab[r].approval # NoApproval => lab[r].status \in Terminal
         /\ Public(lab[r]) = "waiting_approval" <=> lab[r].gate = "waiting_approval"
         /\ Public(lab[r]) \in Terminal => Public(lab[r]) = lab[r].status
  BY DEF LabInv, TypeOK, RunInv, Started, RunIsSound, LabRun, RunStatuses, Terminal, Public

\* Only a decision decides: a run that is brought up to date keeps its approval.
LEMMA BecomesKeepsApprovals ==
  ASSUME LabInv, NEW r \in Runs, NEW l, Becomes(r, l),
         l.approval = IF Started(r) THEN lab[r].approval ELSE NoApproval
  PROVE  SameApprovals
  <1>1. lab' = [lab EXCEPT ![r] = l] /\ lab \in [Runs -> LabRun \cup {NoRun}]
    BY DEF Becomes, LabInv, TypeOK
  <1>2. \A q \in Runs \ {r} : lab'[q] = lab[q]
    BY <1>1
  <1>3. lab'[r] = l
    BY <1>1
  <1> QED
    BY <1>2, <1>3 DEF SameApprovals, Started

LEMMA UndecidedRequests ==
  ASSUME LabInv, NEW r \in Runs, LabTrigger(r) \/ LabGet(r) \/ LabCancel(r)
  PROVE  SameApprovals /\ Started(r)'
  <1>1. lab \in [Runs -> LabRun \cup {NoRun}]
    BY DEF LabInv, TypeOK
  <1>2. PICK l : /\ Becomes(r, l)
                 /\ l \in LabRun
                 /\ l.approval = IF Started(r) THEN lab[r].approval ELSE NoApproval
    <2>1. CASE LabTrigger(r) /\ ~Started(r)
      BY <2>1, FreshFollows DEF LabTrigger, Fresh, Follows
    <2>2. CASE Started(r) /\ (LabTrigger(r) \/ LabGet(r))
      BY <2>2, RefreshedFollows DEF LabTrigger, LabGet, Follows
    <2>3. CASE LabCancel(r)
      <3>1. Started(r) /\ ~CancelRefused(r) /\ Becomes(r, Cancelled(r))
        BY <2>3 DEF LabCancel
      <3>2. Cancelled(r) \in LabRun /\ Refreshed(r) \in LabRun
            /\ Refreshed(r).approval = lab[r].approval
        BY <3>1, CancelledFollows, RefreshedFollows DEF Follows
      <3>3. Cancelled(r).approval = Refreshed(r).approval
        BY <3>2 DEF Cancelled, LabRun
      <3> QED
        BY <3>1, <3>2, <3>3
    <2> QED
      BY <2>1, <2>2, <2>3 DEF LabGet
  <1>3. lab'[r] = l
    BY <1>1, <1>2 DEF Becomes
  <1> QED
    BY <1>2, <1>3, BecomesKeepsApprovals, AbsenceAssumption DEF Started

\* The lab's own steps decide nothing.
LEMMA LabStepsDecideNothing ==
  ASSUME LabInv, LabStep
  PROVE  SameApprovals
  <1>1. ASSUME NEW w \in Workers, Advance(w) PROVE SameApprovals
    <2>1. ASSUME NEW r \in Runs, lab'[r] # lab[r]
          PROVE  Started(r) /\ lab'[r].approval = lab[r].approval
      <3>1. Started(r) /\ lab'[r] = Refreshed(r)
        BY <1>1, <2>1 DEF Advance, ToAdvance
      <3> QED
        BY <3>1, RefreshedFollows
    <2> QED
      BY <2>1 DEF SameApprovals, Started
  <1>2. CASE UNCHANGED lab
    BY <1>2 DEF SameApprovals, Started
  <1> QED
    BY <1>1, <1>2
    DEF LabStep, WorkerStep, ClaimNext, Settle, WorkerFails, RetryDeadLetter, ClockMoves,
        ClockAdvances, ClockIsSetBack, LeaseRunsOut

\* What the lab decides is the decision it was asked for.
LEMMA DecidedAsAsked ==
  ASSUME LabInv, NEW r \in Runs, NEW decision \in Approval, LabDecide(r, decision)
  PROVE  /\ Started(r)' /\ lab'[r].approval = decision
         /\ \A q \in Runs \ {r} : lab'[q] = lab[q]
  <1>1. Started(r) /\ DecisionAccepted(r, decision) /\ Becomes(r, Decided(r, decision))
    BY DEF LabDecide
  <1>2. Decided(r, decision) \in LabRun
    BY <1>1, DecidedFollows DEF Follows
  <1>3. Decided(r, decision).approval = decision
    <2>1. Refreshed(r) \in LabRun /\ Refreshed(r).approval = lab[r].approval
      BY <1>1, RefreshedFollows DEF Follows
    <2> QED
      BY <2>1 DEF Decided, LabRun
  <1>4. /\ lab \in [Runs -> LabRun \cup {NoRun}]
        /\ lab' = [lab EXCEPT ![r] = Decided(r, decision)]
    BY <1>1 DEF Becomes, LabInv, TypeOK
  <1> HIDE DEF Decided
  <1>5. lab'[r] = Decided(r, decision) /\ \A q \in Runs \ {r} : lab'[q] = lab[q]
    BY <1>4
  <1> QED
    BY <1>2, <1>3, <1>5, AbsenceAssumption DEF Started

\* The lab's answer is true when it is given...
LEMMA AnswersAreTrue ==
  ASSUME LabInv', NEW r \in Runs, Started(r)', NEW v, v = LabView(r)'
  PROVE  IsTold(r, v)'
  <1>1. /\ lab'[r] \in LabRun /\ lab'[r] # NoRun
        /\ outbox'[r] \in Seq(Delivery)
        /\ (lab'[r].gate = "waiting_approval") => (lab'[r].status = "running")
        /\ r \in Subscribed => outbox'[r] # << >> /\ outbox'[r][Len(outbox'[r])].said = Public(lab'[r])
    BY DEF LabInv, TypeOK, RunInv, RunIsSound, LifeIsTold, Started
  <1>2. v = [raw |-> Public(lab'[r]), gate |-> lab'[r].gate, seq |-> Len(outbox'[r])]
    BY DEF LabView, Public
  <1>3. Len(outbox'[r]) \in Nat /\ (outbox'[r] # << >> => Len(outbox'[r]) > 0)
    BY <1>1, EmptySeq, LenProperties
  <1>4. /\ Public(lab'[r]) \in RunStatuses \cup {"waiting_approval"}
        /\ Public(lab'[r]) = "waiting_approval" <=> lab'[r].gate = "waiting_approval"
        /\ Public(lab'[r]) \in Terminal => Public(lab'[r]) = lab'[r].status
        /\ lab'[r].gate \in GateStatuses
    BY <1>1 DEF LabRun, RunStatuses, Terminal, Public
  <1>5. v \in View
    BY <1>2, <1>3, <1>4 DEF View
  <1> QED
    BY <1>1, <1>2, <1>3, <1>4, <1>5 DEF IsTold, Started

\* ... and stays true.
LEMMA TruthIsKept ==
  ASSUME LabInv, NEW r \in Runs, RunStep(r), NEW v, IsTold(r, v)
  PROVE  IsTold(r, v)'
  <1>1. /\ v \in View /\ Started(r) /\ v.seq <= Len(outbox[r]) /\ v.seq \in Nat
        /\ v.raw \in Terminal => v.raw = lab[r].status /\ v.gate = lab[r].gate
        /\ r \in Subscribed => v.seq > 0 /\ outbox[r][v.seq].said = v.raw
    BY DEF IsTold, View
  <1>2. Len(outbox[r]) \in Nat /\ Len(outbox'[r]) \in Nat /\ Len(outbox[r]) <= Len(outbox'[r])
    BY RunFacts, LenProperties DEF RunStep
  <1>3. Started(r)' /\ (lab[r].status \in Terminal => lab'[r] = lab[r])
    BY <1>1 DEF RunStep
  <1>4. r \in Subscribed => outbox'[r][v.seq].said = v.raw
    BY <1>1, <1>2 DEF RunStep
  <1>5. v.seq <= Len(outbox'[r])
    BY <1>1, <1>2
  <1>6. v.raw \in Terminal => v.raw = lab'[r].status /\ v.gate = lab'[r].gate
    BY <1>1, <1>3
  <1> QED
    BY <1>1, <1>3, <1>4, <1>5, <1>6 DEF IsTold

-----------------------------------------------------------------------------
(* What a step leaves true of the platform.                                *)

\* The step does not take away what others may know of run r.
KeepsWord(r) ==
  /\ RunStep(r)
  /\ Known(r) => Known(r)'
  /\ Known(r) /\ AtGateOrEnd(run[r]) => AtGateOrEnd(run[r])'

LEMMA StateShapes ==
  /\ \A x \in DispatcherStates :
       /\ x.at # "idle" => x.run \in Runs /\ x.token \in Nat
       /\ x.at = "answered" => x.answer \in View \cup {Failure("uncertain"), Failure("rejected")}
  /\ \A x \in PollerStates :
       /\ x.at # "idle" => x.run \in Runs /\ x.version \in Nat
       /\ x.at = "answered" => x.answer \in View
  /\ \A x \in ApproverStates :
       /\ x.at # "idle" => x.run \in Runs /\ x.version \in Nat /\ x.decision \in Approval
       /\ x.at = "answered" => x.answer \in View
  BY DEF DispatcherStates, PollerStates, ApproverStates, Idle

LEMMA KnowledgeIsKept ==
  ASSUME PlatformInv, \A r \in Runs : KeepsWord(r), NEW x
  PROVE  /\ DispatcherKnows(x) => DispatcherKnows(x)'
         /\ PollerKnows(x) => PollerKnows(x)'
         /\ ApproverKnows(x) => ApproverKnows(x)'
  <1> USE StateShapes
  <1>1. \A r \in Runs : RunStep(r) /\ (Known(r) => Known(r)')
    BY DEF KeepsWord
  <1>2. \A r \in Runs : \A v : IsTold(r, v) => IsTold(r, v)'
    BY <1>1, TruthIsKept DEF PlatformInv
  <1>3. DispatcherKnows(x) => DispatcherKnows(x)'
    BY <1>1, <1>2 DEF DispatcherKnows
  <1>4. PollerKnows(x) => PollerKnows(x)'
    BY <1>1, <1>2 DEF PollerKnows
  <1>5. ASSUME ApproverKnows(x) PROVE ApproverKnows(x)'
    <2>1. CASE x.at = "idle"
      BY <1>5, <2>1 DEF ApproverKnows
    <2>2. CASE x.at # "idle"
      <3>1. x.run \in Runs /\ x \in ApproverStates /\ Known(x.run) /\ AtGateOrEnd(run[x.run])
        BY <1>5, <2>2 DEF ApproverKnows
      <3>2. Known(x.run)' /\ AtGateOrEnd(run[x.run])'
        BY <3>1 DEF KeepsWord
      <3>3. CASE x.at = "answered"
        <4>1. /\ IsTold(x.run, x.answer) /\ x.answer.raw \in Terminal
              /\ lab[x.run].approval = x.decision
          BY <1>5, <3>3 DEF ApproverKnows
        <4>2. lab'[x.run] = lab[x.run]
          BY <1>1, <3>1, <4>1 DEF RunStep, IsTold
        <4> QED
          BY <1>2, <3>1, <3>2, <4>1, <4>2 DEF ApproverKnows
      <3>4. CASE x.at # "answered"
        BY <3>1, <3>2, <3>4 DEF ApproverKnows
      <3> QED
        BY <3>3, <3>4
    <2> QED
      BY <2>1, <2>2
  <1> QED
    BY <1>3, <1>4, <1>5

\* One dispatcher, one poller, or one approver becomes x; or none changes.
OneDispatcher ==
  UNCHANGED dispatcher \/
  \E d \in Dispatchers : \E x : dispatcher' = [dispatcher EXCEPT ![d] = x] /\ DispatcherKnows(x)'
OnePoller ==
  UNCHANGED poller \/
  \E p \in Pollers : \E x : poller' = [poller EXCEPT ![p] = x] /\ PollerKnows(x)'
OneApprover ==
  UNCHANGED approver \/
  \E a \in Approvers : \E x : approver' = [approver EXCEPT ![a] = x] /\ ApproverKnows(x)'

LEMMA PlatformInvKept ==
  ASSUME PlatformInv, LabInv', \A r \in Runs : KeepsWord(r) /\ TableInv(r)',
         OneDispatcher, OnePoller, OneApprover,
         run' \in [Runs -> ProviderRun \cup {NoRun}], intent' \in [Runs -> Intent \cup {NoRun}],
         receipts' \in [Runs -> SUBSET Nat]
  PROVE  PlatformInv'
  <1> USE DEF PlatformInv, PlatformTypes
  <1>1. /\ dispatcher' \in [Dispatchers -> DispatcherStates]
        /\ \A d \in Dispatchers : DispatcherKnows(dispatcher[d])'
    <2>1. \A d \in Dispatchers : DispatcherKnows(dispatcher[d])
      OBVIOUS
    <2>2. \A d \in Dispatchers : \A y : y = dispatcher[d] => DispatcherKnows(y)'
      BY <2>1, KnowledgeIsKept
    <2>3. CASE UNCHANGED dispatcher
      BY <2>2, <2>3 DEF DispatcherKnows
    <2>4. ASSUME NEW d \in Dispatchers, NEW x, dispatcher' = [dispatcher EXCEPT ![d] = x],
                 DispatcherKnows(x)'
          PROVE  /\ dispatcher' \in [Dispatchers -> DispatcherStates]
                 /\ \A e \in Dispatchers : DispatcherKnows(dispatcher[e])'
      <3>1. x \in DispatcherStates
        BY <2>4 DEF DispatcherKnows
      <3>2. dispatcher' \in [Dispatchers -> DispatcherStates]
        BY <2>4, <3>1
      <3>3. \A e \in Dispatchers : dispatcher'[e] = IF e = d THEN x ELSE dispatcher[e]
        BY <2>4
      <3>4. \A e \in Dispatchers : \A y : y = dispatcher'[e] => DispatcherKnows(y)'
        BY <2>2, <2>4, <3>3
      <3> QED
        BY <3>2, <3>4 DEF DispatcherKnows
    <2> QED
      BY <2>3, <2>4 DEF OneDispatcher
  <1>2. poller' \in [Pollers -> PollerStates] /\ \A p \in Pollers : PollerKnows(poller[p])'
    <2>1. \A p \in Pollers : PollerKnows(poller[p])
      OBVIOUS
    <2>2. \A p \in Pollers : \A y : y = poller[p] => PollerKnows(y)'
      BY <2>1, KnowledgeIsKept
    <2>3. CASE UNCHANGED poller
      BY <2>2, <2>3 DEF PollerKnows
    <2>4. ASSUME NEW p \in Pollers, NEW x, poller' = [poller EXCEPT ![p] = x], PollerKnows(x)'
          PROVE  /\ poller' \in [Pollers -> PollerStates]
                 /\ \A q \in Pollers : PollerKnows(poller[q])'
      <3>1. x \in PollerStates
        BY <2>4 DEF PollerKnows
      <3>2. poller' \in [Pollers -> PollerStates]
        BY <2>4, <3>1
      <3>3. \A q \in Pollers : poller'[q] = IF q = p THEN x ELSE poller[q]
        BY <2>4
      <3>4. \A q \in Pollers : \A y : y = poller'[q] => PollerKnows(y)'
        BY <2>2, <2>4, <3>3
      <3> QED
        BY <3>2, <3>4 DEF PollerKnows
    <2> QED
      BY <2>3, <2>4 DEF OnePoller
  <1>3. approver' \in [Approvers -> ApproverStates] /\ \A a \in Approvers : ApproverKnows(approver[a])'
    <2>1. \A a \in Approvers : ApproverKnows(approver[a])
      OBVIOUS
    <2>2. \A a \in Approvers : \A y : y = approver[a] => ApproverKnows(y)'
      BY <2>1, KnowledgeIsKept
    <2>3. CASE UNCHANGED approver
      BY <2>2, <2>3 DEF ApproverKnows
    <2>4. ASSUME NEW a \in Approvers, NEW x, approver' = [approver EXCEPT ![a] = x],
                 ApproverKnows(x)'
          PROVE  /\ approver' \in [Approvers -> ApproverStates]
                 /\ \A b \in Approvers : ApproverKnows(approver[b])'
      <3>1. x \in ApproverStates
        BY <2>4 DEF ApproverKnows
      <3>2. approver' \in [Approvers -> ApproverStates]
        BY <2>4, <3>1
      <3>3. \A b \in Approvers : approver'[b] = IF b = a THEN x ELSE approver[b]
        BY <2>4
      <3>4. \A b \in Approvers : \A y : y = approver'[b] => ApproverKnows(y)'
        BY <2>2, <2>4, <3>3
      <3> QED
        BY <3>2, <3>4 DEF ApproverKnows
    <2> QED
      BY <2>3, <2>4 DEF OneApprover
  <1> QED
    BY <1>1, <1>2, <1>3

-----------------------------------------------------------------------------
(* The reducers keep a run true.                                           *)

\* The next version of a run is a version.
LEMMA NextVersion ==
  ASSUME NEW p \in ProviderRun
  PROVE  p.version \in Nat /\ p.version + 1 \in Nat
  BY DEF ProviderRun

LEMMA FlaggedRun ==
  ASSUME NEW p \in ProviderRun
  PROVE  /\ Flagged(p) \in ProviderRun
         /\ Flagged(p).dispatch = p.dispatch /\ Flagged(p).bound = p.bound
         /\ Flagged(p).status = p.status /\ Flagged(p).gate = p.gate
         /\ Flagged(p).approval = p.approval /\ Flagged(p).seq = p.seq
         /\ Flagged(p).raw = p.raw /\ Flagged(p).reconcile /\ Flagged(p).version = p.version + 1
  <1>1. PICK n \in Nat : n = p.version + 1
    BY NextVersion
  <1>2. Flagged(p) = [p EXCEPT !.reconcile = TRUE, !.version = n]
    BY <1>1 DEF Flagged
  <1> QED
    BY <1>1, <1>2 DEF ProviderRun

\* A snapshot is applied to run p of r: what it changes is told by the lab, and
\* it does not take a run from its gate.
LEMMA SnapshotIsTrue ==
  ASSUME LabInv, NEW r \in Runs, NEW p \in ProviderRun, NEW i, RunIsTrue(r, p, i),
         NEW v, IsTold(r, v), NEW source \in {"dispatch", "poll", "gate_decision"},
         source = "gate_decision" => v.raw \in Terminal /\ p.approval # NoApproval
  PROVE  /\ WithSnapshot(p, v, source) \in ProviderRun
         /\ RunIsTrue(r, WithSnapshot(p, v, source), i)
         /\ AtGateOrEnd(p) => AtGateOrEnd(WithSnapshot(p, v, source))
  <1> DEFINE s == WithSnapshot(p, v, source)
             n == Normal(v.raw)
             g == GateAfter(p, v)
             m == Watermark(p, v)
             c == IF source \in {"poll", "gate_decision"} THEN FALSE ELSE p.reconcile
             k == p.version + 1
             t == [p EXCEPT !.bound = TRUE, !.status = n, !.raw = v.raw, !.gate = g,
                            !.seq = m, !.reconcile = c, !.version = k]
  <1>1. /\ v.raw \in RunStatuses \cup {"waiting_approval"} /\ v.gate \in GateStatuses
        /\ v.seq \in Nat /\ Started(r)
        /\ v.raw = "waiting_approval" <=> v.gate = "waiting_approval"
        /\ v.raw \in Terminal => v.raw = lab[r].status /\ v.gate = lab[r].gate
    BY DEF IsTold, View
  <1>2. n \in RunStatuses /\ g \in GateStatuses /\ m \in Nat /\ c \in BOOLEAN
        /\ v.raw \in RawStatuses
    BY <1>1 DEF Normal, GateAfter, Watermark, RunStatuses, GateStatuses, ProviderRun, RawStatuses
  <1>3. ASSUME NEW q \in ProviderRun,
               q.dispatch = p.dispatch, q.bound = p.bound, q.status = p.status,
               q.gate = p.gate, q.approval = p.approval
        PROVE  RunIsTrue(r, q, i) /\ (AtGateOrEnd(p) => AtGateOrEnd(q))
    BY <1>3 DEF RunIsTrue, AtGateOrEnd
  <1>4. Flagged(p) \in ProviderRun /\ RunIsTrue(r, Flagged(p), i)
        /\ (AtGateOrEnd(p) => AtGateOrEnd(Flagged(p)))
    BY <1>3, FlaggedRun
  <1>5. CASE ReleasesGate(p, v, source) \/ LeavesTheEnd(p, n)
    <2>1. s \in {p, Flagged(p)}
      BY <1>5 DEF WithSnapshot
    <2> QED
      BY <1>4, <2>1
  <1>6. CASE ~ReleasesGate(p, v, source) /\ ~LeavesTheEnd(p, n)
    <2>1. s = t
      BY <1>6 DEF WithSnapshot
    <2>0. k \in Nat
      BY NextVersion
    <2> HIDE DEF s, n, g, m, c, k
    <2>2. /\ t \in ProviderRun /\ t.dispatch = p.dispatch /\ t.status = n /\ t.gate = g
          /\ t.approval = p.approval
      BY <1>2, <2>0 DEF ProviderRun
    <2> HIDE DEF t
    <2>3. AtGateOrEnd(p) => AtGateOrEnd(t)
      <3>1. CASE p.status \in Terminal
        BY <1>6, <2>2, <3>1 DEF LeavesTheEnd, AtGateOrEnd
      <3>2. CASE p.gate = "waiting_approval" /\ v.raw = "waiting_approval"
        BY <1>1, <2>2, <3>2 DEF AtGateOrEnd, g, GateAfter
      <3>3. CASE p.gate = "waiting_approval" /\ v.raw # "waiting_approval"
        BY <1>6, <2>2, <3>3 DEF AtGateOrEnd, ReleasesGate, n, Normal, Terminal
      <3> QED
        BY <3>1, <3>2, <3>3 DEF AtGateOrEnd
    <2>4. ASSUME r \in Gated, n = "succeeded"
          PROVE  p.approval # NoApproval /\ p.approval.decision = "approve" /\ g = "approved"
      <3>1. v.raw = "succeeded" /\ lab[r].status = "succeeded" /\ v.gate = lab[r].gate
        BY <1>1, <2>4 DEF n, Normal, Terminal
      <3>2. /\ lab[r].approval # NoApproval /\ lab[r].approval.decision = "approve"
            /\ lab[r].gate = "approved"
        BY <1>1, <2>4, <3>1, LabFacts DEF RunIsSound
      <3>3. g = "approved"
        BY <3>1, <3>2 DEF g, GateAfter
      <3>4. AtGateOrEnd(p)
        BY <1>1, <3>2 DEF RunIsTrue
      <3>5. CASE source = "gate_decision"
        BY <3>2, <3>3, <3>5 DEF RunIsTrue
      <3>6. CASE source # "gate_decision"
        <4>1. p.gate # "waiting_approval"
          BY <1>6, <2>4, <3>1, <3>6 DEF ReleasesGate, n
        <4>2. p.status = "succeeded"
          BY <1>6, <2>4, <3>4, <4>1 DEF AtGateOrEnd, LeavesTheEnd
        <4> QED
          BY <2>4, <3>3, <4>2 DEF RunIsTrue
      <3> QED
        BY <3>5, <3>6
    <2>5. RunIsTrue(r, t, i)
      BY <1>1, <2>2, <2>3, <2>4 DEF RunIsTrue
    <2> QED
      BY <2>1, <2>2, <2>3, <2>5 DEF s
  <1> QED
    BY <1>5, <1>6

\* What was announced of a subscribed run, and that an announced end is the end.
LEMMA AnnouncementFacts ==
  ASSUME LabInv, NEW r \in Runs, NEW e \in 1 .. Len(outbox[r])
  PROVE  /\ Started(r) /\ r \in Subscribed /\ e \in Nat \ {0}
         /\ outbox[r][e].said \in Said
         /\ outbox[r][e].said \in Terminal => lab[r].status = outbox[r][e].said
  <1> DEFINE o == outbox[r]
  <1>1. /\ o \in Seq(Delivery) /\ Len(o) \in Nat /\ DOMAIN o = 1 .. Len(o)
        /\ RunInv(r) /\ \A k \in 1 .. Len(o) : o[k] \in Delivery
    BY RunFacts
  <1>2. o # << >> /\ Len(o) \in 1 .. Len(o)
    BY <1>1, EmptySeq
  <1>3. /\ Started(r) /\ r \in Subscribed /\ o[Len(o)].said = Public(lab[r])
        /\ e < Len(o) => Rank(o[e].said) < Rank(o[Len(o)].said)
    BY <1>1, <1>2 DEF RunInv, LifeIsTold
  <1>4. o[e].said \in Said /\ o[Len(o)].said \in Said
    BY <1>1, <1>2 DEF Delivery, Said
  <1>5. ASSUME o[e].said \in Terminal PROVE lab[r].status = o[e].said
    <2>1. Rank(o[e].said) = 3 /\ Rank(o[Len(o)].said) \in 0 .. 3
      BY <1>4, <1>5, RankOrder
    <2>2. e = Len(o)
      BY <1>1, <1>3, <2>1
    <2> QED
      BY <1>3, <1>5, <2>2, LabFacts
  <1> QED
    BY <1>3, <1>4, <1>5

LEMMA BoundRun ==
  ASSUME NEW p \in ProviderRun
  PROVE  /\ Bound(p) \in ProviderRun /\ Bound(p).bound
         /\ Bound(p).dispatch = p.dispatch /\ Bound(p).status = p.status
         /\ Bound(p).gate = p.gate /\ Bound(p).approval = p.approval
         /\ Bound(p).seq = p.seq /\ Bound(p).raw = p.raw /\ Bound(p).reconcile = p.reconcile
         /\ Bound(p) = p \/ Bound(p).version = p.version + 1
  <1>1. PICK n \in Nat : n = p.version + 1
    BY NextVersion
  <1>2. Bound(p) = IF p.bound THEN p ELSE [p EXCEPT !.bound = TRUE, !.version = n]
    BY <1>1 DEF Bound
  <1> QED
    BY <1>1, <1>2 DEF ProviderRun

\* The gate after an applied event that says s.
GateAfterEvent(p, s) ==
  CASE s = "waiting_approval" -> "waiting_approval"
    [] s = "succeeded" /\ p.gate = "waiting_approval" -> "approved"
    [] s = "failed" -> IF p.gate = "waiting_approval" THEN "rejected" ELSE "failed"
    [] s = "cancelled" -> "cancelled"
    [] OTHER -> p.gate

\* The run that an applied event makes of run p.
AppliedEvent(p, s, e) == [WithEvent(p, s) EXCEPT !.seq = e, !.reconcile = FALSE]

LEMMA EventRun ==
  ASSUME NEW p \in ProviderRun, NEW s \in Said, NEW e \in Nat, NEW q,
         q = AppliedEvent(p, s, e)
  PROVE  /\ q \in ProviderRun
         /\ q.dispatch = p.dispatch /\ q.bound = p.bound /\ q.approval = p.approval
         /\ q.status = Normal(s) /\ q.raw = s /\ q.seq = e /\ ~q.reconcile
         /\ q.version = p.version + 1
         /\ q.gate = GateAfterEvent(p, s)
  <1> DEFINE g == GateAfterEvent(p, s)
             n == Normal(s)
  <1>1. PICK k \in Nat : k = p.version + 1
    BY NextVersion
  <1>2. n \in RunStatuses /\ s \in RawStatuses /\ p.gate \in GateStatuses
    BY DEF Normal, Said, RunStatuses, RawStatuses, ProviderRun
  <1>3. g \in GateStatuses
    BY <1>2 DEF GateAfterEvent, GateStatuses
  <1>4. q = [[p EXCEPT !.status = n, !.raw = s, !.version = k, !.gate = g]
               EXCEPT !.seq = e, !.reconcile = FALSE]
    BY <1>1 DEF AppliedEvent, WithEvent, GateAfterEvent
  <1> HIDE DEF g, n
  <1>5. /\ q \in ProviderRun
        /\ q.dispatch = p.dispatch /\ q.bound = p.bound /\ q.approval = p.approval
        /\ q.status = n /\ q.raw = s /\ q.seq = e /\ ~q.reconcile
        /\ q.version = k /\ q.gate = g
    BY <1>1, <1>2, <1>3, <1>4 DEF ProviderRun
  <1> QED
    BY <1>1, <1>5 DEF g, n

\* An event is applied to run p of r: it binds the run to the lab's, and it does
\* not take the run from its gate, nor to a success that nobody has approved.
LEMMA EventIsTrue ==
  ASSUME LabInv, NEW r \in Runs, NEW p \in ProviderRun, NEW i, RunIsTrue(r, p, i),
         NEW e \in 1 .. Len(outbox[r]), NEW s, s = outbox[r][e].said
  PROVE  /\ AfterEvent(p, e, s) \in ProviderRun
         /\ RunIsTrue(r, AfterEvent(p, e, s), i)
         /\ AtGateOrEnd(p) => AtGateOrEnd(AfterEvent(p, e, s))
  <1> DEFINE b == Bound(p)
  <1>1. /\ Started(r) /\ s \in Said /\ e \in Nat
        /\ s \in Terminal => lab[r].status = s
    BY AnnouncementFacts
  <1>2. b \in ProviderRun /\ RunIsTrue(r, b, i) /\ (AtGateOrEnd(p) => AtGateOrEnd(b))
    BY <1>1, BoundRun DEF RunIsTrue, AtGateOrEnd
  <1> HIDE DEF b
  <1>3. Flagged(b) \in ProviderRun /\ RunIsTrue(r, Flagged(b), i)
        /\ (AtGateOrEnd(b) => AtGateOrEnd(Flagged(b)))
    BY <1>2, FlaggedRun DEF RunIsTrue, AtGateOrEnd
  <1>4. CASE ~EventRefused(b, s)
    <2>0. PICK q : q = AppliedEvent(b, s, e)
      OBVIOUS
    <2>1. /\ q \in ProviderRun
          /\ q.dispatch = b.dispatch /\ q.bound = b.bound /\ q.approval = b.approval
          /\ q.status = Normal(s)
          /\ q.gate = GateAfterEvent(b, s)
      BY <1>1, <1>2, <2>0, EventRun
    <2>2. /\ b.gate = "waiting_approval" => s \in {"waiting_approval", "failed", "cancelled"}
          /\ b.status \in Terminal => q.status = b.status
      BY <1>2, <1>4, <2>1 DEF EventRefused, AllowedAfter, Terminal
    <2>3. AtGateOrEnd(b) => AtGateOrEnd(q)
      BY <2>1, <2>2 DEF AtGateOrEnd, GateAfterEvent, Normal, Terminal
    <2>4. ASSUME r \in Gated, q.status = "succeeded"
          PROVE  q.approval # NoApproval /\ q.approval.decision = "approve" /\ q.gate = "approved"
      <3>1. s = "succeeded" /\ lab[r].status = "succeeded"
        BY <1>1, <2>1, <2>4 DEF Normal, Terminal
      <3>2. lab[r].approval # NoApproval
        BY <1>1, <2>4, <3>1, LabFacts DEF RunIsSound
      <3>3. b.gate # "waiting_approval" /\ b.status = "succeeded"
        BY <1>1, <1>2, <2>2, <2>4, <3>1, <3>2 DEF RunIsTrue, AtGateOrEnd
      <3> QED
        BY <1>2, <2>1, <2>4, <3>1, <3>3 DEF RunIsTrue, GateAfterEvent
    <2>5. RunIsTrue(r, q, i)
      BY <1>2, <2>1, <2>3, <2>4 DEF RunIsTrue
    <2>6. AfterEvent(p, e, s) \in {b, Flagged(b), q}
      BY <2>0 DEF AfterEvent, AppliedEvent, b
    <2> QED
      BY <1>2, <1>3, <2>1, <2>3, <2>5, <2>6
  <1>5. CASE EventRefused(b, s)
    <2>1. AfterEvent(p, e, s) \in {b, Flagged(b)}
      BY <1>5 DEF AfterEvent, b
    <2> QED
      BY <1>2, <1>3, <2>1
  <1> QED
    BY <1>4, <1>5

-----------------------------------------------------------------------------
(* Each step of the platform keeps the invariant.                          *)

\* The platform's tables are left alone while the lab moves on.
LEMMA TablesStay ==
  ASSUME PlatformInv, UNCHANGED <<run, intent>>, \A r \in Runs : RunStep(r),
         \A r \in Runs : (Started(r)' /\ lab'[r].approval # NoApproval) =>
           Known(r) /\ AtGateOrEnd(run[r])
  PROVE  \A r \in Runs : KeepsWord(r) /\ TableInv(r)'
  <1> SUFFICES ASSUME NEW r \in Runs PROVE KeepsWord(r) /\ TableInv(r)'
    OBVIOUS
  <1>1. KeepsWord(r)
    BY DEF KeepsWord, Known, AtGateOrEnd
  <1>2. TableInv(r)
    BY DEF PlatformInv
  <1>3. ASSUME Started(r), lab[r].approval # NoApproval PROVE lab'[r] = lab[r]
    BY <1>3, LabFacts DEF PlatformInv, RunStep
  <1>4. Started(r) => Started(r)'
    BY DEF RunStep
  <1>5. ASSUME Known(r) PROVE RunIsTrue(r, run[r], intent[r])'
    <2>1. RunIsTrue(r, run[r], intent[r])
      BY <1>2, <1>5 DEF TableInv
    <2>2. run[r].approval # NoApproval => Started(r)' /\ lab'[r].approval = run[r].approval
      BY <1>3, <1>4, <2>1 DEF RunIsTrue
    <2> QED
      BY <1>4, <2>1, <2>2 DEF RunIsTrue, AtGateOrEnd, DispatchOf
  <1>6. TableInv(r)'
    BY <1>2, <1>5 DEF TableInv, Known
  <1> QED
    BY <1>1, <1>6

\* The run and the intent of one run change, and the lab does not.
LEMMA OneTable ==
  ASSUME PlatformInv, UNCHANGED lab, \A q \in Runs : RunStep(q),
         NEW r \in Runs, NEW p \in ProviderRun, NEW i \in Intent,
         run' = [run EXCEPT ![r] = p], intent' = [intent EXCEPT ![r] = i],
         RunIsTrue(r, p, i), Known(r) /\ AtGateOrEnd(run[r]) => AtGateOrEnd(p)
  PROVE  /\ \A q \in Runs : KeepsWord(q) /\ TableInv(q)'
         /\ run' \in [Runs -> ProviderRun \cup {NoRun}]
         /\ intent' \in [Runs -> Intent \cup {NoRun}]
  <1>1. /\ run \in [Runs -> ProviderRun \cup {NoRun}] /\ intent \in [Runs -> Intent \cup {NoRun}]
        /\ \A q \in Runs : TableInv(q)
    BY DEF PlatformInv, PlatformTypes
  <1>2. /\ run'[r] = p /\ intent'[r] = i /\ p # NoRun /\ i # NoRun
        /\ \A q \in Runs \ {r} : run'[q] = run[q] /\ intent'[q] = intent[q]
    BY <1>1, NoRunAssumption
  <1>3. ASSUME NEW q \in Runs, NEW x, NEW y, RunIsTrue(q, x, y) PROVE RunIsTrue(q, x, y)'
    BY <1>3 DEF RunIsTrue, Started
  <1>4. KeepsWord(r) /\ TableInv(r)'
    <2>1. \A x, y : x = run'[r] /\ y = intent'[r] => RunIsTrue(r, x, y)'
      BY <1>2, <1>3
    <2>2. RunIsTrue(r, run[r], intent[r])'
      BY <2>1 DEF RunIsTrue, DispatchOf
    <2>3. AtGateOrEnd(p) => AtGateOrEnd(run[r])'
      BY <1>2 DEF AtGateOrEnd
    <2> QED
      BY <1>2, <2>2, <2>3 DEF KeepsWord, TableInv, Known
  <1>5. ASSUME NEW q \in Runs \ {r} PROVE KeepsWord(q) /\ TableInv(q)'
    <2>1. TableInv(q) /\ run'[q] = run[q] /\ intent'[q] = intent[q]
      BY <1>1, <1>2
    <2>2. AtGateOrEnd(run[q]) => AtGateOrEnd(run[q])'
      BY <2>1 DEF AtGateOrEnd
    <2>3. RunIsTrue(q, run[q], intent[q]) => RunIsTrue(q, run[q], intent[q])'
      BY <2>1 DEF RunIsTrue, Started, AtGateOrEnd, DispatchOf
    <2> QED
      BY <2>1, <2>2, <2>3 DEF KeepsWord, TableInv, Known, Started
  <1> QED
    BY <1>1, <1>2, <1>4, <1>5

LEMMA KnownRun ==
  ASSUME PlatformInv, NEW r \in Runs, Known(r)
  PROVE  /\ run[r] \in ProviderRun /\ intent[r] \in Intent
         /\ RunIsTrue(r, run[r], intent[r])
  BY DEF PlatformInv, PlatformTypes, TableInv, Known

\* What the clients of the platform and the dispatchers are busy with.
LEMMA ActorFacts ==
  ASSUME PlatformInv
  PROVE  /\ \A d \in Dispatchers : dispatcher[d] \in DispatcherStates /\ DispatcherKnows(dispatcher[d])
         /\ \A p \in Pollers : poller[p] \in PollerStates /\ PollerKnows(poller[p])
         /\ \A a \in Approvers : approver[a] \in ApproverStates /\ ApproverKnows(approver[a])
  BY DEF PlatformInv, PlatformTypes

LEMMA IdleKnows ==
  DispatcherKnows(Idle)' /\ PollerKnows(Idle)' /\ ApproverKnows(Idle)'
  BY DEF DispatcherKnows, PollerKnows, ApproverKnows, DispatcherStates, PollerStates,
         ApproverStates, Idle

\* Nobody decides, and the tables stay as they are.
LEMMA UndecidedStep ==
  ASSUME PlatformInv, \A r \in Runs : RunStep(r), UNCHANGED <<run, intent>>, SameApprovals
  PROVE  \A r \in Runs : KeepsWord(r) /\ TableInv(r)'
  <1>1. ASSUME NEW r \in Runs, Started(r)', lab'[r].approval # NoApproval
        PROVE  Known(r) /\ AtGateOrEnd(run[r])
    <2>1. Started(r) /\ lab[r].approval # NoApproval
      BY <1>1 DEF SameApprovals
    <2>2. Known(r)
      BY <2>1 DEF PlatformInv, TableInv
    <2> QED
      BY <2>1, <2>2, KnownRun DEF RunIsTrue
  <1> QED
    BY <1>1, TablesStay

\* The lab's own steps, and the steps of one actor that touch no table.
LEMMA TablesAreLeft ==
  ASSUME PlatformInv, LabInv', \A r \in Runs : RunStep(r),
         UNCHANGED <<run, intent, receipts>>, SameApprovals,
         OneDispatcher, OnePoller, OneApprover
  PROVE  PlatformInv'
  BY UndecidedStep, PlatformInvKept DEF PlatformInv, PlatformTypes

LEMMA LabMovesOn ==
  ASSUME PlatformInv, LabInv', \A r \in Runs : RunStep(r), LabStep \/ UNCHANGED lab,
         UNCHANGED <<run, intent, receipts, dispatcher, poller, approver>>
  PROVE  PlatformInv'
  <1>1. SameApprovals
    BY LabStepsDecideNothing DEF PlatformInv, SameApprovals, Started
  <1> QED
    BY <1>1, TablesAreLeft DEF OneDispatcher, OnePoller, OneApprover

LEMMA DispatcherAloneStep ==
  ASSUME PlatformInv, LabInv', \A r \in Runs : RunStep(r), NEW d \in Dispatchers,
         CallFails(d) \/ DispatcherFails(d)
  PROVE  PlatformInv'
  <1>1. /\ UNCHANGED <<lab, run, intent, receipts, poller, approver>> /\ SameApprovals
        /\ \A r \in Runs : KeepsWord(r)
    BY UndecidedStep DEF CallFails, DispatcherFails, labVars, SameApprovals, Started
  <1>2. OneDispatcher
    <2>1. CASE DispatcherFails(d)
      BY <2>1, IdleKnows DEF DispatcherFails, OneDispatcher
    <2>2. ASSUME NEW kind \in {"uncertain", "rejected"}, dispatcher[d].at = "claimed",
                 Answered(d, Failure(kind))
          PROVE  OneDispatcher
      <3> DEFINE x == [at |-> "answered", run |-> dispatcher[d].run,
                       token |-> dispatcher[d].token, answer |-> Failure(kind)]
      <3>1. /\ dispatcher[d].run \in Runs /\ dispatcher[d].token \in Nat
            /\ Known(dispatcher[d].run)
        BY <2>2, ActorFacts, StateShapes DEF DispatcherKnows
      <3>2. x \in DispatcherStates /\ x.answer \notin View /\ x.run = dispatcher[d].run
        BY <2>2, <3>1 DEF DispatcherStates, Failure, View
      <3>3. dispatcher' = [dispatcher EXCEPT ![d] = x]
        BY <2>2 DEF Answered
      <3> HIDE DEF x
      <3>4. PICK y : y = x
        OBVIOUS
      <3>5. DispatcherKnows(y)'
        BY <1>1, <3>1, <3>2, <3>4 DEF DispatcherKnows, KeepsWord
      <3> QED
        BY <3>3, <3>4, <3>5 DEF OneDispatcher
    <2> QED
      BY <2>1, <2>2 DEF CallFails
  <1> QED
    BY <1>1, <1>2, TablesAreLeft DEF OnePoller, OneApprover

LEMMA PollerAloneStep ==
  ASSUME PlatformInv, LabInv', \A r \in Runs : RunStep(r), NEW p \in Pollers,
         RefreshFails(p) \/ \E r \in Runs, cancel \in BOOLEAN : RefreshBegins(p, r, cancel)
  PROVE  PlatformInv'
  <1>1. /\ UNCHANGED <<lab, run, intent, receipts, dispatcher, approver>> /\ SameApprovals
        /\ \A r \in Runs : KeepsWord(r)
    BY UndecidedStep DEF RefreshFails, RefreshBegins, labVars, SameApprovals, Started
  <1>2. OnePoller
    <2>1. CASE RefreshFails(p)
      BY <2>1, IdleKnows DEF RefreshFails, OnePoller
    <2>2. ASSUME NEW r \in Runs, NEW cancel \in BOOLEAN, RefreshBegins(p, r, cancel)
          PROVE  OnePoller
      <3>1. Known(r) /\ Known(r)' /\ run[r].version \in Nat
        BY <1>1, <2>2, KnownRun, NextVersion DEF RefreshBegins, KeepsWord, Known
      <3>2. PICK x : /\ poller' = [poller EXCEPT ![p] = x]
                     /\ \/ x = [at |-> "read", run |-> r, cancel |-> cancel, version |-> run[r].version]
                        \/ x = [at |-> "cancelling", run |-> r, version |-> run[r].version]
        BY <2>2 DEF RefreshBegins
      <3>3. x \in PollerStates /\ x.run = r /\ x.at \in {"read", "cancelling"}
        BY <3>1, <3>2 DEF PollerStates
      <3>4. PollerKnows(x)'
        BY <3>1, <3>3 DEF PollerKnows
      <3> QED
        BY <3>2, <3>4 DEF OnePoller
    <2> QED
      BY <2>1, <2>2
  <1> QED
    BY <1>1, <1>2, TablesAreLeft DEF OneDispatcher, OneApprover

LEMMA ApproverAloneStep ==
  ASSUME PlatformInv, LabInv', \A r \in Runs : RunStep(r), NEW a \in Approvers,
         \/ DecisionFails(a)
         \/ \E r \in Runs, decision \in Approval : DecisionBegins(a, r, decision)
  PROVE  PlatformInv'
  <1>1. /\ UNCHANGED <<lab, run, intent, receipts, dispatcher, poller>> /\ SameApprovals
        /\ \A r \in Runs : KeepsWord(r)
    BY UndecidedStep DEF DecisionFails, DecisionBegins, labVars, SameApprovals, Started
  <1>2. OneApprover
    <2>1. CASE DecisionFails(a)
      BY <2>1, IdleKnows DEF DecisionFails, OneApprover
    <2>2. ASSUME NEW r \in Runs, NEW decision \in Approval, DecisionBegins(a, r, decision)
          PROVE  OneApprover
      <3>1. CanBeDecided(r)
        BY <2>2 DEF DecisionBegins
      <3>2. Known(r) /\ AtGateOrEnd(run[r]) /\ run[r].version \in Nat
        BY <3>1, KnownRun, NextVersion DEF CanBeDecided, Known, AtGateOrEnd
      <3>3. PICK x : /\ approver' = [approver EXCEPT ![a] = x]
                     /\ x = [at |-> "read", run |-> r, decision |-> decision, version |-> run[r].version]
        BY <2>2 DEF DecisionBegins
      <3>4. x \in ApproverStates /\ x.run = r /\ x.at = "read"
        BY <3>2, <3>3 DEF ApproverStates
      <3>5. Known(r)' /\ AtGateOrEnd(run[r])'
        BY <1>1, <3>2 DEF KeepsWord
      <3>6. ApproverKnows(x)'
        BY <3>4, <3>5 DEF ApproverKnows
      <3> QED
        BY <3>3, <3>6 DEF OneApprover
    <2> QED
      BY <2>1, <2>2
  <1> QED
    BY <1>1, <1>2, TablesAreLeft DEF OneDispatcher, OnePoller

\* A dispatcher calls the lab; it comes to know the lab's answer, or nothing.
LEMMA TriggerCallStep ==
  ASSUME PlatformInv, LabInv', \A r \in Runs : RunStep(r), NEW d \in Dispatchers, CallTrigger(d)
  PROVE  PlatformInv'
  <1>1. PICK r \in Runs : /\ r = dispatcher[d].run
                          /\ LabTrigger(r)
                          /\ Answered(d, LabView(r)') \/ Answered(d, Failure("uncertain"))
    BY DEF CallTrigger
  <1>2. SameApprovals /\ Started(r)'
    BY <1>1, UndecidedRequests DEF PlatformInv
  <1>3. UNCHANGED <<run, intent, receipts, poller, approver>> /\ dispatcher[d].at = "claimed"
    BY DEF CallTrigger
  <1>4. Known(r)' /\ dispatcher[d].token \in Nat
    BY <1>1, <1>2, <1>3, UndecidedStep, ActorFacts, StateShapes DEF DispatcherKnows, KeepsWord
  <1>5. PICK v : v = LabView(r)'
    OBVIOUS
  <1>6. IsTold(r, v)' /\ v \in View
    BY <1>2, <1>5, AnswersAreTrue DEF IsTold
  <1>7. PICK w \in {v, Failure("uncertain")} : Answered(d, w)
    BY <1>1, <1>5
  <1>8. Failure("uncertain") \notin View
    BY DEF Failure, View
  <1>9. PICK x : /\ dispatcher' = [dispatcher EXCEPT ![d] = x]
                 /\ x = [at |-> "answered", run |-> r, token |-> dispatcher[d].token, answer |-> w]
    BY <1>1, <1>7 DEF Answered
  <1>10. x \in DispatcherStates /\ x.run = r /\ x.answer = w
    BY <1>4, <1>6, <1>7, <1>9 DEF DispatcherStates
  <1>11. DispatcherKnows(x)'
    BY <1>4, <1>6, <1>7, <1>8, <1>10 DEF DispatcherKnows
  <1> QED
    BY <1>2, <1>3, <1>9, <1>11, TablesAreLeft DEF OneDispatcher, OnePoller, OneApprover

\* A client's request reaches the lab.
LEMMA RefreshCallStep ==
  ASSUME PlatformInv, LabInv', \A r \in Runs : RunStep(r), NEW p \in Pollers, RefreshCalls(p)
  PROVE  PlatformInv'
  <1>1. PICK r \in Runs :
          /\ r = poller[p].run
          /\ LabCancel(r) \/ LabGet(r)
          /\ \/ poller' = [poller EXCEPT ![p] =
                  [at |-> "answered", run |-> r, version |-> @.version, answer |-> LabView(r)']]
             \/ poller' = [poller EXCEPT ![p] = Idle]
    BY DEF RefreshCalls
  <1>2. SameApprovals /\ Started(r)'
    BY <1>1, UndecidedRequests DEF PlatformInv
  <1>3. UNCHANGED <<run, intent, receipts, dispatcher, approver>> /\ poller[p].at = "read"
    BY DEF RefreshCalls
  <1>4. Known(r)' /\ poller[p].version \in Nat
    BY <1>1, <1>2, <1>3, UndecidedStep, ActorFacts, StateShapes DEF PollerKnows, KeepsWord
  <1>5. PICK v : v = LabView(r)'
    OBVIOUS
  <1>6. IsTold(r, v)' /\ v \in View
    BY <1>2, <1>5, AnswersAreTrue DEF IsTold
  <1>7. PICK x : x = [at |-> "answered", run |-> r, version |-> poller[p].version, answer |-> v]
    OBVIOUS
  <1>8. poller' = [poller EXCEPT ![p] = x] \/ poller' = [poller EXCEPT ![p] = Idle]
    BY <1>1, <1>5, <1>7
  <1>9. x \in PollerStates /\ x.run = r /\ x.answer = v
    BY <1>4, <1>6, <1>7 DEF PollerStates
  <1>10. PollerKnows(x)'
    BY <1>4, <1>6, <1>9 DEF PollerKnows
  <1>11. OnePoller
    BY <1>8, <1>10, IdleKnows DEF OnePoller
  <1> QED
    BY <1>2, <1>3, <1>11, TablesAreLeft DEF OneDispatcher, OneApprover

\* A person's decision reaches the lab: the run is still at its gate or over, so
\* that no later answer or event can release the gate without it.
LEMMA DecisionCallStep ==
  ASSUME PlatformInv, LabInv', \A r \in Runs : RunStep(r), NEW a \in Approvers, DecisionCalls(a)
  PROVE  PlatformInv'
  <1>1. PICK r \in Runs :
          /\ r = approver[a].run
          /\ LabDecide(r, approver[a].decision)
          /\ \/ approver' = [approver EXCEPT ![a] =
                  [at |-> "answered", run |-> r, decision |-> @.decision, version |-> @.version,
                   answer |-> LabView(r)']]
             \/ approver' = [approver EXCEPT ![a] = Idle]
    BY DEF DecisionCalls
  <1>2. UNCHANGED <<run, intent, receipts, dispatcher, poller>> /\ approver[a].at = "read"
    BY DEF DecisionCalls
  <1>3. /\ Known(r) /\ AtGateOrEnd(run[r])
        /\ approver[a].decision \in Approval /\ approver[a].version \in Nat
    BY <1>1, <1>2, ActorFacts, StateShapes DEF ApproverKnows
  <1>4. /\ Started(r)' /\ lab'[r].approval = approver[a].decision
        /\ \A q \in Runs \ {r} : lab'[q] = lab[q]
    BY <1>1, <1>3, DecidedAsAsked DEF PlatformInv
  <1>5. ASSUME NEW q \in Runs, Started(q)', lab'[q].approval # NoApproval
        PROVE  Known(q) /\ AtGateOrEnd(run[q])
    <2>1. CASE q = r
      BY <1>3, <2>1
    <2>2. CASE q # r
      <3>1. Started(q) /\ lab[q].approval # NoApproval
        BY <1>4, <1>5, <2>2 DEF Started
      <3>2. Known(q)
        BY <3>1 DEF PlatformInv, TableInv
      <3> QED
        BY <3>1, <3>2, KnownRun DEF RunIsTrue
    <2> QED
      BY <2>1, <2>2
  <1>6. \A q \in Runs : KeepsWord(q) /\ TableInv(q)'
    BY <1>2, <1>5, TablesStay
  <1>7. PICK v : v = LabView(r)'
    OBVIOUS
  <1>8. IsTold(r, v)' /\ v \in View
    BY <1>4, <1>7, AnswersAreTrue DEF IsTold
  <1>9. v.raw \in Terminal
    <2>1. /\ lab'[r].approval # NoApproval /\ lab'[r].status \in Terminal
          /\ lab'[r].gate = "waiting_approval" => lab'[r].status = "running"
      BY <1>3, <1>4, AbsenceAssumption DEF LabInv, RunInv, RunIsSound, Terminal
    <2> QED
      BY <1>7, <2>1 DEF LabView, Public, Terminal
  <1>10. PICK x : x = [at |-> "answered", run |-> r, decision |-> approver[a].decision,
                       version |-> approver[a].version, answer |-> v]
    OBVIOUS
  <1>11. approver' = [approver EXCEPT ![a] = x] \/ approver' = [approver EXCEPT ![a] = Idle]
    BY <1>1, <1>7, <1>10
  <1>12. x \in ApproverStates /\ x.run = r /\ x.answer = v /\ x.decision = lab'[r].approval
    BY <1>3, <1>4, <1>8, <1>10 DEF ApproverStates
  <1>13. Known(r)' /\ AtGateOrEnd(run[r])'
    BY <1>3, <1>6 DEF KeepsWord
  <1>14. ApproverKnows(x)'
    BY <1>8, <1>9, <1>12, <1>13 DEF ApproverKnows
  <1>15. OneApprover
    BY <1>11, <1>14, IdleKnows DEF OneApprover
  <1> QED
    BY <1>2, <1>6, <1>15, PlatformInvKept DEF OneDispatcher, OnePoller, PlatformInv, PlatformTypes

\* One run and its intent are written; everybody keeps what they know.
LEMMA TableIsWritten ==
  ASSUME PlatformInv, LabInv', \A q \in Runs : RunStep(q), UNCHANGED lab,
         NEW r \in Runs, NEW p \in ProviderRun, NEW i \in Intent,
         run' = [run EXCEPT ![r] = p], intent' = [intent EXCEPT ![r] = i],
         RunIsTrue(r, p, i), Known(r) /\ AtGateOrEnd(run[r]) => AtGateOrEnd(p),
         receipts' \in [Runs -> SUBSET Nat], OneDispatcher, OnePoller, OneApprover
  PROVE  PlatformInv'
  BY OneTable, PlatformInvKept

LEMMA TriggerStep ==
  ASSUME PlatformInv, LabInv', \A q \in Runs : RunStep(q), NEW r \in Runs, TriggerRun(r)
  PROVE  PlatformInv'
  <1>1. PICK p : /\ run' = [run EXCEPT ![r] = p]
                 /\ p = [status |-> "queued", raw |-> "trigger_pending",
                         gate |-> IF r \in Gated THEN "evaluating" ELSE "none",
                         dispatch |-> "pending", bound |-> FALSE, seq |-> 0,
                         reconcile |-> FALSE, version |-> 0, approval |-> NoApproval]
    BY DEF TriggerRun
  <1>2. PICK i : /\ intent' = [intent EXCEPT ![r] = i]
                 /\ i = [status |-> "pending", attempts |-> 0, live |-> FALSE]
    BY DEF TriggerRun
  <1>3. p \in ProviderRun
    BY <1>1 DEF ProviderRun, RunStatuses, RawStatuses, GateStatuses, DispatchStatuses
  <1>4. i \in Intent
    BY <1>2, ProviderAssumption DEF Intent, IntentStatuses
  <1>5. ~Known(r) /\ ~(Started(r) /\ lab[r].approval # NoApproval)
    BY DEF TriggerRun, Known, PlatformInv, TableInv
  <1>6. RunIsTrue(r, p, i)
    BY <1>1, <1>2, <1>5 DEF RunIsTrue, DispatchOf
  <1>7. UNCHANGED <<lab, receipts, dispatcher, poller, approver>>
    BY DEF TriggerRun, labVars, clientVars
  <1> QED
    BY <1>1, <1>2, <1>3, <1>4, <1>5, <1>6, <1>7, TableIsWritten
    DEF OneDispatcher, OnePoller, OneApprover, PlatformInv, PlatformTypes

LEMMA LeaseStep ==
  ASSUME PlatformInv, LabInv', \A q \in Runs : RunStep(q), NEW r \in Runs, IntentLeaseRunsOut(r)
  PROVE  PlatformInv'
  <1>1. Known(r)
    BY DEF IntentLeaseRunsOut, Known
  <1>2. run[r] \in ProviderRun /\ intent[r] \in Intent /\ RunIsTrue(r, run[r], intent[r])
    BY <1>1, KnownRun
  <1>3. PICK i : i = [intent[r] EXCEPT !.live = FALSE]
    OBVIOUS
  <1>4. i \in Intent /\ i.status = intent[r].status
    BY <1>2, <1>3 DEF Intent
  <1>5. RunIsTrue(r, run[r], i)
    BY <1>2, <1>4 DEF RunIsTrue, DispatchOf
  <1>6. run' = [run EXCEPT ![r] = run[r]] /\ intent' = [intent EXCEPT ![r] = i]
    BY <1>3 DEF IntentLeaseRunsOut, PlatformInv, PlatformTypes
  <1>7. UNCHANGED <<lab, receipts, dispatcher, poller, approver>>
    BY DEF IntentLeaseRunsOut, labVars, clientVars
  <1> QED
    BY <1>2, <1>4, <1>5, <1>6, <1>7, TableIsWritten
    DEF OneDispatcher, OnePoller, OneApprover, PlatformInv, PlatformTypes

LEMMA ClaimTriggerStep ==
  ASSUME PlatformInv, LabInv', \A q \in Runs : RunStep(q),
         NEW d \in Dispatchers, NEW r \in Runs, ClaimTrigger(d, r)
  PROVE  PlatformInv'
  <1>1. Known(r) /\ IntentClaimable(r)
    BY DEF ClaimTrigger, Known
  <1>2. run[r] \in ProviderRun /\ intent[r] \in Intent /\ RunIsTrue(r, run[r], intent[r])
    BY <1>1, KnownRun
  <1>3. intent[r].attempts \in Nat /\ intent[r].attempts + 1 \in 0 .. MaxAttempts
    BY <1>1, <1>2, ProviderAssumption DEF IntentClaimable, Intent
  <1>4. PICK k \in 0 .. MaxAttempts : k = intent[r].attempts + 1
    BY <1>3
  <1>5. PICK n \in Nat : n = run[r].version + 1
    BY <1>2, NextVersion
  <1>6. PICK i : i = [status |-> "claimed", attempts |-> k, live |-> TRUE]
    OBVIOUS
  <1>7. PICK p : p = [run[r] EXCEPT !.dispatch = "dispatching", !.version = n]
    OBVIOUS
  <1>8. run' = [run EXCEPT ![r] = p] /\ intent' = [intent EXCEPT ![r] = i]
    <2>1. run \in [Runs -> ProviderRun \cup {NoRun}]
      BY DEF PlatformInv, PlatformTypes
    <2> QED
      BY <1>2, <1>4, <1>5, <1>6, <1>7, <2>1 DEF ClaimTrigger
  <1>9. i \in Intent /\ i.status = "claimed"
    BY <1>6 DEF Intent, IntentStatuses
  <1>10. /\ p \in ProviderRun /\ p.dispatch = "dispatching" /\ p.bound = run[r].bound
         /\ p.status = run[r].status /\ p.gate = run[r].gate /\ p.approval = run[r].approval
    BY <1>2, <1>7 DEF ProviderRun, DispatchStatuses
  <1>11. RunIsTrue(r, p, i) /\ (AtGateOrEnd(run[r]) => AtGateOrEnd(p))
    BY <1>2, <1>9, <1>10 DEF RunIsTrue, DispatchOf, AtGateOrEnd
  <1>12. PICK x : /\ dispatcher' = [dispatcher EXCEPT ![d] = x]
                  /\ x = [at |-> "claimed", run |-> r, token |-> k]
    BY <1>4 DEF ClaimTrigger
  <1>13. x \in DispatcherStates /\ x.at = "claimed" /\ x.run = r
    BY <1>12 DEF DispatcherStates
  <1>14. UNCHANGED <<lab, receipts, poller, approver>>
    BY DEF ClaimTrigger, labVars
  <1>15. Known(r)'
    <2>1. run \in [Runs -> ProviderRun \cup {NoRun}]
      BY DEF PlatformInv, PlatformTypes
    <2>2. run'[r] = p
      BY <1>8, <2>1
    <2>3. p # NoRun
      BY <1>10, NoRunAssumption
    <2> QED
      BY <2>2, <2>3 DEF Known
  <1>16. OneDispatcher
    BY <1>12, <1>13, <1>15 DEF DispatcherKnows, OneDispatcher
  <1> QED
    BY <1>8, <1>9, <1>10, <1>11, <1>14, <1>16, TableIsWritten
    DEF OnePoller, OneApprover, PlatformInv, PlatformTypes

\* The dispatcher uses an answer, or what it knows of a failure, and rests.
LEMMA DispatcherRests ==
  ASSUME NEW d \in Dispatchers, dispatcher' = [dispatcher EXCEPT ![d] = Idle]
  PROVE  OneDispatcher
  BY IdleKnows DEF OneDispatcher

LEMMA FinalizeStep ==
  ASSUME PlatformInv, LabInv', \A q \in Runs : RunStep(q), NEW d \in Dispatchers, FinalizeTrigger(d)
  PROVE  PlatformInv'
  <1>1. PICK r : r = dispatcher[d].run
    OBVIOUS
  <1>2. PICK v : v = dispatcher[d].answer
    OBVIOUS
  <1>3. /\ UNCHANGED <<lab, receipts, poller, approver>> /\ OneDispatcher
        /\ dispatcher[d].at = "answered" /\ v \in View
    BY <1>2, DispatcherRests DEF FinalizeTrigger, labVars
  <1>4. r \in Runs /\ Known(r) /\ IsTold(r, v)
    BY <1>1, <1>2, <1>3, ActorFacts, StateShapes DEF DispatcherKnows
  <1>5. run[r] \in ProviderRun /\ intent[r] \in Intent /\ RunIsTrue(r, run[r], intent[r])
    BY <1>4, KnownRun
  <1>6. CASE HoldsIntent(d)
    <2>1. PICK i : i = Ended(intent[r], "succeeded")
      OBVIOUS
    <2>2. i \in Intent /\ i.status = "succeeded"
      BY <1>5, <2>1 DEF Ended, Intent, IntentStatuses
    <2>3. PICK p : p = [run[r] EXCEPT !.dispatch = "dispatched"]
      OBVIOUS
    <2>4. /\ p \in ProviderRun /\ p.dispatch = "dispatched" /\ p.bound = run[r].bound
          /\ p.status = run[r].status /\ p.gate = run[r].gate /\ p.approval = run[r].approval
      BY <1>5, <2>3 DEF ProviderRun, DispatchStatuses
    <2>5. Started(r)
      BY <1>4 DEF IsTold
    <2>6. RunIsTrue(r, p, i) /\ (AtGateOrEnd(run[r]) => AtGateOrEnd(p))
      BY <1>5, <2>2, <2>4, <2>5 DEF RunIsTrue, DispatchOf, AtGateOrEnd
    <2>7. PICK n \in Nat : n = p.version + 1
      BY <2>4, NextVersion
    <2>8. PICK a : a = [p EXCEPT !.version = n]
      OBVIOUS
    <2>9. /\ a \in ProviderRun /\ a.dispatch = p.dispatch /\ a.bound = p.bound
          /\ a.status = p.status /\ a.gate = p.gate /\ a.approval = p.approval
      BY <2>4, <2>7, <2>8 DEF ProviderRun
    <2>10. RunIsTrue(r, a, i) /\ (AtGateOrEnd(p) => AtGateOrEnd(a))
      BY <2>6, <2>9 DEF RunIsTrue, AtGateOrEnd
    <2>11. PICK b : b = [p EXCEPT !.reconcile = FALSE]
      OBVIOUS
    <2>12. /\ b \in ProviderRun /\ b.dispatch = p.dispatch /\ b.bound = p.bound
           /\ b.status = p.status /\ b.gate = p.gate /\ b.approval = p.approval
      BY <2>4, <2>11 DEF ProviderRun
    <2>13. RunIsTrue(r, b, i) /\ (AtGateOrEnd(p) => AtGateOrEnd(b))
      BY <2>6, <2>12 DEF RunIsTrue, AtGateOrEnd
    <2>14. PICK c : c = WithSnapshot(b, v, "dispatch")
      OBVIOUS
    <2>15. c \in ProviderRun /\ RunIsTrue(r, c, i) /\ (AtGateOrEnd(b) => AtGateOrEnd(c))
      BY <1>4, <2>12, <2>13, <2>14, SnapshotIsTrue DEF PlatformInv
    <2>16. PICK y \in {a, c} : run' = [run EXCEPT ![r] = y] /\ intent' = [intent EXCEPT ![r] = i]
      BY <1>1, <1>2, <1>6, <2>1, <2>3, <2>7, <2>8, <2>11, <2>14 DEF FinalizeTrigger
    <2>17. y \in ProviderRun /\ RunIsTrue(r, y, i) /\ (AtGateOrEnd(run[r]) => AtGateOrEnd(y))
      BY <2>6, <2>9, <2>10, <2>13, <2>15
    <2> QED
      BY <1>3, <1>4, <2>2, <2>16, <2>17, TableIsWritten
      DEF OnePoller, OneApprover, PlatformInv, PlatformTypes
  <1>7. CASE ~HoldsIntent(d)
    <2>1. UNCHANGED <<run, intent>>
      BY <1>7 DEF FinalizeTrigger
    <2> QED
      BY <1>3, <2>1, TablesAreLeft DEF OnePoller, OneApprover, SameApprovals, Started
  <1> QED
    BY <1>6, <1>7

\* What is known of a call that failed is recorded: the run may fail, but it is
\* not taken from its gate in any other way.
LEMMA SettleFailureStep ==
  ASSUME PlatformInv, LabInv', \A q \in Runs : RunStep(q),
         NEW d \in Dispatchers, SettleTriggerFailure(d)
  PROVE  PlatformInv'
  <1>1. PICK r : r = dispatcher[d].run
    OBVIOUS
  <1>2. /\ UNCHANGED <<lab, receipts, poller, approver>> /\ OneDispatcher
        /\ dispatcher[d].at = "answered"
    BY DispatcherRests DEF SettleTriggerFailure, labVars
  <1>3. r \in Runs /\ Known(r)
    BY <1>1, <1>2, ActorFacts, StateShapes DEF DispatcherKnows
  <1>4. run[r] \in ProviderRun /\ intent[r] \in Intent /\ RunIsTrue(r, run[r], intent[r])
    BY <1>3, KnownRun
  <1>5. PICK n \in Nat : n = run[r].version + 1
    BY <1>4, NextVersion
  <1>6. CASE HoldsIntent(d) /\ KnownFromEvents(run[r])
    <2>1. PICK i : i = Ended(intent[r], "succeeded")
      OBVIOUS
    <2>2. i \in Intent /\ i.status = "succeeded"
      BY <1>4, <2>1 DEF Ended, Intent, IntentStatuses
    <2>3. PICK p : p = [run[r] EXCEPT !.dispatch = "dispatched", !.version = n]
      OBVIOUS
    <2>4. /\ p \in ProviderRun /\ p.dispatch = "dispatched" /\ p.bound = run[r].bound
          /\ p.status = run[r].status /\ p.gate = run[r].gate /\ p.approval = run[r].approval
      BY <1>4, <2>3 DEF ProviderRun, DispatchStatuses
    <2>5. Started(r)
      BY <1>4, <1>6 DEF KnownFromEvents, RunIsTrue
    <2>6. RunIsTrue(r, p, i) /\ (AtGateOrEnd(run[r]) => AtGateOrEnd(p))
      BY <1>4, <2>2, <2>4, <2>5 DEF RunIsTrue, DispatchOf, AtGateOrEnd
    <2>7. run' = [run EXCEPT ![r] = p] /\ intent' = [intent EXCEPT ![r] = i]
      BY <1>1, <1>5, <1>6, <2>1, <2>3 DEF SettleTriggerFailure
    <2> QED
      BY <1>2, <1>3, <2>2, <2>4, <2>6, <2>7, TableIsWritten
      DEF OnePoller, OneApprover, PlatformInv, PlatformTypes
  <1>7. CASE HoldsIntent(d) /\ ~KnownFromEvents(run[r])
    <2> DEFINE retryable == dispatcher[d].answer = Failure("uncertain")
    <2>1. PICK o \in {"failed", "retry_wait", "unknown"} :
            o = IF ~retryable THEN "failed"
                ELSE IF intent[r].attempts < MaxAttempts THEN "retry_wait" ELSE "unknown"
      OBVIOUS
    <2>2. PICK c \in BOOLEAN : c = retryable
      OBVIOUS
    <2>3. PICK i : i = Ended(intent[r], o)
      OBVIOUS
    <2>4. i \in Intent /\ i.status = o
      BY <1>4, <2>3 DEF Ended, Intent, IntentStatuses
    <2>5. PICK s : s = IF c THEN run[r].status ELSE "failed"
      OBVIOUS
    <2>6. PICK g : g = IF c \/ run[r].gate = "none" THEN run[r].gate ELSE "failed"
      OBVIOUS
    <2>7. PICK w : w = IF c THEN "trigger_result_unknown" ELSE "trigger_failed"
      OBVIOUS
    <2>8. s \in RunStatuses /\ g \in GateStatuses /\ w \in RawStatuses /\ o \in DispatchStatuses
      BY <1>4, <2>5, <2>6, <2>7
      DEF ProviderRun, RunStatuses, Terminal, GateStatuses, RawStatuses, DispatchStatuses
    <2>9. PICK p : p = [run[r] EXCEPT !.dispatch = o, !.reconcile = c, !.status = s, !.gate = g,
                                      !.raw = w, !.version = n]
      OBVIOUS
    <2>10. /\ p \in ProviderRun /\ p.dispatch = o /\ p.bound = run[r].bound
           /\ p.status = s /\ p.gate = g /\ p.approval = run[r].approval
      BY <1>4, <2>8, <2>9 DEF ProviderRun
    <2>11. RunIsTrue(r, p, i) /\ (AtGateOrEnd(run[r]) => AtGateOrEnd(p))
      BY <1>4, <2>4, <2>5, <2>6, <2>10 DEF RunIsTrue, DispatchOf, AtGateOrEnd, Terminal
    <2>12. run' = [run EXCEPT ![r] = p] /\ intent' = [intent EXCEPT ![r] = i]
      <3>1. /\ intent' = [intent EXCEPT ![r] = Ended(intent[r], o)]
            /\ run' = [run EXCEPT ![r] =
                 [run[r] EXCEPT !.dispatch = o, !.reconcile = retryable,
                                !.status = IF retryable THEN run[r].status ELSE "failed",
                                !.gate = IF retryable \/ run[r].gate = "none"
                                         THEN run[r].gate ELSE "failed",
                                !.raw = IF retryable THEN "trigger_result_unknown"
                                        ELSE "trigger_failed",
                                !.version = run[r].version + 1]]
        BY <1>1, <1>7, <2>1 DEF SettleTriggerFailure
      <3> HIDE DEF retryable
      <3> QED
        BY <1>5, <2>2, <2>3, <2>5, <2>6, <2>7, <2>9, <3>1
    <2> QED
      BY <1>2, <1>3, <2>4, <2>10, <2>11, <2>12, TableIsWritten
      DEF OnePoller, OneApprover, PlatformInv, PlatformTypes
  <1>8. CASE ~HoldsIntent(d)
    <2>1. UNCHANGED <<run, intent>>
      BY <1>8 DEF SettleTriggerFailure
    <2> QED
      BY <1>2, <2>1, TablesAreLeft DEF OnePoller, OneApprover, SameApprovals, Started
  <1> QED
    BY <1>6, <1>7, <1>8

LEMMA CancelStep ==
  ASSUME PlatformInv, LabInv', \A q \in Runs : RunStep(q), NEW p \in Pollers, CancelCommits(p)
  PROVE  PlatformInv'
  <1>1. PICK r : r = poller[p].run
    OBVIOUS
  <1>2. /\ UNCHANGED <<lab, receipts, dispatcher, approver>> /\ poller[p].at = "cancelling"
        /\ poller' = [poller EXCEPT ![p] = Idle]
    BY DEF CancelCommits, labVars
  <1>3. r \in Runs /\ Known(r) /\ poller[p].version \in Nat
    BY <1>1, <1>2, ActorFacts, StateShapes DEF PollerKnows
  <1>4. run[r] \in ProviderRun /\ intent[r] \in Intent /\ RunIsTrue(r, run[r], intent[r])
    BY <1>3, KnownRun
  <1>5. PICK n \in Nat : n = poller[p].version + 1
    BY <1>3
  <1>6. PICK i : i = [intent[r] EXCEPT !.status = "cancelled"]
    OBVIOUS
  <1>7. PICK c : c = [run[r] EXCEPT !.status = "cancelled", !.raw = "cancelled_before_dispatch",
                                    !.gate = "cancelled", !.dispatch = "cancelled", !.version = n]
    OBVIOUS
  <1>8. run' = [run EXCEPT ![r] = c] /\ intent' = [intent EXCEPT ![r] = i]
    BY <1>1, <1>5, <1>6, <1>7 DEF CancelCommits, CancelHere, CancelledHere
  <1>9. i \in Intent /\ i.status = "cancelled"
    BY <1>4, <1>6 DEF Intent, IntentStatuses
  <1>10. /\ c \in ProviderRun /\ c.dispatch = "cancelled" /\ c.bound = run[r].bound
         /\ c.status = "cancelled" /\ c.approval = run[r].approval
    BY <1>4, <1>7
    DEF ProviderRun, RunStatuses, RawStatuses, Terminal, GateStatuses, DispatchStatuses
  <1>11. RunIsTrue(r, c, i) /\ AtGateOrEnd(c)
    BY <1>4, <1>9, <1>10 DEF RunIsTrue, DispatchOf, AtGateOrEnd, Terminal
  <1>12. OnePoller
    BY <1>2, IdleKnows DEF OnePoller
  <1> QED
    BY <1>2, <1>3, <1>8, <1>9, <1>10, <1>11, <1>12, TableIsWritten
    DEF OneDispatcher, OneApprover, PlatformInv, PlatformTypes

LEMMA RefreshEndStep ==
  ASSUME PlatformInv, LabInv', \A q \in Runs : RunStep(q), NEW p \in Pollers, RefreshEnds(p)
  PROVE  PlatformInv'
  <1>1. PICK r : r = poller[p].run
    OBVIOUS
  <1>2. PICK v : v = poller[p].answer
    OBVIOUS
  <1>3. /\ UNCHANGED <<lab, intent, receipts, dispatcher, approver>> /\ poller[p].at = "answered"
        /\ poller' = [poller EXCEPT ![p] = Idle]
    BY DEF RefreshEnds, labVars
  <1>4. r \in Runs /\ Known(r) /\ IsTold(r, v)
    BY <1>1, <1>2, <1>3, ActorFacts, StateShapes DEF PollerKnows
  <1>5. run[r] \in ProviderRun /\ intent[r] \in Intent /\ RunIsTrue(r, run[r], intent[r])
    BY <1>4, KnownRun
  <1>6. PICK c : c = WithSnapshot(run[r], v, "poll")
    OBVIOUS
  <1>7. /\ c \in ProviderRun /\ RunIsTrue(r, c, intent[r])
        /\ AtGateOrEnd(run[r]) => AtGateOrEnd(c)
    BY <1>4, <1>5, <1>6, SnapshotIsTrue DEF PlatformInv
  <1>8. run' = [run EXCEPT ![r] = c] \/ UNCHANGED run
    BY <1>1, <1>2, <1>6 DEF RefreshEnds
  <1>9. OnePoller
    BY <1>3, IdleKnows DEF OnePoller
  <1>10. CASE UNCHANGED run
    BY <1>3, <1>9, <1>10, TablesAreLeft DEF OneDispatcher, OneApprover, SameApprovals, Started
  <1>11. CASE run' = [run EXCEPT ![r] = c]
    <2>1. intent' = [intent EXCEPT ![r] = intent[r]]
      BY <1>3, <1>4 DEF PlatformInv, PlatformTypes
    <2> QED
      BY <1>3, <1>4, <1>5, <1>7, <1>9, <1>11, <2>1, TableIsWritten
      DEF OneDispatcher, OneApprover, PlatformInv, PlatformTypes
  <1> QED
    BY <1>8, <1>10, <1>11

\* The decision that the lab has accepted is recorded, with the answer it gave.
LEMMA DecisionEndStep ==
  ASSUME PlatformInv, LabInv', \A q \in Runs : RunStep(q), NEW a \in Approvers, DecisionEnds(a)
  PROVE  PlatformInv'
  <1>1. PICK r : r = approver[a].run
    OBVIOUS
  <1>2. PICK v : v = approver[a].answer
    OBVIOUS
  <1>3. PICK decision : decision = approver[a].decision
    OBVIOUS
  <1>4. /\ UNCHANGED <<lab, intent, receipts, dispatcher, poller>> /\ approver[a].at = "answered"
        /\ approver' = [approver EXCEPT ![a] = Idle]
    BY DEF DecisionEnds, labVars
  <1>5. /\ r \in Runs /\ Known(r) /\ AtGateOrEnd(run[r]) /\ decision \in Approval
        /\ IsTold(r, v) /\ v.raw \in Terminal /\ lab[r].approval = decision
    BY <1>1, <1>2, <1>3, <1>4, ActorFacts, StateShapes DEF ApproverKnows
  <1>6. run[r] \in ProviderRun /\ intent[r] \in Intent /\ RunIsTrue(r, run[r], intent[r])
    BY <1>5, KnownRun
  <1>7. OneApprover
    BY <1>4, IdleKnows DEF OneApprover
  <1>8. CASE run[r].approval = NoApproval
    <2>1. PICK b : b = [run[r] EXCEPT !.approval = decision]
      OBVIOUS
    <2>2. /\ b \in ProviderRun /\ b.approval = decision /\ b.dispatch = run[r].dispatch
          /\ b.bound = run[r].bound /\ b.status = run[r].status /\ b.gate = run[r].gate
      BY <1>5, <1>6, <2>1 DEF ProviderRun
    <2>3. RunIsTrue(r, b, intent[r]) /\ AtGateOrEnd(b) /\ b.approval # NoApproval
      BY <1>5, <1>6, <1>8, <2>2, AbsenceAssumption DEF RunIsTrue, AtGateOrEnd, IsTold
    <2>4. PICK c : c = WithSnapshot(b, v, "gate_decision")
      OBVIOUS
    <2>5. c \in ProviderRun /\ RunIsTrue(r, c, intent[r]) /\ AtGateOrEnd(c)
      BY <1>5, <2>2, <2>3, <2>4, SnapshotIsTrue DEF PlatformInv
    <2>6. run' = [run EXCEPT ![r] = c] \/ UNCHANGED run
      BY <1>1, <1>2, <1>3, <2>1, <2>4 DEF DecisionEnds
    <2>7. CASE UNCHANGED run
      BY <1>4, <1>7, <2>7, TablesAreLeft DEF OneDispatcher, OnePoller, SameApprovals, Started
    <2>8. CASE run' = [run EXCEPT ![r] = c]
      <3>1. intent' = [intent EXCEPT ![r] = intent[r]]
        BY <1>4, <1>5 DEF PlatformInv, PlatformTypes
      <3> QED
        BY <1>4, <1>5, <1>6, <1>7, <2>5, <2>8, <3>1, TableIsWritten
        DEF OneDispatcher, OnePoller, PlatformInv, PlatformTypes
    <2> QED
      BY <2>6, <2>7, <2>8
  <1>9. CASE run[r].approval # NoApproval
    <2>1. UNCHANGED run
      BY <1>1, <1>9 DEF DecisionEnds
    <2> QED
      BY <1>4, <1>7, <2>1, TablesAreLeft DEF OneDispatcher, OnePoller, SameApprovals, Started
  <1> QED
    BY <1>8, <1>9

LEMMA ReceiveStep ==
  ASSUME PlatformInv, LabInv', \A q \in Runs : RunStep(q), NEW w \in Workers, ReceiveEvent(w)
  PROVE  PlatformInv'
  <1>1. PICK r : r = poster[w].run
    OBVIOUS
  <1>2. PICK e : e = poster[w].seq
    OBVIOUS
  <1>3. PICK s : s = outbox[r][e].said
    OBVIOUS
  <1>4. /\ UNCHANGED <<lab, outbox, intent, dispatcher, poller, approver>>
        /\ poster[w].at = "post"
    BY DEF ReceiveEvent, Unsent, clientVars
  <1>5. r \in Runs /\ e \in 1 .. Len(outbox[r]) /\ e \in Nat
    BY <1>1, <1>2, <1>4, ClaimFacts, RunFacts DEF PlatformInv
  <1>6. Known(r)
    BY <1>1 DEF ReceiveEvent, Known
  <1>7. run[r] \in ProviderRun /\ intent[r] \in Intent /\ RunIsTrue(r, run[r], intent[r])
    BY <1>5, <1>6, KnownRun
  <1>8. PICK c : c = AfterEvent(run[r], e, s)
    OBVIOUS
  <1>9. /\ c \in ProviderRun /\ RunIsTrue(r, c, intent[r])
        /\ AtGateOrEnd(run[r]) => AtGateOrEnd(c)
    BY <1>3, <1>5, <1>7, <1>8, EventIsTrue DEF PlatformInv
  <1>10. receipts' \in [Runs -> SUBSET Nat]
    <2>1. receipts \in [Runs -> SUBSET Nat]
      BY DEF PlatformInv, PlatformTypes
    <2>2. receipts' = [receipts EXCEPT ![r] = receipts[r] \cup {e}]
      BY <1>1, <1>2 DEF ReceiveEvent
    <2> QED
      BY <1>5, <2>1, <2>2
  <1>11. run' = [run EXCEPT ![r] = c] \/ UNCHANGED run
    BY <1>1, <1>2, <1>3, <1>8 DEF ReceiveEvent
  <1>12. CASE UNCHANGED run
    <2>1. SameApprovals /\ OneDispatcher /\ OnePoller /\ OneApprover
      BY <1>4 DEF SameApprovals, Started, OneDispatcher, OnePoller, OneApprover
    <2> QED
      BY <1>4, <1>10, <1>12, <2>1, UndecidedStep, PlatformInvKept DEF PlatformInv, PlatformTypes
  <1>13. CASE run' = [run EXCEPT ![r] = c]
    <2>1. intent' = [intent EXCEPT ![r] = intent[r]]
      BY <1>4, <1>5 DEF PlatformInv, PlatformTypes
    <2> QED
      BY <1>4, <1>5, <1>7, <1>9, <1>10, <1>13, <2>1, TableIsWritten
      DEF OneDispatcher, OnePoller, OneApprover
  <1> QED
    BY <1>11, <1>12, <1>13

LEMMA PlatformInvInit == ProviderInit => PlatformInv
  <1> SUFFICES ASSUME ProviderInit PROVE PlatformInv
    OBVIOUS
  <1>1. LabInv
    BY LabInvInit DEF ProviderInit
  <1>2. PlatformTypes
    BY DEF ProviderInit, PlatformTypes, DispatcherStates, PollerStates, ApproverStates
  <1>3. \A r \in Runs : TableInv(r)
    BY DEF ProviderInit, Init, TableInv, Known, Started
  <1>4. DispatcherKnows(Idle) /\ PollerKnows(Idle) /\ ApproverKnows(Idle)
    BY DEF DispatcherKnows, PollerKnows, ApproverKnows, DispatcherStates, PollerStates,
           ApproverStates, Idle
  <1> QED
    BY <1>1, <1>2, <1>3, <1>4 DEF ProviderInit, PlatformInv

LEMMA PlatformInvDecides ==
  ASSUME PlatformInv
  PROVE  DecisionsAreMade
  <1>1. approver \in [Approvers -> ApproverStates]
    BY DEF PlatformInv, PlatformTypes
  <1> QED
    BY <1>1, StateShapes DEF DecisionsAreMade

LEMMA PlatformInvStep ==
  ASSUME PlatformInv, [ProviderNext]_allVars
  PROVE  PlatformInv' /\ \A q \in Runs : RunStep(q)
  <1>1. LabInv' /\ \A q \in Runs : RunStep(q)
    BY PlatformInvDecides, ProviderStepIsALabStep, LabInvStep DEF PlatformInv
  <1>2. CASE PlatformStep
    <2>1. ASSUME NEW r \in Runs, TriggerRun(r) \/ IntentLeaseRunsOut(r) PROVE PlatformInv'
      BY <1>1, <2>1, TriggerStep, LeaseStep
    <2>2. ASSUME NEW d \in Dispatchers, DispatcherStep(d) \/ DispatcherFails(d) PROVE PlatformInv'
      BY <1>1, <2>2, ClaimTriggerStep, TriggerCallStep, DispatcherAloneStep, FinalizeStep,
         SettleFailureStep
      DEF DispatcherStep
    <2>3. ASSUME NEW p \in Pollers,
                 \/ \E r \in Runs, cancel \in BOOLEAN : RefreshBegins(p, r, cancel)
                 \/ RefreshCalls(p) \/ RefreshEnds(p)
          PROVE  PlatformInv'
      BY <1>1, <2>3, PollerAloneStep, RefreshCallStep, RefreshEndStep
    <2>4. ASSUME NEW a \in Approvers,
                 \/ \E r \in Runs, decision \in Approval : DecisionBegins(a, r, decision)
                 \/ DecisionCalls(a) \/ DecisionFails(a) \/ DecisionEnds(a)
          PROVE  PlatformInv'
      BY <1>1, <2>4, ApproverAloneStep, DecisionCallStep, DecisionEndStep
    <2>5. ASSUME NEW w \in Workers, ReceiveEvent(w) \/ EventNotReceived(w) PROVE PlatformInv'
      <3>1. EventNotReceived(w) => UNCHANGED <<lab, run, intent, receipts, dispatcher, poller, approver>>
        BY DEF EventNotReceived, platformVars, clientVars
      <3> QED
        BY <1>1, <2>5, <3>1, ReceiveStep, LabMovesOn
    <2> QED
      BY <1>1, <1>2, <2>1, <2>2, <2>3, <2>4, <2>5 DEF PlatformStep
  <1>3. ASSUME NEW p \in Pollers, CancelCommits(p) \/ RefreshFails(p) PROVE PlatformInv'
    BY <1>1, <1>3, CancelStep, PollerAloneStep
  <1>4. CASE LabStep /\ UNCHANGED platformVars
    BY <1>1, <1>4, LabMovesOn DEF platformVars, clientVars
  <1>5. CASE UNCHANGED allVars
    BY <1>1, <1>5, LabMovesOn DEF allVars, labVars, platformVars, clientVars
  <1> QED
    BY <1>1, <1>2, <1>3, <1>4, <1>5 DEF ProviderNext

\* The platform's tables stay true of the lab.
THEOREM PlatformInvariance == ProviderSpec => []PlatformInv
  <1>1. PlatformInv /\ [ProviderNext]_allVars => PlatformInv'
    BY PlatformInvStep
  <1> QED
    BY PlatformInvInit, <1>1, PTL DEF ProviderSpec

\* A gated run succeeds only with the approval that the lab accepted, and the
\* recorded decision is the lab's, whoever decides, however late an answer
\* arrives, with any of the platform's databases (decide_provider_quality_gate).
THEOREM DecisionsHold == ProviderSpec => []DecisionsAgree
  <1>1. PlatformInv => DecisionsAgree
    BY RunsAssumption
    DEF PlatformInv, TableInv, RunIsTrue, DecisionsAgree, SuccessIsApproved,
        RecordedDecisionIsTheLabs
  <1> QED
    BY PlatformInvariance, <1>1, PTL

-----------------------------------------------------------------------------
(* The watermark, when a cancellation does not overlap other transactions. *)

LEMMA SnapshotRun ==
  ASSUME NEW p \in ProviderRun, NEW v \in View, NEW source \in {"dispatch", "poll", "gate_decision"}
  PROVE  WithSnapshot(p, v, source) \in ProviderRun
  <1> DEFINE n == Normal(v.raw)
             g == GateAfter(p, v)
             m == Watermark(p, v)
             c == IF source \in {"poll", "gate_decision"} THEN FALSE ELSE p.reconcile
             k == p.version + 1
             t == [p EXCEPT !.bound = TRUE, !.status = n, !.raw = v.raw, !.gate = g,
                            !.seq = m, !.reconcile = c, !.version = k]
  <1>1. n \in RunStatuses /\ g \in GateStatuses /\ m \in Nat /\ c \in BOOLEAN
        /\ v.raw \in RawStatuses
    BY DEF View, Normal, GateAfter, Watermark, RunStatuses, GateStatuses, ProviderRun, RawStatuses
  <1>2. k \in Nat
    BY NextVersion
  <1>3. WithSnapshot(p, v, source) \in {p, Flagged(p), t}
    BY DEF WithSnapshot
  <1> HIDE DEF n, g, m, c, k
  <1>4. t \in ProviderRun
    BY <1>1, <1>2 DEF ProviderRun
  <1> QED
    BY <1>3, <1>4, FlaggedRun

\* A snapshot that is not older than the run p of r: it is applied, or the run is
\* flagged for reconciliation.
LEMMA SnapshotMarks ==
  ASSUME LabInv, NEW r \in Runs, NEW p \in ProviderRun, MarkIsPossible(r, p),
         NEW v, IsTold(r, v), NEW source \in {"dispatch", "poll", "gate_decision"},
         p.seq <= v.seq, r \in Subscribed \/ p.dispatch = "dispatched",
         NEW t, t = WithSnapshot(p, v, source)
  PROVE  /\ MarkIsTrue(r, t) /\ t \in ProviderRun
         /\ p.bound => t.bound
         /\ p.status \in Terminal => t.status = p.status
         /\ \/ t = p /\ p.reconcile /\ source # "gate_decision"
            \/ t.version = p.version + 1
  <1> DEFINE n == Normal(v.raw)
             g == GateAfter(p, v)
             m == Watermark(p, v)
             c == IF source \in {"poll", "gate_decision"} THEN FALSE ELSE p.reconcile
             k == p.version + 1
             f == Flagged(p)
  <1>1. /\ v \in View /\ v.seq \in Nat /\ p.seq \in Nat /\ v.seq <= Len(outbox[r])
        /\ r \in Subscribed => v.seq > 0 /\ outbox[r][v.seq].said = v.raw
    BY DEF IsTold, View, ProviderRun
  <1>2. t \in ProviderRun
    BY SnapshotRun DEF IsTold
  <1>3. CASE ReleasesGate(p, v, source) /\ p.reconcile
    <2>1. t = p /\ source # "gate_decision" /\ MarkIsTrue(r, p)
      BY <1>3 DEF WithSnapshot, MarkIsTrue, ReleasesGate
    <2> QED
      BY <1>3, <1>2, <2>1
  <1>4. CASE \/ ReleasesGate(p, v, source) /\ ~p.reconcile
             \/ ~ReleasesGate(p, v, source) /\ LeavesTheEnd(p, n)
    <2>1. t = f
      BY <1>4 DEF WithSnapshot
    <2>2. /\ f.dispatch = p.dispatch /\ f.bound = p.bound /\ f.status = p.status
          /\ f.seq = p.seq /\ f.reconcile /\ f.version = p.version + 1
      BY FlaggedRun
    <2> HIDE DEF f
    <2>3. MarkIsTrue(r, f)
      BY <2>2 DEF MarkIsTrue, MarkIsPossible, Undispatched
    <2> QED
      BY <1>2, <2>1, <2>2, <2>3
  <1>5. CASE ~ReleasesGate(p, v, source) /\ ~LeavesTheEnd(p, n)
    <2>1. k \in Nat
      BY NextVersion
    <2>2. t = [p EXCEPT !.bound = TRUE, !.status = n, !.raw = v.raw, !.gate = g,
                        !.seq = m, !.reconcile = c, !.version = k]
      BY <1>5 DEF WithSnapshot
    <2>3. m = v.seq
      BY DEF Watermark
    <2> HIDE DEF n, g, m, c, k
    <2>4. /\ t.bound /\ t.status = n /\ t.raw = v.raw /\ t.seq = v.seq /\ t.version = k
          /\ t.dispatch = p.dispatch
      BY <2>2, <2>3 DEF ProviderRun
    <2>5. MarkIsTrue(r, t)
      BY <1>1, <2>4 DEF MarkIsTrue, MarkIsPossible, Undispatched
    <2>6. p.status \in Terminal => t.status = p.status
      BY <1>5, <2>4 DEF LeavesTheEnd
    <2> QED
      BY <1>2, <2>4, <2>5, <2>6 DEF k
  <1> HIDE DEF n, f
  <1> QED
    BY <1>3, <1>4, <1>5, <1>2

\* An event moves the watermark by one, or flags the run, or is known.
LEMMA EventMarks ==
  ASSUME LabInv, NEW r \in Runs, NEW p \in ProviderRun, MarkIsTrue(r, p),
         NEW e \in 1 .. Len(outbox[r]), NEW s, s = outbox[r][e].said,
         NEW t, t = AfterEvent(p, e, s)
  PROVE  /\ MarkIsTrue(r, t) /\ t \in ProviderRun
         /\ t.bound
         /\ p.status \in Terminal => t.status = p.status
         /\ t = p \/ t.version > p.version
  <1>1. PICK b : b = Bound(p)
    OBVIOUS
  <1>2. /\ b \in ProviderRun /\ b.bound /\ b.dispatch = p.dispatch /\ b.status = p.status
        /\ b.seq = p.seq /\ b.raw = p.raw /\ b.reconcile = p.reconcile
        /\ b = p \/ b.version = p.version + 1
    BY <1>1, BoundRun
  <1>3. r \in Subscribed /\ e \in Nat \ {0} /\ s \in Said /\ Len(outbox[r]) \in Nat
    BY AnnouncementFacts, RunFacts
  <1>4. p.version \in Nat /\ b.version \in Nat
    BY <1>2, NextVersion
  <1>5. MarkIsTrue(r, b)
    BY <1>2, <1>3 DEF MarkIsTrue, MarkIsPossible, Undispatched
  <1>6. CASE e <= b.seq
    <2>1. t = b
      BY <1>1, <1>6 DEF AfterEvent
    <2> QED
      BY <1>2, <1>4, <1>5, <2>1
  <1>7. CASE ~(e <= b.seq) /\ (e # b.seq + 1 \/ EventRefused(b, s))
    <2>1. t = Flagged(b)
      BY <1>1, <1>7 DEF AfterEvent
    <2>2. /\ t.bound = b.bound /\ t.dispatch = b.dispatch /\ t.status = b.status
          /\ t.seq = b.seq /\ t.reconcile /\ t.version = b.version + 1 /\ t \in ProviderRun
      BY <1>2, <2>1, FlaggedRun
    <2>3. MarkIsTrue(r, t)
      BY <1>5, <2>2 DEF MarkIsTrue, MarkIsPossible, Undispatched
    <2> QED
      BY <1>2, <1>4, <2>2, <2>3
  <1>8. CASE ~(e <= b.seq) /\ ~(e # b.seq + 1 \/ EventRefused(b, s))
    <2>1. t = AppliedEvent(b, s, e)
      BY <1>1, <1>8 DEF AfterEvent, AppliedEvent
    <2>0. s \in Said /\ e \in Nat /\ b \in ProviderRun
      BY <1>2, <1>3
    <2>2. /\ t.dispatch = b.dispatch /\ t.bound = b.bound /\ t.status = Normal(s)
          /\ t.raw = s /\ t.seq = e /\ t.version = b.version + 1 /\ t \in ProviderRun
      BY ONLY <2>0, <2>1, EventRun
    <2>3. MarkIsTrue(r, t)
      BY <1>2, <1>3, <2>2 DEF MarkIsTrue, MarkIsPossible, Undispatched
    <2>4. b.status \in Terminal => t.status = b.status
      BY <1>2, <1>8, <2>2 DEF EventRefused, AllowedAfter, Terminal
    <2> QED
      BY <1>2, <1>4, <2>2, <2>3, <2>4
  <1> QED
    BY <1>6, <1>7, <1>8

\* The step leaves run r as it is, or makes a later version of it; an end stays.
MovesOn(r) ==
  /\ Known(r)'
  /\ run'[r] = run[r] \/ run'[r].version > run[r].version
  /\ run[r].bound => run'[r].bound
  /\ run[r].status \in Terminal => run'[r].status = run[r].status

LEMMA MarkIsKept ==
  ASSUME LabInv, NEW r \in Runs, RunStep(r), NEW p \in ProviderRun, MarkIsTrue(r, p)
  PROVE  MarkIsTrue(r, p)'
  <1>1. Len(outbox[r]) \in Nat /\ Len(outbox'[r]) \in Nat /\ p.seq \in Nat
    BY RunFacts, LenProperties DEF RunStep, ProviderRun
  <1>2. p.seq <= Len(outbox'[r])
    BY <1>1 DEF RunStep, MarkIsTrue, MarkIsPossible
  <1>3. p.seq > 0 => outbox'[r][p.seq].said = outbox[r][p.seq].said
    BY <1>1 DEF RunStep, MarkIsTrue, MarkIsPossible
  <1> QED
    BY <1>2, <1>3 DEF MarkIsTrue, MarkIsPossible, Undispatched

LEMMA ReadIsKept ==
  ASSUME PlatformInv, PlatformInv', NEW x \in PollerStates \cup ApproverStates,
         ReadIsRecent(x), x.at # "idle" => Known(x.run) /\ MovesOn(x.run)
  PROVE  ReadIsRecent(x)'
  <1> SUFFICES ASSUME x.at \in {"read", "answered"} PROVE ReadIsRecent(x)'
    BY DEF ReadIsRecent
  <1>1. x.run \in Runs /\ x.version \in Nat /\ MovesOn(x.run) /\ Known(x.run) /\ Known(x.run)'
    BY StateShapes DEF MovesOn
  <1>2. run[x.run] \in ProviderRun /\ run'[x.run] \in ProviderRun
    BY <1>1 DEF PlatformInv, PlatformTypes, Known
  <1>3. run[x.run].version \in Nat /\ run'[x.run].version \in Nat
    BY <1>2 DEF ProviderRun
  <1>4. /\ run[x.run].bound /\ x.version <= run[x.run].version
        /\ (x.at = "answered" /\ x.version = run[x.run].version) => run[x.run].seq <= x.answer.seq
    BY DEF ReadIsRecent
  <1>5. CASE run'[x.run] = run[x.run]
    BY <1>4, <1>5 DEF ReadIsRecent
  <1>6. CASE run'[x.run].version > run[x.run].version
    <2>1. run'[x.run].bound /\ x.version < run'[x.run].version
      BY <1>1, <1>3, <1>4, <1>6 DEF MovesOn
    <2> QED
      BY <1>1, <1>3, <2>1 DEF ReadIsRecent
  <1> QED
    BY <1>1, <1>5, <1>6 DEF MovesOn

\* Every run moves on, and is what the lab has announced at its watermark.
RunsMoveOn ==
  /\ \A r \in Runs : Known(r) => MovesOn(r)
  /\ \A r \in Runs : Known(r)' =>
       (Known(r) /\ run'[r] = run[r]) \/ MarkIsTrue(r, run[r])'

LEMMA RunsStay ==
  ASSUME UNCHANGED run
  PROVE  RunsMoveOn
  BY DEF RunsMoveOn, MovesOn, Known

LEMMA OneRunMoves ==
  ASSUME PlatformInv, UNCHANGED outbox, NEW r \in Runs, NEW p \in ProviderRun,
         run' = [run EXCEPT ![r] = p], MarkIsTrue(r, p),
         Known(r) => /\ p = run[r] \/ p.version > run[r].version
                     /\ run[r].bound => p.bound
                     /\ run[r].status \in Terminal => p.status = run[r].status
  PROVE  RunsMoveOn
  <1>1. run \in [Runs -> ProviderRun \cup {NoRun}]
    BY DEF PlatformInv, PlatformTypes
  <1>2. run'[r] = p /\ \A q \in Runs \ {r} : run'[q] = run[q]
    BY <1>1
  <1>3. MarkIsTrue(r, run[r])'
    BY <1>2 DEF MarkIsTrue, MarkIsPossible, Undispatched
  <1>4. Known(r)' /\ \A q \in Runs \ {r} : Known(q) => Known(q)'
    BY <1>2, NoRunAssumption DEF Known
  <1> QED
    BY <1>2, <1>3, <1>4 DEF RunsMoveOn, MovesOn, Known

LEMMA KnownMark ==
  ASSUME PlatformInv, MarkInv, NEW r \in Runs, Known(r)
  PROVE  /\ MarkIsTrue(r, run[r]) /\ MarkIsPossible(r, run[r])
         /\ run[r].version \in Nat /\ run[r].version + 1 \in Nat
         /\ run[r].seq \in Nat
  BY KnownRun, NextVersion DEF MarkInv, MarkIsTrue, ProviderRun

LEMMA TriggerMoves ==
  ASSUME PlatformInv, MarkInv, NEW r \in Runs, TriggerRun(r)
  PROVE  RunsMoveOn
  <1>1. PICK p : /\ run' = [run EXCEPT ![r] = p]
                 /\ p = [status |-> "queued", raw |-> "trigger_pending",
                         gate |-> IF r \in Gated THEN "evaluating" ELSE "none",
                         dispatch |-> "pending", bound |-> FALSE, seq |-> 0,
                         reconcile |-> FALSE, version |-> 0, approval |-> NoApproval]
    BY DEF TriggerRun
  <1>2. UNCHANGED outbox /\ ~Known(r)
    BY DEF TriggerRun, labVars, Known
  <1>3. Len(outbox[r]) \in Nat
    BY RunFacts DEF PlatformInv
  <1>4. MarkIsTrue(r, p)
    BY <1>1, <1>3 DEF MarkIsTrue, MarkIsPossible, Undispatched, Terminal
  <1>5. p \in ProviderRun
    BY <1>1 DEF ProviderRun, RunStatuses, RawStatuses, GateStatuses, DispatchStatuses
  <1> QED
    BY <1>1, <1>2, <1>4, <1>5, OneRunMoves

LEMMA ClaimMoves ==
  ASSUME PlatformInv, MarkInv, NEW d \in Dispatchers, NEW r \in Runs, ClaimTrigger(d, r)
  PROVE  RunsMoveOn
  <1>1. Known(r) /\ IntentClaimable(r) /\ UNCHANGED outbox
    BY DEF ClaimTrigger, Known, labVars
  <1>2. run[r] \in ProviderRun /\ RunIsTrue(r, run[r], intent[r])
    BY <1>1, KnownRun
  <1>3. MarkIsTrue(r, run[r])
    BY <1>1, KnownMark
  <1>4. PICK n \in Nat : n = run[r].version + 1
    BY <1>2, NextVersion
  <1>5. PICK p : p = [run[r] EXCEPT !.dispatch = "dispatching", !.version = n]
    OBVIOUS
  <1>6. /\ p.dispatch = "dispatching" /\ p.bound = run[r].bound /\ p.status = run[r].status
        /\ p.seq = run[r].seq /\ p.raw = run[r].raw /\ p.reconcile = run[r].reconcile
        /\ p.version = n /\ p \in ProviderRun
    BY <1>2, <1>4, <1>5 DEF ProviderRun, DispatchStatuses
  <1>7. run' = [run EXCEPT ![r] = p]
    <2>1. run \in [Runs -> ProviderRun \cup {NoRun}]
      BY DEF PlatformInv, PlatformTypes
    <2> QED
      BY <1>2, <1>4, <1>5, <2>1 DEF ClaimTrigger
  <1>8. run[r].dispatch \in {"pending", "retry_wait", "dispatching"}
    BY <1>1, <1>2 DEF IntentClaimable, RunIsTrue, DispatchOf
  <1>9. MarkIsTrue(r, p)
    BY <1>3, <1>6, <1>8 DEF MarkIsTrue, MarkIsPossible, Undispatched
  <1>10. p.version > run[r].version
    BY <1>1, <1>4, <1>6, KnownMark
  <1> QED
    BY <1>1, <1>6, <1>7, <1>9, <1>10, OneRunMoves

LEMMA FinalizeMoves ==
  ASSUME PlatformInv, MarkInv, NEW d \in Dispatchers, FinalizeTrigger(d)
  PROVE  RunsMoveOn
  <1>1. PICK r : r = dispatcher[d].run
    OBVIOUS
  <1>2. PICK v : v = dispatcher[d].answer
    OBVIOUS
  <1>3. dispatcher[d].at = "answered" /\ v \in View /\ UNCHANGED outbox
    BY <1>2 DEF FinalizeTrigger, labVars
  <1>4. r \in Runs /\ Known(r) /\ IsTold(r, v)
    BY <1>1, <1>2, <1>3, ActorFacts, StateShapes DEF DispatcherKnows
  <1>5. run[r] \in ProviderRun
    BY <1>4, KnownRun
  <1>6. /\ MarkIsTrue(r, run[r]) /\ MarkIsPossible(r, run[r])
        /\ run[r].version \in Nat /\ run[r].seq \in Nat
    BY <1>4, KnownMark
  <1>7. CASE HoldsIntent(d)
    <2>1. PICK p : p = [run[r] EXCEPT !.dispatch = "dispatched"]
      OBVIOUS
    <2>2. /\ p \in ProviderRun /\ p.dispatch = "dispatched" /\ p.bound = run[r].bound
          /\ p.status = run[r].status /\ p.seq = run[r].seq /\ p.raw = run[r].raw
          /\ p.reconcile = run[r].reconcile /\ p.version = run[r].version
      BY <1>5, <2>1 DEF ProviderRun, DispatchStatuses
    <2>3. PICK n \in Nat : n = p.version + 1
      BY <2>2, NextVersion
    <2>4. PICK a : a = [p EXCEPT !.version = n]
      OBVIOUS
    <2>5. /\ a.dispatch = "dispatched" /\ a.bound = p.bound /\ a.status = p.status
          /\ a.seq = p.seq /\ a.raw = p.raw /\ a.reconcile = p.reconcile /\ a.version = n
          /\ a \in ProviderRun
      BY <2>2, <2>3, <2>4 DEF ProviderRun
    <2>6. PICK b : b = [p EXCEPT !.reconcile = FALSE]
      OBVIOUS
    <2>7. /\ b \in ProviderRun /\ b.dispatch = "dispatched" /\ b.bound = p.bound
          /\ b.status = p.status /\ b.seq = p.seq /\ b.version = p.version /\ ~b.reconcile
      BY <2>2, <2>6 DEF ProviderRun
    <2>8. PICK c : c = WithSnapshot(b, v, "dispatch")
      OBVIOUS
    <2>9. PICK y : /\ run' = [run EXCEPT ![r] = y]
                   /\ y = IF NewerThanAnswer(p, v) THEN a ELSE c
      BY <1>1, <1>2, <1>7, <2>1, <2>3, <2>4, <2>6, <2>8 DEF FinalizeTrigger
    <2>10. CASE NewerThanAnswer(p, v)
      <3>1. MarkIsTrue(r, a)
        BY <1>6, <2>2, <2>5 DEF MarkIsTrue, MarkIsPossible, Undispatched
      <3>2. a.version > run[r].version
        BY <1>6, <2>2, <2>3, <2>5
      <3> QED
        BY <1>3, <1>4, <2>2, <2>5, <2>9, <2>10, <3>1, <3>2, OneRunMoves
    <2>11. CASE ~NewerThanAnswer(p, v)
      <3>1. b.seq <= v.seq
        BY <1>3, <1>6, <2>2, <2>7, <2>11 DEF NewerThanAnswer, View
      <3>2. MarkIsPossible(r, b)
        BY <1>6, <2>2, <2>7 DEF MarkIsPossible, Undispatched
      <3>3. /\ MarkIsTrue(r, c) /\ (b.bound => c.bound) /\ c \in ProviderRun
            /\ b.status \in Terminal => c.status = b.status
            /\ c.version = b.version + 1
        BY <1>4, <2>7, <2>8, <3>1, <3>2, SnapshotMarks DEF PlatformInv
      <3>4. c.version > run[r].version
        BY <1>6, <2>2, <2>7, <3>3
      <3> QED
        BY <1>3, <1>4, <2>2, <2>7, <2>9, <2>11, <3>3, <3>4, OneRunMoves
    <2> QED
      BY <2>10, <2>11
  <1>8. CASE ~HoldsIntent(d)
    BY <1>8, RunsStay DEF FinalizeTrigger
  <1> QED
    BY <1>7, <1>8

LEMMA SettleMoves ==
  ASSUME PlatformInv, MarkInv, NEW d \in Dispatchers, SettleTriggerFailure(d)
  PROVE  RunsMoveOn
  <1>1. PICK r : r = dispatcher[d].run
    OBVIOUS
  <1>2. dispatcher[d].at = "answered" /\ UNCHANGED outbox
    BY DEF SettleTriggerFailure, labVars
  <1>3. r \in Runs /\ Known(r)
    BY <1>1, <1>2, ActorFacts, StateShapes DEF DispatcherKnows
  <1>4. run[r] \in ProviderRun /\ RunIsTrue(r, run[r], intent[r])
    BY <1>3, KnownRun
  <1>5. /\ MarkIsTrue(r, run[r]) /\ MarkIsPossible(r, run[r])
        /\ run[r].version \in Nat /\ run[r].seq \in Nat
    BY <1>3, KnownMark
  <1>6. PICK n \in Nat : n = run[r].version + 1
    BY <1>4, NextVersion
  <1>7. n > run[r].version
    BY <1>5, <1>6
  <1>8. HoldsIntent(d) => run[r].dispatch = "dispatching"
    BY <1>1, <1>4 DEF HoldsIntent, RunIsTrue, DispatchOf
  <1>9. CASE HoldsIntent(d) /\ KnownFromEvents(run[r])
    <2>1. PICK p : p = [run[r] EXCEPT !.dispatch = "dispatched", !.version = n]
      OBVIOUS
    <2>2. /\ p.dispatch = "dispatched" /\ p.bound = run[r].bound /\ p.status = run[r].status
          /\ p.seq = run[r].seq /\ p.raw = run[r].raw /\ p.reconcile = run[r].reconcile
          /\ p.version = n /\ p \in ProviderRun
      BY <1>4, <2>1 DEF ProviderRun, DispatchStatuses
    <2>3. run' = [run EXCEPT ![r] = p]
      BY <1>1, <1>6, <1>9, <2>1 DEF SettleTriggerFailure
    <2>4. MarkIsTrue(r, p)
      BY <1>5, <2>2 DEF MarkIsTrue, MarkIsPossible, Undispatched
    <2> QED
      BY <1>2, <1>3, <1>7, <2>2, <2>3, <2>4, OneRunMoves
  <1>10. CASE HoldsIntent(d) /\ ~KnownFromEvents(run[r])
    <2> DEFINE retryable == dispatcher[d].answer = Failure("uncertain")
    <2>1. run[r].seq = 0 /\ run[r].status \notin Terminal /\ (run[r].bound => r \in Subscribed)
      BY <1>5, <1>8, <1>10 DEF KnownFromEvents, MarkIsPossible, Undispatched
    <2>2. PICK o \in {"failed", "retry_wait", "unknown"} :
            o = IF ~retryable THEN "failed"
                ELSE IF intent[r].attempts < MaxAttempts THEN "retry_wait" ELSE "unknown"
      OBVIOUS
    <2>3. PICK c \in BOOLEAN : c = retryable
      OBVIOUS
    <2>4. PICK s : s = IF c THEN run[r].status ELSE "failed"
      OBVIOUS
    <2>5. PICK g : g = IF c \/ run[r].gate = "none" THEN run[r].gate ELSE "failed"
      OBVIOUS
    <2>6. PICK w : w = IF c THEN "trigger_result_unknown" ELSE "trigger_failed"
      OBVIOUS
    <2>7. PICK p : p = [run[r] EXCEPT !.dispatch = o, !.reconcile = c, !.status = s, !.gate = g,
                                      !.raw = w, !.version = n]
      OBVIOUS
    <2>8. /\ p.dispatch = o /\ p.bound = run[r].bound /\ p.status = s /\ p.seq = run[r].seq
          /\ p.version = n /\ p \in ProviderRun
      <3>1. s \in RunStatuses /\ g \in GateStatuses /\ w \in RawStatuses /\ o \in DispatchStatuses
        BY <1>4, <2>4, <2>5, <2>6
        DEF ProviderRun, RunStatuses, Terminal, GateStatuses, RawStatuses, DispatchStatuses
      <3> QED
        BY <1>4, <2>7, <3>1 DEF ProviderRun
    <2>9. run' = [run EXCEPT ![r] = p]
      <3>1. run' = [run EXCEPT ![r] =
                 [run[r] EXCEPT !.dispatch = o, !.reconcile = retryable,
                                !.status = IF retryable THEN run[r].status ELSE "failed",
                                !.gate = IF retryable \/ run[r].gate = "none"
                                         THEN run[r].gate ELSE "failed",
                                !.raw = IF retryable THEN "trigger_result_unknown"
                                        ELSE "trigger_failed",
                                !.version = run[r].version + 1]]
        BY <1>1, <1>10, <2>2 DEF SettleTriggerFailure
      <3> HIDE DEF retryable
      <3> QED
        BY <1>6, <2>3, <2>4, <2>5, <2>6, <2>7, <3>1
    <2>10. MarkIsTrue(r, p)
      <3>1. Undispatched(p) => s = run[r].status
        BY <2>2, <2>3, <2>4, <2>8 DEF Undispatched
      <3> QED
        BY <1>5, <2>1, <2>8, <3>1 DEF MarkIsTrue, MarkIsPossible
    <2> QED
      BY <1>2, <1>3, <1>7, <2>1, <2>8, <2>9, <2>10, OneRunMoves
  <1>11. CASE ~HoldsIntent(d)
    BY <1>11, RunsStay DEF SettleTriggerFailure
  <1> QED
    BY <1>9, <1>10, <1>11

\* What the cancellation has read is still so when it writes.
LEMMA CancelMoves ==
  ASSUME PlatformInv, MarkInv, NEW p \in Pollers, CancelCommits(p)
  PROVE  RunsMoveOn
  <1>1. PICK r : r = poller[p].run
    OBVIOUS
  <1>2. poller[p].at = "cancelling" /\ UNCHANGED outbox
    BY DEF CancelCommits, labVars
  <1>3. r \in Runs /\ Known(r)
    BY <1>1, <1>2, ActorFacts, StateShapes DEF PollerKnows
  <1>4. CancellableHere(r) /\ poller[p].version = run[r].version
    BY <1>1, <1>2 DEF MarkInv, CancellationIsDue
  <1>5. run[r] \in ProviderRun
    BY <1>3, KnownRun
  <1>6. /\ MarkIsPossible(r, run[r]) /\ run[r].version \in Nat /\ run[r].seq \in Nat
    BY <1>3, KnownMark
  <1>7. run[r].seq = 0 /\ run[r].status \notin Terminal /\ ~run[r].bound
    BY <1>4, <1>6 DEF CancellableHere, MarkIsPossible, Undispatched
  <1>8. PICK n \in Nat : n = run[r].version + 1
    BY <1>5, NextVersion
  <1>9. PICK c : c = [run[r] EXCEPT !.status = "cancelled", !.raw = "cancelled_before_dispatch",
                                    !.gate = "cancelled", !.dispatch = "cancelled", !.version = n]
    OBVIOUS
  <1>10. c.dispatch = "cancelled" /\ c.bound = run[r].bound /\ c.seq = run[r].seq /\ c.version = n
         /\ c \in ProviderRun
    BY <1>5, <1>9
    DEF ProviderRun, RunStatuses, RawStatuses, Terminal, GateStatuses, DispatchStatuses
  <1>11. run' = [run EXCEPT ![r] = c]
    BY <1>1, <1>4, <1>8, <1>9 DEF CancelCommits, CancelHere, CancelledHere
  <1>12. MarkIsTrue(r, c)
    BY <1>6, <1>7, <1>10 DEF MarkIsTrue, MarkIsPossible, Undispatched
  <1>13. c.version > run[r].version
    BY <1>6, <1>8, <1>10
  <1> QED
    BY <1>2, <1>3, <1>7, <1>10, <1>11, <1>12, <1>13, OneRunMoves

LEMMA RefreshEndMoves ==
  ASSUME PlatformInv, MarkInv, NEW p \in Pollers, RefreshEnds(p)
  PROVE  RunsMoveOn
  <1>1. PICK r : r = poller[p].run
    OBVIOUS
  <1>2. PICK v : v = poller[p].answer
    OBVIOUS
  <1>3. poller[p].at = "answered" /\ UNCHANGED outbox
    BY DEF RefreshEnds, labVars
  <1>4. r \in Runs /\ Known(r) /\ IsTold(r, v)
    BY <1>1, <1>2, <1>3, ActorFacts, StateShapes DEF PollerKnows
  <1>5. run[r] \in ProviderRun
    BY <1>4, KnownRun
  <1>6. MarkIsTrue(r, run[r]) /\ MarkIsPossible(r, run[r]) /\ run[r].version \in Nat
    BY <1>4, KnownMark
  <1>7. CASE UnchangedSince(r, poller[p].version)
    <2>1. run[r].bound /\ run[r].seq <= v.seq
      BY <1>1, <1>2, <1>3, <1>7 DEF UnchangedSince, MarkInv, ReadIsRecent
    <2>2. r \in Subscribed \/ run[r].dispatch = "dispatched"
      BY <1>6, <2>1 DEF MarkIsPossible
    <2>3. PICK c : c = WithSnapshot(run[r], v, "poll")
      OBVIOUS
    <2>4. /\ MarkIsTrue(r, c) /\ (run[r].bound => c.bound) /\ c \in ProviderRun
          /\ run[r].status \in Terminal => c.status = run[r].status
          /\ c = run[r] \/ c.version = run[r].version + 1
      BY <1>4, <1>5, <1>6, <2>1, <2>2, <2>3, SnapshotMarks DEF PlatformInv
    <2>5. run' = [run EXCEPT ![r] = c]
      BY <1>1, <1>2, <1>7, <2>3 DEF RefreshEnds
    <2>6. c = run[r] \/ c.version > run[r].version
      BY <1>6, <2>4
    <2> QED
      BY <1>3, <1>4, <2>4, <2>5, <2>6, OneRunMoves
  <1>8. CASE ~UnchangedSince(r, poller[p].version)
    BY <1>1, <1>8, RunsStay DEF RefreshEnds
  <1> QED
    BY <1>7, <1>8

LEMMA DecisionEndMoves ==
  ASSUME PlatformInv, MarkInv, NEW a \in Approvers, DecisionEnds(a)
  PROVE  RunsMoveOn
  <1>1. PICK r : r = approver[a].run
    OBVIOUS
  <1>2. PICK v : v = approver[a].answer
    OBVIOUS
  <1>3. PICK decision : decision = approver[a].decision
    OBVIOUS
  <1>4. approver[a].at = "answered" /\ UNCHANGED outbox
    BY DEF DecisionEnds, labVars
  <1>5. r \in Runs /\ Known(r) /\ IsTold(r, v) /\ approver[a].decision \in Approval
    BY <1>1, <1>2, <1>4, ActorFacts, StateShapes DEF ApproverKnows
  <1>6. run[r] \in ProviderRun
    BY <1>5, KnownRun
  <1>7. MarkIsPossible(r, run[r]) /\ run[r].version \in Nat
    BY <1>5, KnownMark
  <1>8. CASE run[r].approval = NoApproval /\ UnchangedSince(r, approver[a].version)
    <2>1. run[r].bound /\ run[r].seq <= v.seq
      BY <1>1, <1>2, <1>4, <1>8 DEF UnchangedSince, MarkInv, ReadIsRecent
    <2>2. r \in Subscribed \/ run[r].dispatch = "dispatched"
      BY <1>7, <2>1 DEF MarkIsPossible
    <2>3. PICK b : b = [run[r] EXCEPT !.approval = decision]
      OBVIOUS
    <2>4. /\ b \in ProviderRun /\ b.dispatch = run[r].dispatch /\ b.bound = run[r].bound
          /\ b.status = run[r].status /\ b.seq = run[r].seq /\ b.version = run[r].version
      BY <1>3, <1>5, <1>6, <2>3 DEF ProviderRun
    <2>5. MarkIsPossible(r, b)
      BY <1>7, <2>4 DEF MarkIsPossible, Undispatched
    <2>6. PICK c : c = WithSnapshot(b, v, "gate_decision")
      OBVIOUS
    <2>7. /\ MarkIsTrue(r, c) /\ (b.bound => c.bound) /\ c \in ProviderRun
          /\ b.status \in Terminal => c.status = b.status
          /\ c.version = b.version + 1
      <3>1. LabInv /\ b \in ProviderRun /\ IsTold(r, v) /\ b.seq <= v.seq
        BY <1>5, <2>1, <2>4 DEF PlatformInv
      <3>2. r \in Subscribed \/ b.dispatch = "dispatched"
        BY <2>2, <2>4
      <3> QED
        BY ONLY <1>5, <2>5, <2>6, <3>1, <3>2, SnapshotMarks
    <2>8. run' = [run EXCEPT ![r] = c] \/ UNCHANGED run
      BY <1>1, <1>2, <1>3, <2>3, <2>6 DEF DecisionEnds
    <2>9. c.version > run[r].version
      BY <1>7, <2>4, <2>7
    <2>10. CASE run' = [run EXCEPT ![r] = c]
      BY <1>4, <1>5, <2>4, <2>7, <2>9, <2>10, OneRunMoves
    <2> QED
      BY <2>8, <2>10, RunsStay
  <1>9. CASE ~(run[r].approval = NoApproval /\ UnchangedSince(r, approver[a].version))
    BY <1>1, <1>9, RunsStay DEF DecisionEnds
  <1> QED
    BY <1>8, <1>9

LEMMA ReceiveMoves ==
  ASSUME PlatformInv, MarkInv, NEW w \in Workers, ReceiveEvent(w)
  PROVE  RunsMoveOn
  <1>1. PICK r : r = poster[w].run
    OBVIOUS
  <1>2. PICK e : e = poster[w].seq
    OBVIOUS
  <1>3. PICK s : s = outbox[r][e].said
    OBVIOUS
  <1>4. UNCHANGED outbox /\ poster[w].at = "post"
    BY DEF ReceiveEvent, Unsent
  <1>5. r \in Runs /\ e \in 1 .. Len(outbox[r])
    BY <1>1, <1>2, <1>4, ClaimFacts, RunFacts DEF PlatformInv
  <1>6. Known(r)
    BY <1>1 DEF ReceiveEvent, Known
  <1>7. run[r] \in ProviderRun
    BY <1>5, <1>6, KnownRun
  <1>8. MarkIsTrue(r, run[r])
    BY <1>5, <1>6, KnownMark
  <1>9. PICK c : c = AfterEvent(run[r], e, s)
    OBVIOUS
  <1>10. /\ MarkIsTrue(r, c) /\ c.bound /\ c \in ProviderRun
         /\ run[r].status \in Terminal => c.status = run[r].status
         /\ c = run[r] \/ c.version > run[r].version
    BY <1>3, <1>5, <1>7, <1>8, <1>9, EventMarks DEF PlatformInv
  <1>11. run' = [run EXCEPT ![r] = c] \/ UNCHANGED run
    BY <1>1, <1>2, <1>3, <1>9 DEF ReceiveEvent
  <1>12. CASE run' = [run EXCEPT ![r] = c]
    BY <1>4, <1>5, <1>10, <1>12, OneRunMoves
  <1>13. CASE UNCHANGED run
    BY <1>13, RunsStay
  <1> QED
    BY <1>11, <1>12, <1>13

LEMMA RunsMoveOnAlways ==
  ASSUME PlatformInv, MarkInv, [ProviderNext]_allVars
  PROVE  RunsMoveOn
  <1>1. CASE UNCHANGED run
    BY <1>1, RunsStay
  <1>2. ASSUME NEW d \in Dispatchers, DispatcherStep(d) \/ DispatcherFails(d) PROVE RunsMoveOn
    <2>1. CallTrigger(d) \/ CallFails(d) \/ DispatcherFails(d) => UNCHANGED run
      BY DEF CallTrigger, CallFails, DispatcherFails
    <2> QED
      BY <1>1, <1>2, <2>1, ClaimMoves, FinalizeMoves, SettleMoves DEF DispatcherStep
  <1>3. ASSUME NEW r \in Runs, TriggerRun(r) PROVE RunsMoveOn
    BY <1>3, TriggerMoves
  <1>4. ASSUME NEW p \in Pollers, RefreshEnds(p) \/ CancelCommits(p) PROVE RunsMoveOn
    BY <1>4, RefreshEndMoves, CancelMoves
  <1>5. ASSUME NEW a \in Approvers, DecisionEnds(a) PROVE RunsMoveOn
    BY <1>5, DecisionEndMoves
  <1>6. ASSUME NEW w \in Workers, ReceiveEvent(w) PROVE RunsMoveOn
    BY <1>6, ReceiveMoves
  <1> QED
    BY <1>1, <1>2, <1>3, <1>4, <1>5, <1>6
    DEF ProviderNext, PlatformStep, IntentLeaseRunsOut, RefreshBegins, RefreshCalls, RefreshFails,
        DecisionBegins, DecisionCalls, DecisionFails, EventNotReceived, platformVars, clientVars,
        allVars

LEMMA MarksStayTrue ==
  ASSUME PlatformInv, MarkInv, RunsMoveOn, \A r \in Runs : RunStep(r)
  PROVE  \A r \in Runs : Known(r)' => MarkIsTrue(r, run[r])'
  <1> SUFFICES ASSUME NEW r \in Runs, Known(r)', Known(r), run'[r] = run[r]
               PROVE  MarkIsTrue(r, run[r])'
    BY DEF RunsMoveOn
  <1>1. PICK p : p = run[r]
    OBVIOUS
  <1>2. p \in ProviderRun /\ MarkIsTrue(r, p)
    BY <1>1, KnownRun, KnownMark
  <1>3. MarkIsTrue(r, p)'
    BY <1>2, MarkIsKept DEF PlatformInv
  <1> QED
    BY <1>1, <1>3 DEF MarkIsTrue, MarkIsPossible, Undispatched

\* What somebody has read was in the run's latest version or is noticed to be old.
LEMMA ReadBegins ==
  ASSUME PlatformInv, UNCHANGED run, NEW r \in Runs, Known(r), run[r].bound,
         NEW x, x.at = "read", x.run = r, x.version = run[r].version
  PROVE  ReadIsRecent(x)'
  <1>1. run[r].version \in Nat
    BY KnownRun DEF ProviderRun
  <1> QED
    BY <1>1 DEF ReadIsRecent

\* The lab's answer to a call is at the end of what it has announced.
LEMMA ReadIsAnswered ==
  ASSUME PlatformInv, MarkInv, PlatformInv', UNCHANGED run,
         NEW r \in Runs, Known(r), RunStep(r), NEW y, ReadIsRecent(y), y.at = "read", y.run = r,
         NEW x, x.at = "answered", x.run = r, x.version = y.version,
         x.answer = LabView(r)'
  PROVE  ReadIsRecent(x)'
  <1>1. run[r].bound /\ x.version <= run[r].version
    BY DEF ReadIsRecent
  <1>2. run[r].seq <= Len(outbox[r]) /\ run[r].seq \in Nat
    BY KnownMark DEF MarkIsPossible
  <1>3. Len(outbox[r]) \in Nat /\ Len(outbox'[r]) \in Nat /\ Len(outbox[r]) <= Len(outbox'[r])
    BY RunFacts, LenProperties DEF PlatformInv, RunStep
  <1>4. x.answer.seq = Len(outbox'[r])
    BY DEF LabView
  <1> QED
    BY <1>1, <1>2, <1>3, <1>4 DEF ReadIsRecent

\* One poller, or one approver, becomes x; or none changes.
OnePollerReads ==
  UNCHANGED poller \/
  \E p \in Pollers : \E x : poller' = [poller EXCEPT ![p] = x] /\ ReadIsRecent(x)'
OneApproverReads ==
  UNCHANGED approver \/
  \E a \in Approvers : \E x : approver' = [approver EXCEPT ![a] = x] /\ ReadIsRecent(x)'

LEMMA IdleIsRecent == ReadIsRecent(Idle)'
  BY DEF ReadIsRecent, Idle

LEMMA PollersRead ==
  ASSUME PlatformInv, MarkInv, PlatformInv', \A r \in Runs : RunStep(r), [ProviderNext]_allVars
  PROVE  OnePollerReads
  <1>1. ASSUME NEW p \in Pollers, RefreshEnds(p) \/ CancelCommits(p) \/ RefreshFails(p)
        PROVE  OnePollerReads
    BY <1>1, IdleIsRecent DEF RefreshEnds, CancelCommits, RefreshFails, OnePollerReads
  <1>2. ASSUME NEW p \in Pollers, NEW r \in Runs, NEW cancel \in BOOLEAN, RefreshBegins(p, r, cancel)
        PROVE  OnePollerReads
    <2>1. UNCHANGED run /\ Known(r)
      BY <1>2 DEF RefreshBegins, Known
    <2>2. PICK x : /\ poller' = [poller EXCEPT ![p] = x]
                   /\ \/ /\ run[r].bound
                         /\ x = [at |-> "read", run |-> r, cancel |-> cancel, version |-> run[r].version]
                      \/ x = [at |-> "cancelling", run |-> r, version |-> run[r].version]
      BY <1>2 DEF RefreshBegins
    <2>3. CASE x.at = "read"
      <3>1. run[r].bound /\ x.run = r /\ x.version = run[r].version
        BY <2>2, <2>3
      <3>2. ReadIsRecent(x)'
        BY <2>1, <2>3, <3>1, ReadBegins
      <3> QED
        BY <2>2, <3>2 DEF OnePollerReads
    <2>4. CASE x.at = "cancelling"
      <3>1. ReadIsRecent(x)'
        BY <2>4 DEF ReadIsRecent
      <3> QED
        BY <2>2, <3>1 DEF OnePollerReads
    <2> QED
      BY <2>2, <2>3, <2>4
  <1>3. ASSUME NEW p \in Pollers, RefreshCalls(p) PROVE OnePollerReads
    <2>1. PICK r \in Runs :
            /\ r = poller[p].run
            /\ \/ poller' = [poller EXCEPT ![p] =
                    [at |-> "answered", run |-> r, version |-> @.version, answer |-> LabView(r)']]
               \/ poller' = [poller EXCEPT ![p] = Idle]
      BY <1>3 DEF RefreshCalls
    <2>2. UNCHANGED run /\ poller[p].at = "read"
      BY <1>3 DEF RefreshCalls
    <2>3. Known(r) /\ ReadIsRecent(poller[p])
      BY <2>1, <2>2, ActorFacts DEF PollerKnows, MarkInv
    <2>4. PICK v : v = LabView(r)'
      OBVIOUS
    <2>5. PICK x : x = [at |-> "answered", run |-> r, version |-> poller[p].version, answer |-> v]
      OBVIOUS
    <2>6. poller' = [poller EXCEPT ![p] = x] \/ poller' = [poller EXCEPT ![p] = Idle]
      BY <2>1, <2>4, <2>5
    <2>7. x.at = "answered" /\ x.run = r /\ x.version = poller[p].version /\ x.answer = LabView(r)'
      BY <2>4, <2>5
    <2>8. ReadIsRecent(x)'
      BY <2>1, <2>2, <2>3, <2>7, ReadIsAnswered
    <2> QED
      BY <2>6, <2>8, IdleIsRecent DEF OnePollerReads
  <1>4. CASE UNCHANGED poller
    BY <1>4 DEF OnePollerReads
  <1> QED
    BY <1>1, <1>2, <1>3, <1>4
    DEF ProviderNext, PlatformStep, TriggerRun, IntentLeaseRunsOut, DispatcherStep, ClaimTrigger,
        CallTrigger, CallFails, FinalizeTrigger, SettleTriggerFailure, DispatcherFails,
        DecisionBegins, DecisionCalls, DecisionFails, DecisionEnds, ReceiveEvent,
        EventNotReceived, platformVars, clientVars, allVars

LEMMA ApproversRead ==
  ASSUME PlatformInv, MarkInv, PlatformInv', \A r \in Runs : RunStep(r), [ProviderNext]_allVars
  PROVE  OneApproverReads
  <1>1. ASSUME NEW a \in Approvers, DecisionEnds(a) \/ DecisionFails(a)
        PROVE  OneApproverReads
    BY <1>1, IdleIsRecent DEF DecisionEnds, DecisionFails, OneApproverReads
  <1>2. ASSUME NEW a \in Approvers, NEW r \in Runs, NEW decision \in Approval,
               DecisionBegins(a, r, decision)
        PROVE  OneApproverReads
    <2>1. UNCHANGED run /\ Known(r) /\ run[r].bound
      BY <1>2 DEF DecisionBegins, CanBeDecided, Known
    <2>2. PICK x : /\ approver' = [approver EXCEPT ![a] = x]
                   /\ x = [at |-> "read", run |-> r, decision |-> decision, version |-> run[r].version]
      BY <1>2 DEF DecisionBegins
    <2>3. x.at = "read" /\ x.run = r /\ x.version = run[r].version
      BY <2>2
    <2>4. ReadIsRecent(x)'
      BY <2>1, <2>3, ReadBegins
    <2> QED
      BY <2>2, <2>4 DEF OneApproverReads
  <1>3. ASSUME NEW a \in Approvers, DecisionCalls(a) PROVE OneApproverReads
    <2>1. PICK r \in Runs :
            /\ r = approver[a].run
            /\ \/ approver' = [approver EXCEPT ![a] =
                    [at |-> "answered", run |-> r, decision |-> @.decision, version |-> @.version,
                     answer |-> LabView(r)']]
               \/ approver' = [approver EXCEPT ![a] = Idle]
      BY <1>3 DEF DecisionCalls
    <2>2. UNCHANGED run /\ approver[a].at = "read"
      BY <1>3 DEF DecisionCalls
    <2>3. Known(r) /\ ReadIsRecent(approver[a])
      BY <2>1, <2>2, ActorFacts DEF ApproverKnows, MarkInv
    <2>4. PICK v : v = LabView(r)'
      OBVIOUS
    <2>5. PICK x : x = [at |-> "answered", run |-> r, decision |-> approver[a].decision,
                        version |-> approver[a].version, answer |-> v]
      OBVIOUS
    <2>6. approver' = [approver EXCEPT ![a] = x] \/ approver' = [approver EXCEPT ![a] = Idle]
      BY <2>1, <2>4, <2>5
    <2>7. x.at = "answered" /\ x.run = r /\ x.version = approver[a].version /\ x.answer = LabView(r)'
      BY <2>4, <2>5
    <2>8. ReadIsRecent(x)'
      BY <2>1, <2>2, <2>3, <2>7, ReadIsAnswered
    <2> QED
      BY <2>6, <2>8, IdleIsRecent DEF OneApproverReads
  <1>4. CASE UNCHANGED approver
    BY <1>4 DEF OneApproverReads
  <1> QED
    BY <1>1, <1>2, <1>3, <1>4
    DEF ProviderNext, PlatformStep, TriggerRun, IntentLeaseRunsOut, DispatcherStep, ClaimTrigger,
        CallTrigger, CallFails, FinalizeTrigger, SettleTriggerFailure, DispatcherFails,
        RefreshBegins, RefreshCalls, RefreshEnds, RefreshFails, CancelCommits, ReceiveEvent,
        EventNotReceived, platformVars, clientVars, allVars

LEMMA ReadsStayRecent ==
  ASSUME PlatformInv, MarkInv, PlatformInv', RunsMoveOn, OnePollerReads, OneApproverReads
  PROVE  /\ \A p \in Pollers : ReadIsRecent(poller[p])'
         /\ \A a \in Approvers : ReadIsRecent(approver[a])'
  <1>1. \A p \in Pollers : \A y : y = poller[p] => ReadIsRecent(y)'
    <2> SUFFICES ASSUME NEW p \in Pollers, NEW y, y = poller[p] PROVE ReadIsRecent(y)'
      OBVIOUS
    <2>1. /\ y \in PollerStates /\ ReadIsRecent(y)
          /\ y.at # "idle" => y.run \in Runs /\ Known(y.run)
      BY ActorFacts, StateShapes DEF PollerKnows, MarkInv
    <2>2. y.at # "idle" => Known(y.run) /\ MovesOn(y.run)
      BY <2>1 DEF RunsMoveOn
    <2> QED
      BY <2>1, <2>2, ReadIsKept
  <1>2. \A a \in Approvers : \A y : y = approver[a] => ReadIsRecent(y)'
    <2> SUFFICES ASSUME NEW a \in Approvers, NEW y, y = approver[a] PROVE ReadIsRecent(y)'
      OBVIOUS
    <2>1. /\ y \in ApproverStates /\ ReadIsRecent(y)
          /\ y.at # "idle" => y.run \in Runs /\ Known(y.run)
      BY ActorFacts, StateShapes DEF ApproverKnows, MarkInv
    <2>2. y.at # "idle" => Known(y.run) /\ MovesOn(y.run)
      BY <2>1 DEF RunsMoveOn
    <2> QED
      BY <2>1, <2>2, ReadIsKept
  <1>3. poller \in [Pollers -> PollerStates] /\ approver \in [Approvers -> ApproverStates]
    BY DEF PlatformInv, PlatformTypes
  <1>4. \A p \in Pollers : ReadIsRecent(poller[p])'
    <2>1. CASE UNCHANGED poller
      BY <1>1, <2>1 DEF ReadIsRecent
    <2>2. ASSUME NEW q \in Pollers, NEW x, poller' = [poller EXCEPT ![q] = x], ReadIsRecent(x)'
          PROVE  \A p \in Pollers : ReadIsRecent(poller[p])'
      <3>1. \A p \in Pollers : poller'[p] = IF p = q THEN x ELSE poller[p]
        BY <1>3, <2>2
      <3>2. \A p \in Pollers : \A y : y = poller'[p] => ReadIsRecent(y)'
        BY <1>1, <2>2, <3>1
      <3> QED
        BY <3>2 DEF ReadIsRecent
    <2> QED
      BY <2>1, <2>2 DEF OnePollerReads
  <1>5. \A a \in Approvers : ReadIsRecent(approver[a])'
    <2>1. CASE UNCHANGED approver
      BY <1>2, <2>1 DEF ReadIsRecent
    <2>2. ASSUME NEW q \in Approvers, NEW x, approver' = [approver EXCEPT ![q] = x], ReadIsRecent(x)'
          PROVE  \A a \in Approvers : ReadIsRecent(approver[a])'
      <3>1. \A a \in Approvers : approver'[a] = IF a = q THEN x ELSE approver[a]
        BY <1>3, <2>2
      <3>2. \A a \in Approvers : \A y : y = approver'[a] => ReadIsRecent(y)'
        BY <1>2, <2>2, <3>1
      <3> QED
        BY <3>2 DEF ReadIsRecent
    <2> QED
      BY <2>1, <2>2 DEF OneApproverReads
  <1> QED
    BY <1>4, <1>5

\* While a cancellation is between its two steps, no other transaction runs.
LEMMA CancelsStayDue ==
  ASSUME PlatformInv, MarkInv, ~LateCancels, [ProviderNext]_allVars
  PROVE  \A p \in Pollers : CancellationIsDue(p)'
  <1>1. poller \in [Pollers -> PollerStates] /\ \A p \in Pollers : CancellationIsDue(p)
    BY DEF PlatformInv, PlatformTypes, MarkInv
  <1>2. ASSUME UNCHANGED <<run, intent>>,
               NEW P \in SUBSET Pollers,
               \A q \in Pollers : poller'[q] = IF q \in P THEN Idle ELSE poller[q]
        PROVE  \A p \in Pollers : CancellationIsDue(p)'
    <2>1. \A q \in Pollers : poller'[q].at = "cancelling" =>
            poller[q].at = "cancelling" /\ poller'[q] = poller[q]
      BY <1>2 DEF Idle
    <2>2. ASSUME NEW r PROVE CancellableHere(r)' <=> CancellableHere(r)
      BY <1>2 DEF CancellableHere
    <2> QED
      BY <1>1, <1>2, <2>1, <2>2 DEF CancellationIsDue
  <1>3. ASSUME NEW p \in Pollers, CancelCommits(p) \/ RefreshFails(p)
        PROVE  \A q \in Pollers : CancellationIsDue(q)'
    <2>1. poller' = [poller EXCEPT ![p] = Idle]
      BY <1>3 DEF CancelCommits, RefreshFails
    <2>2. \A q \in Pollers : poller'[q] = IF q \in {p} THEN Idle ELSE poller[q]
      BY <1>1, <2>1
    <2>3. CASE CancelCommits(p)
      <3>1. poller[p].at = "cancelling"
        BY <2>3 DEF CancelCommits
      <3>2. \A q \in Pollers : poller'[q].at # "cancelling"
        BY <1>1, <2>2, <3>1 DEF CancellationIsDue, Idle
      <3> QED
        BY <3>2 DEF CancellationIsDue
    <2>4. CASE RefreshFails(p)
      BY <1>2, <2>2, <2>4 DEF RefreshFails
    <2> QED
      BY <1>3, <2>3, <2>4
  <1>4. CASE UNCHANGED <<run, intent, poller>>
    <2>1. PICK P \in SUBSET Pollers : P = {}
      OBVIOUS
    <2>2. \A q \in Pollers : poller'[q] = IF q \in P THEN Idle ELSE poller[q]
      BY <1>4, <2>1
    <2> QED
      BY <1>2, <1>4, <2>2
  <1>5. CASE ~SingleProcessLock /\ PlatformStep
    <2>1. \A q \in Pollers : poller[q].at # "cancelling"
      BY <1>5 DEF SingleProcessLock
    <2>2. CASE UNCHANGED poller
      BY <2>1, <2>2 DEF CancellationIsDue
    <2>3. ASSUME NEW p \in Pollers, RefreshCalls(p) \/ RefreshEnds(p)
          PROVE  \A q \in Pollers : CancellationIsDue(q)'
      <3>1. PICK x : poller' = [poller EXCEPT ![p] = x] /\ x.at # "cancelling"
        BY <2>3 DEF RefreshCalls, RefreshEnds, Idle
      <3>2. \A q \in Pollers : poller'[q].at # "cancelling"
        BY <1>1, <2>1, <3>1
      <3> QED
        BY <3>2 DEF CancellationIsDue
    <2>4. ASSUME NEW p \in Pollers, NEW r \in Runs, NEW cancel \in BOOLEAN, RefreshBegins(p, r, cancel)
          PROVE  \A q \in Pollers : CancellationIsDue(q)'
      <3>1. PICK x : /\ poller' = [poller EXCEPT ![p] = x]
                     /\ x.at # "cancelling" \/ (CancellableHere(r) /\ x.run = r /\ x.version = run[r].version)
        BY <2>4 DEF RefreshBegins
      <3>2. UNCHANGED <<run, intent>>
        BY <2>4 DEF RefreshBegins
      <3>3. poller'[p] = x /\ \A q \in Pollers : poller'[q].at = "cancelling" => q = p
        BY <1>1, <2>1, <3>1
      <3>4. CancellableHere(r) => CancellableHere(r)'
        BY <3>2 DEF CancellableHere
      <3> QED
        BY <3>1, <3>2, <3>3, <3>4 DEF CancellationIsDue, CancellableHere
    <2> QED
      BY <1>5, <2>2, <2>3, <2>4
      DEF PlatformStep, TriggerRun, IntentLeaseRunsOut, DispatcherStep, ClaimTrigger,
          CallTrigger, CallFails, FinalizeTrigger, SettleTriggerFailure, DispatcherFails,
          DecisionBegins, DecisionCalls, DecisionFails, DecisionEnds, ReceiveEvent,
          EventNotReceived, platformVars, clientVars
  <1> QED
    BY <1>3, <1>4, <1>5 DEF ProviderNext, platformVars, clientVars, allVars

LEMMA MarkInvStep ==
  ASSUME PlatformInv, MarkInv, ~LateCancels, [ProviderNext]_allVars
  PROVE  MarkInv' /\ RunsMoveOn
  <1>1. PlatformInv' /\ (\A q \in Runs : RunStep(q)) /\ RunsMoveOn
    BY PlatformInvStep, RunsMoveOnAlways
  <1>2. OnePollerReads /\ OneApproverReads
    BY <1>1, PollersRead, ApproversRead
  <1> QED
    BY <1>1, <1>2, MarksStayTrue, ReadsStayRecent, CancelsStayDue DEF MarkInv

\* The watermark of a run is true of what the lab has announced, and nobody who
\* has read the run writes an older answer over a newer one, in a process whose
\* lock a cancellation holds between its two steps.
THEOREM MarkInvariance ==
  ASSUME ~LateCancels
  PROVE  ProviderSpec => [](PlatformInv /\ MarkInv)
  <1>1. ProviderInit => PlatformInv /\ MarkInv
    <2>1. ProviderInit => MarkInv
      BY DEF ProviderInit, MarkInv, Known, ReadIsRecent, CancellationIsDue, Idle
    <2> QED
      BY <2>1, PlatformInvInit
  <1>2. PlatformInv /\ MarkInv /\ [ProviderNext]_allVars => (PlatformInv /\ MarkInv)'
    BY PlatformInvStep, MarkInvStep
  <1> QED
    BY <1>1, <1>2, PTL DEF ProviderSpec

\* The run, its intent and the lab's announcements agree, through lost and late
\* answers, duplicates, refreshes and decisions (_apply_provider_run_snapshot,
\* _apply_webhook_snapshot, _settle_provider_trigger_failure).
THEOREM TablesHold ==
  ASSUME ~LateCancels
  PROVE  ProviderSpec => []TablesAgree
  <1>1. PlatformInv => ProviderTypeOK
    <2> SUFFICES ASSUME PlatformInv PROVE ProviderTypeOK
      OBVIOUS
    <2>1. /\ \A d \in Dispatchers : dispatcher[d].at \in {"idle", "claimed", "answered"}
          /\ \A p \in Pollers : poller[p].at \in {"idle", "read", "cancelling", "answered"}
          /\ \A a \in Approvers : approver[a].at \in {"idle", "read", "answered"}
      BY ActorFacts DEF DispatcherStates, PollerStates, ApproverStates, Idle
    <2> QED
      BY <2>1 DEF PlatformInv, PlatformTypes, LabInv, ProviderTypeOK
  <1>2. PlatformInv => IntentAndRunAgree
    BY KnownRun DEF IntentAndRunAgree, RunIsTrue, DispatchOf
  <1>3. PlatformInv /\ MarkInv => StatusMatchesWatermark
    BY RunsAssumption, KnownMark DEF StatusMatchesWatermark, MarkIsTrue, MarkIsPossible
  <1> QED
    BY <1>1, <1>2, <1>3, MarkInvariance, PTL DEF TablesAgree

\* A finished run stays as it ended (PipelineStatus: terminal states cannot
\* transition again), whatever late answer, event or cancellation arrives.
THEOREM EndStays ==
  ASSUME ~LateCancels
  PROVE  ProviderSpec => EndIsKept
  <1>1. PlatformInv /\ MarkInv /\ [ProviderNext]_allVars =>
          [\A r \in Runs : (Known(r) /\ run[r].status \in Terminal) =>
             run'[r].status = run[r].status]_allVars
    BY MarkInvStep DEF RunsMoveOn, MovesOn
  <1> QED
    BY <1>1, MarkInvariance, PTL DEF ProviderSpec, EndIsKept

=============================================================================
