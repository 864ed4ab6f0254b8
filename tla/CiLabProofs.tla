----------------------------- MODULE CiLabProofs -----------------------------
(***************************************************************************)
(* The CI Lab keeps its promises for any number of runs, workers, retries  *)
(* and clock adjustments.  A step observes runs (a request or a worker     *)
(* brings them up to date, and announces what changed) or works on         *)
(* deliveries (a worker, an operator, the end of a lease); each kind of    *)
(* step preserves the invariant for a reason of its own.                   *)
(***************************************************************************)
EXTENDS CiLab, SequenceTheorems, TLAPS

\* What is true of a run l of key r: its gate fits its definition, and it has a
\* decision exactly if the decision has ended it.
RunIsSound(r, l) ==
  /\ l.gate = "none" <=> r \notin Gated
  /\ l.gate = "waiting_approval" => l.status = "running" /\ r \notin Failing
  /\ l.status = "succeeded" /\ r \in Gated =>
       l.approval # NoApproval /\ l.approval.decision = "approve" /\ l.gate = "approved"
  /\ l.approval # NoApproval =>
       /\ r \in Gated /\ r \notin Failing
       /\ l.status = IF l.approval.decision = "approve" THEN "succeeded" ELSE "failed"

\* l is a sound run of r that what has been announced of r may lead to.
Follows(r, l) ==
  /\ l \in LabRun
  /\ RunIsSound(r, l)
  /\ Started(r) =>
       /\ Public(l) = Public(lab[r]) \/ Rank(Public(lab[r])) < Rank(Public(l))
       /\ lab[r].status \in Terminal => l = lab[r]

\* The deliveries of run r tell its life so far, and are attempted in order.
LifeIsTold(r) ==
  /\ ~(Started(r) /\ r \in Subscribed) => outbox[r] = << >>
  /\ (Started(r) /\ r \in Subscribed) =>
       outbox[r] # << >> /\ outbox[r][Len(outbox[r])].said = Public(lab[r])
  /\ \A i, j \in DOMAIN outbox[r] : i < j => Rank(outbox[r][i].said) < Rank(outbox[r][j].said)
  /\ \A i \in DOMAIN outbox[r] :
       outbox[r][i].attempts > 0 => \A j \in 1 .. i - 1 : outbox[r][j].status = "delivered"

RunInv(r) == (Started(r) => RunIsSound(r, lab[r])) /\ LifeIsTold(r)

\* A worker's claim is on a delivery there is, and no claim is newer than the
\* delivery's version.
ClaimIsKnown(w) ==
  poster[w].at = "post" =>
    /\ poster[w].seq \in DOMAIN outbox[poster[w].run]
    /\ poster[w].version <= outbox[poster[w].run][poster[w].seq].version

\* Two workers never have the same claim.
ClaimsDiffer ==
  \A v, w \in Workers :
    (/\ poster[v].at = "post" /\ poster[w].at = "post"
     /\ poster[v].run = poster[w].run /\ poster[v].seq = poster[w].seq
     /\ poster[v].version = poster[w].version) => v = w

LabInv ==
  /\ TypeOK
  /\ \A r \in Runs : RunInv(r)
  /\ \A w \in Workers : ClaimIsKnown(w)
  /\ ClaimsDiffer

-----------------------------------------------------------------------------
(* Observing a run.                                                        *)

Said == RunStatuses \cup {"waiting_approval"}

LEMMA RankOrder ==
  /\ \A s \in Said : Rank(s) \in 0 .. 3
  /\ Rank("queued") = 0 /\ Rank("running") = 1 /\ Rank("waiting_approval") = 2
  /\ \A s \in Terminal : Rank(s) = 3
  BY DEF Rank, Said, RunStatuses, Terminal

\* What the timeline makes of a run follows from what it was.
LEMMA RefreshedFollows ==
  ASSUME LabInv, NEW r \in Runs, Started(r)
  PROVE  /\ Follows(r, Refreshed(r))
         /\ Refreshed(r).approval = lab[r].approval
         /\ Held(r) => Refreshed(r) = lab[r]
  <1>1. lab[r] \in LabRun /\ RunIsSound(r, lab[r]) /\ phase[r] \in {0, 1, 2}
    BY DEF LabInv, TypeOK, RunInv, Started, QueuePhase, JobPhase, EndPhase
  <1>2. CASE Held(r)
    BY <1>1, <1>2 DEF Refreshed, Follows
  <1>3. CASE ~Held(r)
    <2> DEFINE l == Refreshed(r)
    <2>1. /\ lab[r].status \in {"queued", "running"} /\ lab[r].gate # "waiting_approval"
          /\ lab[r].approval = NoApproval
      BY <1>1, <1>3 DEF Held, LabRun, RunStatuses, RunIsSound
    <2>2. /\ l \in LabRun /\ l.approval = NoApproval
          /\ l.status \in {"queued", "running", "succeeded", "failed"}
          /\ l.gate \in {lab[r].gate, "waiting_approval", "failed"}
      BY <1>1, <1>3, <2>1
      DEF Refreshed, Timed, LabRun, RunStatuses, GateStatuses, Terminal, QueuePhase, JobPhase, EndPhase
    <2>3. RunIsSound(r, l)
      BY <1>1, <1>3, <2>1, <2>2
      DEF Refreshed, Timed, GateReached, RunIsSound, LabRun, QueuePhase, JobPhase, EndPhase
    <2>4. lab[r].status = "running" => l.status # "queued"
      BY <1>1, <1>3, <2>1 DEF Refreshed, Timed, LabRun
    <2>5. Public(l) = Public(lab[r]) \/ Rank(Public(lab[r])) < Rank(Public(l))
      <3>1. Public(lab[r]) = lab[r].status
        BY <2>1 DEF Public
      <3>2. Public(l) \in {"queued", "running", "waiting_approval", "succeeded", "failed"}
        BY <2>2 DEF Public
      <3>3. lab[r].status = "running" => Public(l) # "queued"
        BY <2>4 DEF Public
      <3> QED
        BY <2>1, <3>1, <3>2, <3>3, RankOrder DEF Terminal
    <2> QED
      BY <1>3, <2>1, <2>2, <2>3, <2>5 DEF Follows, Terminal
  <1> QED
    BY <1>2, <1>3

LEMMA FreshFollows ==
  ASSUME NEW r \in Runs, ~Started(r)
  PROVE  Follows(r, Fresh(r))
  BY DEF Follows, Fresh, RunIsSound, LabRun, RunStatuses, GateStatuses, Terminal

\* A run that the lab agrees to cancel has not been decided.
LEMMA CancelledFollows ==
  ASSUME LabInv, NEW r \in Runs, Started(r), ~CancelRefused(r)
  PROVE  Follows(r, Cancelled(r))
  <1> DEFINE l == Refreshed(r)
             c == Cancelled(r)
  <1>1. Follows(r, l) /\ (Held(r) => l = lab[r])
    BY RefreshedFollows
  <1>2. CASE l.status = "cancelled"
    BY <1>1, <1>2 DEF Cancelled
  <1>3. CASE l.status # "cancelled"
    <2>1. l \in LabRun /\ l.status \in {"queued", "running"} /\ RunIsSound(r, l)
      BY <1>1, <1>3 DEF CancelRefused, Follows, LabRun, RunStatuses, Terminal
    <2>2. l.approval = NoApproval
      BY <2>1 DEF RunIsSound
    <2>3. /\ c \in LabRun /\ c.status = "cancelled" /\ c.approval = NoApproval
          /\ c.gate = IF l.gate = "none" THEN "none" ELSE "cancelled"
      BY <1>3, <2>1, <2>2 DEF Cancelled, LabRun, RunStatuses, GateStatuses, Terminal
    <2>4. RunIsSound(r, c)
      BY <2>1, <2>3 DEF RunIsSound
    <2>5. lab[r].status \notin Terminal
      BY <1>1, <2>1 DEF Held, Terminal
    <2>6. Rank(Public(lab[r])) < Rank(Public(c))
      <3>1. Public(c) = "cancelled"
        BY <2>3 DEF Public
      <3>2. Public(lab[r]) \in {"queued", "running", "waiting_approval"}
        BY <2>5 DEF Public, LabInv, TypeOK, Started, LabRun, RunStatuses
      <3> QED
        BY <3>1, <3>2, RankOrder DEF Terminal
    <2> QED
      BY <2>3, <2>4, <2>5, <2>6 DEF Follows
  <1> QED
    BY <1>2, <1>3

\* A decision finds the gate waiting, or is the one that was made.
LEMMA DecidedFollows ==
  ASSUME LabInv, NEW r \in Runs, Started(r), NEW decision \in Approval,
         DecisionAccepted(r, decision)
  PROVE  Follows(r, Decided(r, decision))
  <1> DEFINE l == Refreshed(r)
             d == Decided(r, decision)
  <1>1. Follows(r, l) /\ (Held(r) => l = lab[r]) /\ l.approval = lab[r].approval
    BY RefreshedFollows
  <1>2. CASE lab[r].approval = decision
    BY <1>1, <1>2 DEF Decided
  <1>3. CASE lab[r].approval # decision
    <2>1. lab[r].approval = NoApproval /\ l.gate = "waiting_approval"
      BY <1>3 DEF DecisionAccepted
    <2>2. /\ l \in LabRun /\ RunIsSound(r, l) /\ l.status = "running"
          /\ r \in Gated /\ r \notin Failing
      BY <1>1, <2>1 DEF Follows, RunIsSound
    <2>3. decision # NoApproval /\ decision.decision \in {"approve", "reject"}
      BY AbsenceAssumption DEF Approval, Decisions
    <2>4. /\ d \in LabRun /\ d.approval = decision
          /\ d.status = IF decision.decision = "approve" THEN "succeeded" ELSE "failed"
          /\ d.gate = IF decision.decision = "approve" THEN "approved" ELSE "rejected"
      BY <1>3, <2>2, <2>3 DEF Decided, LabRun, RunStatuses, GateStatuses, Terminal
    <2>5. RunIsSound(r, d)
      BY <2>2, <2>3, <2>4 DEF RunIsSound
    <2>6. lab[r].status \notin Terminal
      BY <1>1, <2>2 DEF Held, Terminal
    <2>7. Rank(Public(lab[r])) < Rank(Public(d))
      <3>1. Public(d) \in {"succeeded", "failed"}
        BY <2>4 DEF Public
      <3>2. Public(lab[r]) \in {"queued", "running", "waiting_approval"}
        BY <2>6 DEF Public, LabInv, TypeOK, Started, LabRun, RunStatuses
      <3> QED
        BY <3>1, <3>2, RankOrder DEF Terminal
    <2> QED
      BY <2>4, <2>5, <2>6, <2>7 DEF Follows
  <1> QED
    BY <1>2, <1>3

-----------------------------------------------------------------------------
(* Announcing what was observed.                                           *)

\* In this step, run r is left alone, or brought to a run that follows from it
\* and announced.
Observed(r) ==
  \/ lab'[r] = lab[r] /\ outbox'[r] = outbox[r]
  \/ Follows(r, lab'[r]) /\ outbox'[r] = Notified(r, lab'[r])

\* An announcement is added at the end, if there is something new to tell.
LEMMA NotifiedShape ==
  ASSUME LabInv, NEW r \in Runs, NEW l \in LabRun
  PROVE  /\ Notified(r, l) \in Seq(Delivery)
         /\ \/ /\ Notified(r, l) = outbox[r]
               /\ r \in Subscribed => outbox[r] # << >> /\ outbox[r][Len(outbox[r])].said = Public(l)
            \/ /\ r \in Subscribed
               /\ outbox[r] # << >> => outbox[r][Len(outbox[r])].said # Public(l)
               /\ Len(Notified(r, l)) = Len(outbox[r]) + 1
               /\ \A i \in 1 .. Len(outbox[r]) : Notified(r, l)[i] = outbox[r][i]
               /\ Notified(r, l)[Len(outbox[r]) + 1] = NewDelivery(Public(l))
  <1>1. outbox[r] \in Seq(Delivery)
    BY DEF LabInv, TypeOK
  <1>2. NewDelivery(Public(l)) \in Delivery
    BY DEF NewDelivery, Public, Delivery, LabRun, DeliveryStatuses
  <1>3. CASE r \in Subscribed /\ (outbox[r] = << >> \/ outbox[r][Len(outbox[r])].said # Public(l))
    BY <1>1, <1>2, <1>3, AppendProperties DEF Notified
  <1>4. CASE ~(r \in Subscribed /\ (outbox[r] = << >> \/ outbox[r][Len(outbox[r])].said # Public(l)))
    BY <1>1, <1>4 DEF Notified
  <1> QED
    BY <1>3, <1>4

\* What every step does to a run: it stays, and stays sound, an end stays, and none of its
\* deliveries is lost, says something else or goes back to an earlier version.
RunStep(r) ==
  /\ lab'[r] \in LabRun \cup {NoRun}
  /\ outbox'[r] \in Seq(Delivery)
  /\ \A i \in DOMAIN outbox'[r] : outbox'[r][i].live => outbox'[r][i].status = "claimed"
  /\ RunInv(r)'
  /\ Len(outbox[r]) <= Len(outbox'[r])
  /\ \A i \in 1 .. Len(outbox[r]) :
       outbox[r][i].version <= outbox'[r][i].version /\ outbox'[r][i].said = outbox[r][i].said
  /\ (Started(r) /\ lab[r].status \in Terminal) => lab'[r] = lab[r]
  /\ Started(r) => Started(r)'

LEMMA RunFacts ==
  ASSUME LabInv, NEW r \in Runs
  PROVE  /\ outbox[r] \in Seq(Delivery) /\ Len(outbox[r]) \in Nat
         /\ DOMAIN outbox[r] = 1 .. Len(outbox[r])
         /\ \A i \in 1 .. Len(outbox[r]) : outbox[r][i] \in Delivery
         /\ \A i \in 1 .. Len(outbox[r]) : outbox[r][i].live => outbox[r][i].status = "claimed"
         /\ lab[r] \in LabRun \cup {NoRun}
         /\ RunInv(r)
  BY LenProperties, ElementOfSeq DEF LabInv, TypeOK

\* The positions of a sequence are positions of a longer one, and <= chains.
LEMMA PositionsGrow ==
  ASSUME NEW m \in Nat, NEW n \in Nat, m <= n, NEW i \in 1 .. m
  PROVE  i \in 1 .. n
  OBVIOUS

LEMMA VersionsChain ==
  ASSUME NEW a \in Nat, NEW b \in Nat, NEW c \in Nat, a <= b, b <= c
  PROVE  a <= c
  OBVIOUS

LEMMA ObservedIsARunStep ==
  ASSUME LabInv, NEW r \in Runs, Observed(r)
  PROVE  RunStep(r)
  <1> USE RunFacts
  <1>1. CASE lab'[r] = lab[r] /\ outbox'[r] = outbox[r]
    <2>1. RunInv(r)'
      BY <1>1 DEF RunInv, LifeIsTold, Started, RunIsSound
    <2>2. \A i \in 1 .. Len(outbox[r]) : outbox[r][i].version \in Nat
      BY DEF Delivery
    <2> QED
      BY <1>1, <2>1, <2>2 DEF RunStep, Started
  <1>2. CASE Follows(r, lab'[r]) /\ outbox'[r] = Notified(r, lab'[r])
    <2> DEFINE o == outbox[r]
               n == outbox'[r]
    <2>1. lab'[r] \in LabRun /\ lab'[r] # NoRun /\ RunIsSound(r, lab'[r])
      BY <1>2, AbsenceAssumption DEF Follows
    <2>2. n \in Seq(Delivery) /\ Len(n) \in Nat /\ DOMAIN n = 1 .. Len(n)
      BY <1>2, <2>1, NotifiedShape, LenProperties
    <2>3. \/ n = o /\ (r \in Subscribed => o # << >> /\ o[Len(o)].said = Public(lab'[r]))
          \/ /\ r \in Subscribed
             /\ o # << >> => o[Len(o)].said # Public(lab'[r])
             /\ Len(n) = Len(o) + 1
             /\ \A i \in 1 .. Len(o) : n[i] = o[i]
             /\ n[Len(o) + 1] = NewDelivery(Public(lab'[r]))
      BY <1>2, <2>1, NotifiedShape
    <2>4. \A i \in 1 .. Len(o) : n[i] = o[i]
      BY <2>3
    <2>5. \A i \in 1 .. Len(n) : i \in 1 .. Len(o) \/ (i = Len(o) + 1 /\ Len(n) = Len(o) + 1)
      BY <2>2, <2>3
    <2>6. /\ Len(o) <= Len(n)
          /\ \A i \in 1 .. Len(o) : o[i].version <= n[i].version /\ n[i].said = o[i].said
      <3>1. o \in Seq(Delivery) /\ Len(o) \in Nat
        BY LenProperties, RunFacts
      <3>2. \A i \in 1 .. Len(o) : o[i].version \in Nat
        BY <3>1, ElementOfSeq DEF Delivery
      <3>3. Len(o) <= Len(n)
        BY <2>3, <3>1
      <3> QED
        BY <2>4, <3>2, <3>3
    <2>7. \A i \in 1 .. Len(n) : n[i].live => n[i].status = "claimed"
      BY <2>3, <2>4, <2>5 DEF NewDelivery
    <2>8. LifeIsTold(r)'
      <3>1. ~(lab'[r] # NoRun /\ r \in Subscribed) => n = << >>
        BY <2>1, <2>3 DEF RunInv, LifeIsTold
      <3>2. r \in Subscribed => n # << >> /\ n[Len(n)].said = Public(lab'[r])
        BY <2>2, <2>3 DEF NewDelivery
      <3>3. \A i, j \in 1 .. Len(n) : i < j => Rank(n[i].said) < Rank(n[j].said)
        <4> SUFFICES ASSUME NEW i \in 1 .. Len(n), NEW j \in 1 .. Len(n), i < j
                     PROVE  Rank(n[i].said) < Rank(n[j].said)
          OBVIOUS
        <4>1. CASE j \in 1 .. Len(o)
          BY <2>4, <4>1 DEF RunInv, LifeIsTold
        <4>2. CASE j \notin 1 .. Len(o)
          <5>1. /\ j = Len(o) + 1 /\ Len(n) = Len(o) + 1 /\ i \in 1 .. Len(o)
                /\ n[j].said = Public(lab'[r]) /\ n[i] = o[i] /\ o # << >>
                /\ o[Len(o)].said # Public(lab'[r])
            BY <2>2, <2>3, <2>5, <4>2, EmptySeq DEF NewDelivery
          <5>2. Started(r) /\ o[Len(o)].said = Public(lab[r])
            BY <5>1 DEF RunInv, LifeIsTold
          <5>3. Rank(Public(lab[r])) < Rank(Public(lab'[r]))
            BY <1>2, <5>1, <5>2 DEF Follows
          <5>4. i = Len(o) \/ Rank(o[i].said) < Rank(o[Len(o)].said)
            BY <5>1 DEF RunInv, LifeIsTold
          <5>5. /\ Rank(o[i].said) \in Int /\ Rank(Public(lab[r])) \in Int
                /\ Rank(Public(lab'[r])) \in Int
            <6>1. o[i].said \in Said
              BY <5>1 DEF Delivery, Said
            <6>2. Public(lab[r]) \in Said /\ Public(lab'[r]) \in Said
              BY <2>1, <5>2 DEF Public, Started, LabRun, Said
            <6> QED
              BY <6>1, <6>2, RankOrder
          <5> QED
            BY <5>1, <5>2, <5>3, <5>4, <5>5
        <4> QED
          BY <4>1, <4>2
      <3>4. \A i \in 1 .. Len(n) : n[i].attempts > 0 => \A j \in 1 .. i - 1 : n[j].status = "delivered"
        <4> SUFFICES ASSUME NEW i \in 1 .. Len(n), n[i].attempts > 0, NEW j \in 1 .. i - 1
                     PROVE  n[j].status = "delivered"
          OBVIOUS
        <4>1. i \in 1 .. Len(o)
          BY <2>3, <2>5 DEF NewDelivery
        <4>2. j \in 1 .. Len(o)
          BY <4>1
        <4> QED
          BY <2>4, <4>1, <4>2 DEF RunInv, LifeIsTold
      <3> QED
        BY <2>1, <2>2, <3>1, <3>2, <3>3, <3>4 DEF LifeIsTold, Started
    <2>9. RunInv(r)'
      BY <2>1, <2>8 DEF RunInv, RunIsSound
    <2>10. (Started(r) /\ lab[r].status \in Terminal) => lab'[r] = lab[r]
      BY <1>2 DEF Follows
    <2> QED
      BY <2>1, <2>2, <2>6, <2>7, <2>9, <2>10 DEF RunStep, Started
  <1> QED
    BY <1>1, <1>2 DEF Observed

-----------------------------------------------------------------------------
(* Working on deliveries.                                                  *)

\* e is what a step of the worker's may make of delivery i of sequence o.
MayBecome(o, i, e) ==
  /\ e \in Delivery
  /\ e.live => e.status = "claimed"
  /\ e.said = o[i].said
  /\ o[i].version <= e.version
  /\ o[i].status = "delivered" => e.status = "delivered"
  /\ e.attempts > 0 => o[i].attempts > 0 \/ \A j \in 1 .. i - 1 : o[j].status = "delivered"

\* In this step, the deliveries of run r are worked on.
Worked(r) ==
  /\ lab'[r] = lab[r]
  /\ outbox'[r] \in Seq(Delivery) /\ Len(outbox'[r]) = Len(outbox[r])
  /\ \A i \in 1 .. Len(outbox[r]) : MayBecome(outbox[r], i, outbox'[r][i])

LEMMA WorkedIsARunStep ==
  ASSUME LabInv, NEW r \in Runs, Worked(r)
  PROVE  RunStep(r)
  <1> DEFINE o == outbox[r]
             n == outbox'[r]
  <1> USE RunFacts
  <1>1. /\ lab'[r] = lab[r] /\ n \in Seq(Delivery) /\ Len(n) = Len(o)
        /\ DOMAIN n = 1 .. Len(o) /\ DOMAIN o = 1 .. Len(o)
        /\ \A i \in 1 .. Len(o) : MayBecome(o, i, n[i])
    BY LenProperties DEF Worked
  <1>2. o = << >> => n = << >>
    BY <1>1, EmptySeq, SeqEqual
  <1>3. o # << >> => n # << >> /\ Len(o) \in 1 .. Len(o)
    BY <1>1, EmptySeq, SeqEqual
  <1>4. LifeIsTold(r)'
    <2>1. ~(Started(r) /\ r \in Subscribed) => n = << >>
      BY <1>2 DEF RunInv, LifeIsTold
    <2>2. (Started(r) /\ r \in Subscribed) => n # << >> /\ n[Len(n)].said = Public(lab[r])
      BY <1>1, <1>3 DEF RunInv, LifeIsTold, MayBecome
    <2>3. \A i, j \in 1 .. Len(o) : i < j => Rank(n[i].said) < Rank(n[j].said)
      BY <1>1 DEF RunInv, LifeIsTold, MayBecome
    <2>4. \A i \in 1 .. Len(o) : n[i].attempts > 0 => \A j \in 1 .. i - 1 : n[j].status = "delivered"
      <3> SUFFICES ASSUME NEW i \in 1 .. Len(o), n[i].attempts > 0, NEW j \in 1 .. i - 1
                   PROVE  n[j].status = "delivered"
        OBVIOUS
      <3>1. j \in 1 .. Len(o)
        OBVIOUS
      <3>2. o[j].status = "delivered"
        BY <1>1 DEF MayBecome, RunInv, LifeIsTold
      <3> QED
        BY <1>1, <3>1, <3>2 DEF MayBecome
    <2> QED
      BY <1>1, <2>1, <2>2, <2>3, <2>4 DEF LifeIsTold, Started
  <1>5. RunInv(r)'
    BY <1>1, <1>4 DEF RunInv, RunIsSound, Started
  <1> QED
    BY <1>1, <1>5 DEF RunStep, MayBecome, Started

\* The pieces of work there are.
LEMMA WorkOnADelivery ==
  ASSUME LabInv, NEW r \in Runs, NEW i \in 1 .. Len(outbox[r])
  PROVE  LET d == outbox[r][i]
         IN  /\ MayBecome(outbox[r], i, d)
             /\ MayBecome(outbox[r], i, Buried(d))
             /\ d.status # "delivered" => MayBecome(outbox[r], i, [d EXCEPT !.live = FALSE])
             /\ d.status = "claimed" =>
                  \A outcome \in Outcomes : MayBecome(outbox[r], i, SettledDelivery(d, outcome))
             /\ d.status = "dead_letter" =>
                MayBecome(outbox[r], i, Revived(d))
  <1> DEFINE o == outbox[r]
             d == outbox[r][i]
             released == [d EXCEPT !.live = FALSE]
             settled(outcome) == SettledDelivery(d, outcome)
             revived == Revived(d)
  <1>1. d \in Delivery /\ (d.live => d.status = "claimed")
    BY RunFacts
  <1>2. /\ d.version \in Nat /\ d.version + 1 \in Nat /\ d.attempts \in Nat
        /\ d.version <= d.version + 1 /\ d.version <= d.version
    BY <1>1 DEF Delivery
  <1>3. MayBecome(o, i, d)
    BY <1>1, <1>2 DEF MayBecome
  <1>4. MayBecome(o, i, Buried(d))
    <2>1. CASE Exhausted(d)
      <3> DEFINE b == Buried(d)
      <3>1. /\ b \in Delivery /\ b.live = FALSE /\ b.said = d.said /\ b.version = d.version + 1
            /\ b.attempts = d.attempts
        BY <1>1, <1>2, <2>1 DEF Buried, Delivery, DeliveryStatuses
      <3>2. d.status # "delivered"
        BY <2>1 DEF Exhausted, LeaseOver
      <3> HIDE DEF b
      <3> QED
        BY <1>2, <3>1, <3>2 DEF MayBecome, b
    <2>2. CASE ~Exhausted(d)
      BY <1>3, <2>2 DEF Buried
    <2> QED
      BY <2>1, <2>2
  <1>5. d.status # "delivered" => MayBecome(o, i, released)
    <2>1. /\ released \in Delivery /\ released.live = FALSE /\ released.said = d.said
          /\ released.version = d.version /\ released.attempts = d.attempts
      BY <1>1 DEF Delivery
    <2> HIDE DEF released
    <2> QED
      BY <1>2, <2>1 DEF MayBecome
  <1>6. ASSUME d.status = "claimed", NEW outcome \in Outcomes
        PROVE  MayBecome(o, i, settled(outcome))
    <2> DEFINE e == settled(outcome)
    <2>1. /\ e \in Delivery /\ e.live = FALSE /\ e.said = d.said
          /\ e.version = d.version + 1 /\ e.attempts = d.attempts
      BY <1>1, <1>2 DEF SettledDelivery, Delivery, DeliveryStatuses
    <2> HIDE DEF e
    <2>2. MayBecome(o, i, e)
      BY <1>2, <1>6, <2>1 DEF MayBecome
    <2> QED
      BY <2>2 DEF e
  <1>7. d.status = "dead_letter" => MayBecome(o, i, revived)
    <2>1. /\ revived \in Delivery /\ revived.live = d.live /\ revived.said = d.said
          /\ revived.version = d.version + 1 /\ revived.attempts = 0
      BY <1>1, <1>2 DEF Revived, Delivery, DeliveryStatuses
    <2> HIDE DEF revived
    <2> QED
      BY <1>1, <1>2, <2>1 DEF MayBecome
  <1> QED
    BY <1>3, <1>4, <1>5, <1>6, <1>7

\* One delivery of run r becomes e.
LEMMA OneIsWorkedOn ==
  ASSUME LabInv, NEW r \in Runs, NEW i \in 1 .. Len(outbox[r]), NEW e \in Delivery,
         MayBecome(outbox[r], i, e),
         outbox' = [outbox EXCEPT ![r][i] = e], lab' = lab
  PROVE  \A q \in Runs : Worked(q)
  <1>1. outbox \in [Runs -> Seq(Delivery)]
    BY DEF LabInv, TypeOK
  <1>2. ASSUME NEW q \in Runs PROVE Worked(q)
    <2>1. CASE q = r
      <3>1. outbox'[r] = [outbox[r] EXCEPT ![i] = e]
        BY <1>1
      <3>2. /\ outbox'[r] \in Seq(Delivery) /\ Len(outbox'[r]) = Len(outbox[r])
            /\ \A j \in 1 .. Len(outbox[r]) : outbox'[r][j] = IF j = i THEN e ELSE outbox[r][j]
        BY <1>1, <3>1, ExceptSeq
      <3>3. \A j \in 1 .. Len(outbox[r]) : MayBecome(outbox[r], j, outbox'[r][j])
        BY <3>2, WorkOnADelivery
      <3> QED
        BY <2>1, <3>2, <3>3 DEF Worked
    <2>2. CASE q # r
      <3>1. outbox'[q] = outbox[q]
        BY <1>1, <2>2
      <3>2. \A j \in 1 .. Len(outbox[q]) : MayBecome(outbox[q], j, outbox[q][j])
        BY WorkOnADelivery
      <3> QED
        BY <1>1, <3>1, <3>2 DEF Worked
    <2> QED
      BY <2>1, <2>2
  <1> QED
    BY <1>2

-----------------------------------------------------------------------------
(* The workers' claims.                                                    *)

\* In this step no worker claims a delivery.
NoNewClaim ==
  /\ poster' \in [Workers -> Posting \cup {Resting, Polling}]
  /\ \A w \in Workers : poster'[w].at = "post" =>
       /\ poster[w].at = "post"
       /\ poster'[w].run = poster[w].run /\ poster'[w].seq = poster[w].seq
       /\ poster'[w].version = poster[w].version

LEMMA ClaimFacts ==
  ASSUME LabInv, NEW w \in Workers, poster[w].at = "post"
  PROVE  /\ poster[w] \in Posting /\ poster[w].run \in Runs
         /\ poster[w].seq \in 1 .. Len(outbox[poster[w].run])
         /\ poster[w].version \in Nat
         /\ poster[w].version <= outbox[poster[w].run][poster[w].seq].version
  <1>1. poster[w] \in Posting
    BY DEF LabInv, TypeOK, Resting, Polling
  <1>2. poster[w].run \in Runs /\ poster[w].version \in Nat
    BY <1>1 DEF Posting
  <1> QED
    BY <1>1, <1>2, RunFacts DEF LabInv, ClaimIsKnown

\* A step of the runs that makes no claim keeps the claims in order.
LEMMA ClaimsStay ==
  ASSUME LabInv, \A r \in Runs : RunStep(r), NoNewClaim
  PROVE  (\A w \in Workers : ClaimIsKnown(w))' /\ ClaimsDiffer'
  <1>1. ASSUME NEW w \in Workers, poster'[w].at = "post"
        PROVE  /\ poster'[w].seq \in DOMAIN outbox'[poster'[w].run]
               /\ poster'[w].version <= outbox'[poster'[w].run][poster'[w].seq].version
    <2> DEFINE r == poster[w].run
               i == poster[w].seq
    <2>1. poster[w].at = "post" /\ poster'[w].run = r /\ poster'[w].seq = i
          /\ poster'[w].version = poster[w].version
      BY <1>1 DEF NoNewClaim
    <2>2. r \in Runs /\ i \in 1 .. Len(outbox[r]) /\ poster[w].version \in Nat
          /\ poster[w].version <= outbox[r][i].version
      BY <2>1, ClaimFacts
    <2>3. /\ outbox'[r] \in Seq(Delivery) /\ Len(outbox[r]) <= Len(outbox'[r])
          /\ outbox[r][i].version <= outbox'[r][i].version
      BY <2>2 DEF RunStep
    <2>4. Len(outbox[r]) \in Nat /\ Len(outbox'[r]) \in Nat /\ DOMAIN outbox'[r] = 1 .. Len(outbox'[r])
      BY <2>2, <2>3, LenProperties, RunFacts
    <2>5. i \in 1 .. Len(outbox'[r])
      BY <2>2, <2>3, <2>4, PositionsGrow
    <2>6. outbox'[r][i] \in Delivery /\ outbox[r][i] \in Delivery
      BY <2>2, <2>3, <2>5, ElementOfSeq, RunFacts
    <2>7. outbox'[r][i].version \in Nat /\ outbox[r][i].version \in Nat
      BY <2>6 DEF Delivery
    <2>8. poster[w].version <= outbox'[r][i].version
      BY <2>2, <2>3, <2>7, VersionsChain
    <2> QED
      BY <2>1, <2>4, <2>5, <2>8
  <1>2. ClaimsDiffer'
    BY DEF LabInv, ClaimsDiffer, NoNewClaim
  <1> QED
    BY <1>1, <1>2 DEF ClaimIsKnown

LEMMA RunsStepKeepsInv ==
  ASSUME LabInv, \A r \in Runs : RunStep(r),
         lab' \in [Runs -> LabRun \cup {NoRun}], outbox' \in [Runs -> Seq(Delivery)],
         phase' \in [Runs -> {QueuePhase, JobPhase, EndPhase}],
         interventions' \in 0 .. MaxInterventions,
         poster' \in [Workers -> Posting \cup {Resting, Polling}],
         (\A w \in Workers : ClaimIsKnown(w))', ClaimsDiffer'
  PROVE  LabInv'
  <1>1. TypeOK'
    BY DEF RunStep, TypeOK
  <1>2. (\A r \in Runs : RunInv(r))'
    BY DEF RunStep
  <1> QED
    BY <1>1, <1>2 DEF LabInv

-----------------------------------------------------------------------------
(* The steps.                                                              *)

LEMMA QuietStep ==
  ASSUME LabInv, NoNewClaim, UNCHANGED <<lab, outbox>>,
         phase' \in [Runs -> {QueuePhase, JobPhase, EndPhase}],
         interventions' \in 0 .. MaxInterventions
  PROVE  LabInv' /\ \A r \in Runs : RunStep(r)
  <1>1. \A r \in Runs : RunStep(r)
    BY ObservedIsARunStep DEF Observed
  <1>2. (\A w \in Workers : ClaimIsKnown(w))' /\ ClaimsDiffer'
    BY <1>1, ClaimsStay
  <1>3. /\ lab' \in [Runs -> LabRun \cup {NoRun}] /\ outbox' \in [Runs -> Seq(Delivery)]
        /\ poster' \in [Workers -> Posting \cup {Resting, Polling}]
    BY DEF LabInv, TypeOK, NoNewClaim
  <1> QED
    BY <1>1, <1>2, <1>3, RunsStepKeepsInv

LEMMA ObservingStep ==
  ASSUME LabInv, NoNewClaim, UNCHANGED <<phase, interventions>>,
         lab' \in [Runs -> LabRun \cup {NoRun}], outbox' \in [Runs -> Seq(Delivery)],
         \A r \in Runs : Observed(r)
  PROVE  LabInv' /\ \A r \in Runs : RunStep(r)
  <1>1. \A r \in Runs : RunStep(r)
    BY ObservedIsARunStep
  <1>2. (\A w \in Workers : ClaimIsKnown(w))' /\ ClaimsDiffer'
    BY <1>1, ClaimsStay
  <1>3. /\ phase' \in [Runs -> {QueuePhase, JobPhase, EndPhase}]
        /\ interventions' \in 0 .. MaxInterventions
        /\ poster' \in [Workers -> Posting \cup {Resting, Polling}]
    BY DEF LabInv, TypeOK, NoNewClaim
  <1> QED
    BY <1>1, <1>2, <1>3, RunsStepKeepsInv

LEMMA WorkingStep ==
  ASSUME LabInv, NoNewClaim, UNCHANGED <<lab, phase>>,
         outbox' \in [Runs -> Seq(Delivery)], \A r \in Runs : Worked(r),
         interventions' \in 0 .. MaxInterventions
  PROVE  LabInv' /\ \A r \in Runs : RunStep(r)
  <1>1. \A r \in Runs : RunStep(r)
    BY WorkedIsARunStep
  <1>2. (\A w \in Workers : ClaimIsKnown(w))' /\ ClaimsDiffer'
    BY <1>1, ClaimsStay
  <1>3. /\ phase' \in [Runs -> {QueuePhase, JobPhase, EndPhase}]
        /\ lab' \in [Runs -> LabRun \cup {NoRun}]
        /\ poster' \in [Workers -> Posting \cup {Resting, Polling}]
    BY DEF LabInv, TypeOK, NoNewClaim
  <1> QED
    BY <1>1, <1>2, <1>3, RunsStepKeepsInv

\* A worker that stops or goes on makes no claim, nor does an idle one.
LEMMA NoClaimByOthers ==
  ASSUME LabInv
  PROVE  /\ UNCHANGED poster => NoNewClaim
         /\ \A w \in Workers : poster' = [poster EXCEPT ![w] = Resting] => NoNewClaim
         /\ \A w \in Workers : poster' = [poster EXCEPT ![w] = Polling] => NoNewClaim
         /\ \A w \in Workers : PostAnswered(w) => NoNewClaim
  <1>1. poster \in [Workers -> Posting \cup {Resting, Polling}]
    BY DEF LabInv, TypeOK
  <1>2. UNCHANGED poster => NoNewClaim
    BY <1>1 DEF NoNewClaim
  <1>3. ASSUME NEW w \in Workers, poster' = [poster EXCEPT ![w] = Resting] PROVE NoNewClaim
    BY <1>1, <1>3 DEF NoNewClaim, Resting
  <1>4. ASSUME NEW w \in Workers, poster' = [poster EXCEPT ![w] = Polling] PROVE NoNewClaim
    BY <1>1, <1>4 DEF NoNewClaim, Polling
  <1>5. ASSUME NEW w \in Workers, PostAnswered(w) PROVE NoNewClaim
    <2>1. PICK outcome \in Outcomes : poster' = [poster EXCEPT ![w].outcome = outcome]
      BY <1>5 DEF PostAnswered, Posted
    <2>2. poster[w] \in Posting
      BY <1>1, <1>5 DEF PostAnswered, Unsent, Resting, Polling
    <2>3. [poster[w] EXCEPT !.outcome = outcome] \in Posting
      BY <2>2 DEF Posting
    <2> QED
      BY <1>1, <2>1, <2>2, <2>3 DEF NoNewClaim, Posting
  <1> QED
    BY <1>2, <1>3, <1>4, <1>5

\* Run r, and no other, is brought to l.
LEMMA BecomesIsObserving ==
  ASSUME LabInv, NEW r \in Runs, NEW l, Follows(r, l), Becomes(r, l)
  PROVE  /\ lab' \in [Runs -> LabRun \cup {NoRun}] /\ outbox' \in [Runs -> Seq(Delivery)]
         /\ \A q \in Runs : Observed(q)
  <1>1. lab \in [Runs -> LabRun \cup {NoRun}] /\ outbox \in [Runs -> Seq(Delivery)]
    BY DEF LabInv, TypeOK
  <1>2. l \in LabRun
    BY DEF Follows
  <1>3. Notified(r, l) \in Seq(Delivery)
    BY <1>2, NotifiedShape
  <1>4. lab' = [lab EXCEPT ![r] = l] /\ outbox' = [outbox EXCEPT ![r] = Notified(r, l)]
    BY DEF Becomes
  <1>5. Observed(r)
    BY <1>1, <1>4 DEF Observed
  <1>6. \A q \in Runs \ {r} : Observed(q)
    BY <1>1, <1>4 DEF Observed
  <1> QED
    BY <1>1, <1>2, <1>3, <1>4, <1>5, <1>6

LEMMA RequestStep ==
  ASSUME LabInv, NEW r \in Runs, Request(r)
  PROVE  LabInv' /\ \A q \in Runs : RunStep(q)
  <1>1. NoNewClaim /\ UNCHANGED <<phase, interventions>>
    BY NoClaimByOthers DEF Request
  <1>2. PICK l : Follows(r, l) /\ Becomes(r, l)
    <2>1. CASE LabTrigger(r)
      BY <2>1, RefreshedFollows, FreshFollows DEF LabTrigger
    <2>2. CASE LabGet(r)
      BY <2>2, RefreshedFollows DEF LabGet
    <2>3. CASE LabCancel(r)
      BY <2>3, CancelledFollows DEF LabCancel
    <2>4. CASE \E decision \in Approval : LabDecide(r, decision)
      BY <2>4, DecidedFollows DEF LabDecide
    <2> QED
      BY <2>1, <2>2, <2>3, <2>4 DEF Request
  <1> QED
    BY <1>1, <1>2, BecomesIsObserving, ObservingStep

LEMMA AdvanceStep ==
  ASSUME LabInv, NEW w \in Workers, Advance(w)
  PROVE  LabInv' /\ \A q \in Runs : RunStep(q)
  <1>1. NoNewClaim /\ UNCHANGED <<phase, interventions>>
    BY NoClaimByOthers DEF Advance
  <1>2. ASSUME NEW r \in Runs
        PROVE  /\ Observed(r) /\ lab'[r] \in LabRun \cup {NoRun}
               /\ outbox'[r] \in Seq(Delivery)
    <2>1. CASE r \in ToAdvance
      <3>1. Follows(r, Refreshed(r))
        BY <2>1, RefreshedFollows DEF ToAdvance
      <3>2. lab'[r] = Refreshed(r) /\ outbox'[r] = Notified(r, Refreshed(r))
        BY <2>1 DEF Advance
      <3>3. Refreshed(r) \in LabRun
        BY <3>1 DEF Follows
      <3> QED
        BY <3>1, <3>2, <3>3, NotifiedShape DEF Observed
    <2>2. CASE r \notin ToAdvance
      BY <2>2, RunFacts DEF Advance, Observed
    <2> QED
      BY <2>1, <2>2
  <1>3. lab' \in [Runs -> LabRun \cup {NoRun}] /\ outbox' \in [Runs -> Seq(Delivery)]
    <2>1. /\ lab' = [r \in Runs |-> lab'[r]]
          /\ outbox' = [r \in Runs |-> outbox'[r]]
      BY DEF Advance
    <2> QED
      BY <1>2, <2>1
  <1> QED
    BY <1>1, <1>2, <1>3, ObservingStep

\* Dead workers' final attempts are buried before a worker claims.
LEMMA BurialsAreWork ==
  ASSUME LabInv, NEW r \in Runs
  PROVE  /\ AfterBurials[r] \in Seq(Delivery) /\ Len(AfterBurials[r]) = Len(outbox[r])
         /\ DOMAIN AfterBurials[r] = 1 .. Len(outbox[r])
         /\ \A i \in 1 .. Len(outbox[r]) :
              /\ AfterBurials[r][i] = Buried(outbox[r][i])
              /\ MayBecome(outbox[r], i, AfterBurials[r][i])
  <1> DEFINE o == AfterBurials[r]
             n == Len(outbox[r])
  <1>1. n \in Nat /\ DOMAIN outbox[r] = 1 .. n
    BY RunFacts
  <1>2. o = [i \in 1 .. n |-> Buried(outbox[r][i])]
    BY <1>1 DEF AfterBurials
  <1>3. ASSUME NEW i \in 1 .. n PROVE MayBecome(outbox[r], i, o[i]) /\ o[i] \in Delivery
    <2>1. MayBecome(outbox[r], i, Buried(outbox[r][i]))
      BY WorkOnADelivery
    <2>2. o[i] = Buried(outbox[r][i])
      BY <1>2
    <2> QED
      BY <2>1, <2>2 DEF MayBecome
  <1>4. o \in [1 .. n -> Delivery]
    BY <1>2, <1>3
  <1>5. o \in Seq(Delivery)
    BY <1>1, <1>4, SeqDef
  <1>6. Len(o) = n
    BY <1>1, <1>2, <1>5, LenProperties
  <1> QED
    BY <1>1, <1>2, <1>3, <1>5, <1>6

LEMMA NothingToClaimStep ==
  ASSUME LabInv, NEW w \in Workers, UNCHANGED <<lab, phase, interventions>>,
         outbox' = AfterBurials, poster' = [poster EXCEPT ![w] = Resting]
  PROVE  LabInv' /\ \A q \in Runs : RunStep(q)
  <1>1. \A r \in Runs : Worked(r)
    BY BurialsAreWork DEF Worked
  <1>2. outbox' \in [Runs -> Seq(Delivery)]
    <2>1. outbox' = [r \in Runs |-> AfterBurials[r]]
      BY DEF AfterBurials
    <2> QED
      BY <2>1, BurialsAreWork
  <1>3. NoNewClaim /\ interventions' \in 0 .. MaxInterventions
    BY NoClaimByOthers DEF LabInv, TypeOK
  <1> QED
    BY <1>1, <1>2, <1>3, WorkingStep

\* A claim is of a version that the delivery never had before.
LEMMA ClaimStep ==
  ASSUME LabInv, NEW w \in Workers, UNCHANGED <<lab, phase, interventions>>,
         NEW r \in Runs, NEW i \in DOMAIN AfterBurials[r], Claimable(AfterBurials[r], i),
         outbox' = [AfterBurials EXCEPT ![r][i] = Claimed(@)],
         poster' = [poster EXCEPT ![w] =
           [at |-> "post", run |-> r, seq |-> i, version |-> AfterBurials[r][i].version + 1,
            outcome |-> "unsent"]]
  PROVE  LabInv' /\ \A q \in Runs : RunStep(q)
  <1> DEFINE b == AfterBurials[r]
             d == outbox[r][i]
             e == Claimed(b[i])
             claim == [at |-> "post", run |-> r, seq |-> i, version |-> b[i].version + 1,
                       outcome |-> "unsent"]
  <1>1. i \in 1 .. Len(outbox[r]) /\ b \in Seq(Delivery) /\ Len(b) = Len(outbox[r])
        /\ MayBecome(outbox[r], i, b[i]) /\ b[i] = Buried(d) /\ b[i] \in Delivery /\ d \in Delivery
    BY BurialsAreWork, RunFacts DEF MayBecome
  <1>2. /\ b[i].version \in Nat /\ b[i].version + 1 \in Nat /\ b[i].attempts \in Nat
        /\ b[i].attempts + 1 \in Nat /\ d.version \in Nat /\ d.version <= b[i].version
    BY <1>1 DEF Delivery, MayBecome
  <1>3. b[i].status \in {"pending", "retry_wait", "claimed"}
    BY DEF Claimable, LeaseOver
  <1>4. /\ e \in Delivery /\ e.status = "claimed" /\ e.said = b[i].said
        /\ e.version = b[i].version + 1
    BY <1>1, <1>2 DEF Claimed, Delivery, DeliveryStatuses
  <1>5. \A j \in 1 .. i - 1 : outbox[r][j].status = "delivered"
    <2> SUFFICES ASSUME NEW j \in 1 .. i - 1 PROVE outbox[r][j].status = "delivered"
      OBVIOUS
    <2>1. j \in 1 .. Len(outbox[r])
      BY <1>1, RunFacts
    <2>2. b[j].status = "delivered" /\ b[j] = Buried(outbox[r][j])
      BY <2>1, BurialsAreWork DEF Claimable
    <2>3. outbox[r][j] \in Delivery
      BY <2>1, RunFacts
    <2>4. CASE Exhausted(outbox[r][j])
      BY <2>2, <2>3, <2>4 DEF Buried, Delivery
    <2>5. CASE ~Exhausted(outbox[r][j])
      BY <2>2, <2>5 DEF Buried
    <2> QED
      BY <2>4, <2>5
  <1>6. MayBecome(outbox[r], i, e)
    <2>1. e.said = d.said /\ d.version <= e.version
      BY <1>1, <1>2, <1>4 DEF MayBecome
    <2>2. d.status # "delivered"
      BY <1>1, <1>3 DEF MayBecome
    <2> QED
      BY <1>4, <1>5, <2>1, <2>2 DEF MayBecome
  <1>7. /\ outbox' \in [Runs -> Seq(Delivery)]
        /\ \A j \in 1 .. Len(b) : outbox'[r][j] = IF j = i THEN e ELSE b[j]
        /\ outbox'[r] \in Seq(Delivery) /\ Len(outbox'[r]) = Len(b)
        /\ \A q \in Runs \ {r} : outbox'[q] = AfterBurials[q]
    <2>1. AfterBurials \in [Runs -> Seq(Delivery)]
      <3>1. AfterBurials = [q \in Runs |-> AfterBurials[q]]
        BY DEF AfterBurials
      <3> QED
        BY <3>1, BurialsAreWork
    <2>2. outbox'[r] = [b EXCEPT ![i] = e] /\ \A q \in Runs \ {r} : outbox'[q] = AfterBurials[q]
      BY <2>1
    <2>3. /\ [b EXCEPT ![i] = e] \in Seq(Delivery) /\ Len([b EXCEPT ![i] = e]) = Len(b)
          /\ \A j \in 1 .. Len(b) : [b EXCEPT ![i] = e][j] = IF j = i THEN e ELSE b[j]
      BY <1>1, <1>4, ExceptSeq
    <2> HIDE DEF b, e
    <2> QED
      BY <2>1, <2>2, <2>3 DEF b, e
  <1>8. \A q \in Runs : RunStep(q)
    <2>1. Worked(r)
      <3>1. \A j \in 1 .. Len(outbox[r]) : MayBecome(outbox[r], j, b[j])
        BY BurialsAreWork
      <3> HIDE DEF e
      <3> QED
        BY <1>1, <1>6, <1>7, <3>1 DEF Worked
    <2>2. \A q \in Runs \ {r} : Worked(q)
      BY <1>7, BurialsAreWork DEF Worked
    <2> QED
      BY <2>1, <2>2, WorkedIsARunStep
  <1>9. claim \in Posting
    BY <1>1, <1>2, RunFacts DEF Posting, Outcomes
  <1>10. poster \in [Workers -> Posting \cup {Resting, Polling}]
    BY DEF LabInv, TypeOK
  <1>11. /\ poster' \in [Workers -> Posting \cup {Resting, Polling}]
         /\ poster'[w] = claim /\ \A v \in Workers \ {w} : poster'[v] = poster[v]
    BY <1>9, <1>10
  <1>12. \A v \in Workers \ {w} :
           (poster'[v].at = "post" /\ poster'[v].run = r /\ poster'[v].seq = i) =>
             poster'[v].version # claim.version
    <2> SUFFICES ASSUME NEW v \in Workers \ {w}, poster[v].at = "post",
                        poster[v].run = r, poster[v].seq = i
                 PROVE  poster[v].version # b[i].version + 1
      BY <1>11
    <2>1. poster[v].version \in Nat /\ poster[v].version <= d.version
      BY ClaimFacts
    <2> QED
      BY <1>2, <2>1
  <1>13. ClaimsDiffer'
    <2> SUFFICES ASSUME NEW u \in Workers, NEW v \in Workers,
                        poster'[u].at = "post", poster'[v].at = "post",
                        poster'[u].run = poster'[v].run, poster'[u].seq = poster'[v].seq,
                        poster'[u].version = poster'[v].version
                 PROVE  u = v
      BY DEF ClaimsDiffer
    <2>1. CASE u # w /\ v # w
      BY <1>11, <2>1 DEF LabInv, ClaimsDiffer
    <2>2. CASE u = w \/ v = w
      BY <1>11, <1>12, <2>2
    <2> QED
      BY <2>1, <2>2
  <1>14. (\A v \in Workers : ClaimIsKnown(v))'
    <2> SUFFICES ASSUME NEW v \in Workers, poster'[v].at = "post"
                 PROVE  /\ poster'[v].seq \in DOMAIN outbox'[poster'[v].run]
                        /\ poster'[v].version <= outbox'[poster'[v].run][poster'[v].seq].version
      BY DEF ClaimIsKnown
    <2>1. CASE v = w
      <3>1. DOMAIN outbox'[r] = 1 .. Len(b)
        BY <1>7, LenProperties
      <3> QED
        BY <1>1, <1>2, <1>4, <1>7, <1>11, <2>1, <3>1
    <2>2. CASE v # w
      <3> DEFINE q == poster[v].run
                 k == poster[v].seq
      <3>1. /\ q \in Runs /\ k \in 1 .. Len(outbox[q]) /\ poster[v].version \in Nat
            /\ poster[v].version <= outbox[q][k].version
        BY <1>11, <2>2, ClaimFacts
      <3>2. /\ outbox'[q] \in Seq(Delivery) /\ Len(outbox[q]) <= Len(outbox'[q])
            /\ outbox[q][k].version <= outbox'[q][k].version
        BY <1>8, <3>1 DEF RunStep
      <3>3. /\ Len(outbox[q]) \in Nat /\ Len(outbox'[q]) \in Nat
            /\ DOMAIN outbox'[q] = 1 .. Len(outbox'[q])
        BY <3>1, <3>2, LenProperties, RunFacts
      <3>4. k \in 1 .. Len(outbox'[q])
        BY <3>1, <3>2, <3>3, PositionsGrow
      <3>5. outbox'[q][k] \in Delivery /\ outbox[q][k] \in Delivery
        BY <3>1, <3>2, <3>4, ElementOfSeq, RunFacts
      <3>6. outbox'[q][k].version \in Nat /\ outbox[q][k].version \in Nat
        BY <3>5 DEF Delivery
      <3>7. poster[v].version <= outbox'[q][k].version
        BY <3>1, <3>2, <3>6, VersionsChain
      <3> QED
        BY <1>11, <2>2, <3>3, <3>4, <3>7
    <2> QED
      BY <2>1, <2>2
  <1>15. /\ lab' \in [Runs -> LabRun \cup {NoRun}] /\ interventions' \in 0 .. MaxInterventions
         /\ phase' \in [Runs -> {QueuePhase, JobPhase, EndPhase}]
    BY DEF LabInv, TypeOK
  <1> QED
    BY <1>7, <1>8, <1>11, <1>13, <1>14, <1>15, RunsStepKeepsInv

LEMMA SettleStep ==
  ASSUME LabInv, NEW w \in Workers, Settle(w)
  PROVE  LabInv' /\ \A q \in Runs : RunStep(q)
  <1> DEFINE r == poster[w].run
             i == poster[w].seq
             e == SettledDelivery(outbox[r][i], poster[w].outcome)
  <1>1. /\ NoNewClaim /\ UNCHANGED <<lab, phase, interventions>>
        /\ interventions' \in 0 .. MaxInterventions
    BY NoClaimByOthers DEF Settle, LabInv, TypeOK
  <1>2. CASE HoldsDelivery(w)
    <2>1. /\ r \in Runs /\ i \in 1 .. Len(outbox[r]) /\ poster[w] \in Posting
          /\ outbox[r][i].status = "claimed"
      BY <1>2, ClaimFacts DEF Settle, HoldsDelivery
    <2>2. poster[w].outcome \in Outcomes
      BY <2>1 DEF Posting
    <2>3. MayBecome(outbox[r], i, e)
      BY <2>1, <2>2, WorkOnADelivery
    <2>4. e \in Delivery
      BY <2>3 DEF MayBecome
    <2>5. outbox' = [outbox EXCEPT ![r][i] = e]
      BY <1>2 DEF Settle
    <2>6. \A q \in Runs : Worked(q)
      BY <1>1, <2>1, <2>3, <2>4, <2>5, OneIsWorkedOn
    <2>7. outbox' \in [Runs -> Seq(Delivery)]
      BY <2>5, <2>6 DEF Worked, LabInv, TypeOK
    <2> QED
      BY <1>1, <2>6, <2>7, WorkingStep
  <1>3. CASE ~HoldsDelivery(w)
    <2>1. outbox' = outbox
      BY <1>3 DEF Settle
    <2> QED
      BY <1>1, <2>1, QuietStep DEF LabInv, TypeOK
  <1> QED
    BY <1>2, <1>3

LEMMA RetryStep ==
  ASSUME LabInv, NEW r \in Runs, NEW i \in DOMAIN outbox[r], RetryDeadLetter(r, i)
  PROVE  LabInv' /\ \A q \in Runs : RunStep(q)
  <1> DEFINE d == outbox[r][i]
             e == Revived(d)
  <1>1. i \in 1 .. Len(outbox[r]) /\ d.status = "dead_letter"
    BY RunFacts DEF RetryDeadLetter
  <1>2. MayBecome(outbox[r], i, e) /\ e \in Delivery
    BY <1>1, WorkOnADelivery DEF MayBecome
  <1>3. NoNewClaim /\ UNCHANGED <<lab, phase>>
    BY NoClaimByOthers DEF RetryDeadLetter
  <1>4. interventions' \in 0 .. MaxInterventions
    BY DeliveryAssumption DEF RetryDeadLetter, Intervention, LabInv, TypeOK
  <1>5. outbox' = [outbox EXCEPT ![r][i] = e]
    BY DEF RetryDeadLetter
  <1>6. \A q \in Runs : Worked(q)
    BY <1>1, <1>2, <1>3, <1>5, OneIsWorkedOn
  <1>7. outbox' \in [Runs -> Seq(Delivery)]
    BY <1>5, <1>6 DEF Worked, LabInv, TypeOK
  <1> QED
    BY <1>3, <1>4, <1>6, <1>7, WorkingStep

LEMMA LeaseEndStep ==
  ASSUME LabInv, NEW r \in Runs, NEW i \in DOMAIN outbox[r], LeaseRunsOut(r, i)
  PROVE  LabInv' /\ \A q \in Runs : RunStep(q)
  <1> DEFINE d == outbox[r][i]
             e == [d EXCEPT !.live = FALSE]
  <1>1. i \in 1 .. Len(outbox[r]) /\ d.status = "claimed"
    BY RunFacts DEF LeaseRunsOut
  <1>2. MayBecome(outbox[r], i, e) /\ e \in Delivery
    BY <1>1, WorkOnADelivery DEF MayBecome
  <1>3. NoNewClaim /\ UNCHANGED <<lab, phase>> /\ interventions' \in 0 .. MaxInterventions
    BY NoClaimByOthers DEF LeaseRunsOut, LabInv, TypeOK
  <1>4. outbox' = [outbox EXCEPT ![r][i] = e]
    BY DEF LeaseRunsOut
  <1>5. \A q \in Runs : Worked(q)
    BY <1>1, <1>2, <1>3, <1>4, OneIsWorkedOn
  <1>6. outbox' \in [Runs -> Seq(Delivery)]
    BY <1>4, <1>5 DEF Worked, LabInv, TypeOK
  <1> QED
    BY <1>3, <1>5, <1>6, WorkingStep

LEMMA LabInvInit == Init => LabInv
  BY EmptySeq, DeliveryAssumption
  DEF Init, LabInv, TypeOK, RunInv, LifeIsTold, Started, ClaimIsKnown, ClaimsDiffer,
      Resting, QueuePhase

\* The invariant is inductive, and each step is a step of every run.
LEMMA LabInvStep ==
  ASSUME LabInv, [Next]_labVars
  PROVE  LabInv' /\ \A q \in Runs : RunStep(q)
  <1>1. ASSUME NEW r \in Runs, Request(r) PROVE LabInv' /\ \A q \in Runs : RunStep(q)
    BY <1>1, RequestStep
  <1>2. ASSUME NEW w \in Workers, PostAnswered(w) \/ WorkerFails(w)
        PROVE  LabInv' /\ \A q \in Runs : RunStep(q)
    <2>1. NoNewClaim
      BY <1>2, NoClaimByOthers DEF WorkerFails
    <2>2. UNCHANGED <<lab, phase, outbox, interventions>>
      BY <1>2 DEF PostAnswered, WorkerFails
    <2> QED
      BY <2>1, <2>2, QuietStep DEF LabInv, TypeOK
  <1>3. ASSUME NEW w \in Workers, WorkerStep(w) PROVE LabInv' /\ \A q \in Runs : RunStep(q)
    <2>1. CASE Advance(w)
      BY <2>1, AdvanceStep
    <2>2. CASE ClaimNext(w)
      BY <2>2, ClaimStep, NothingToClaimStep DEF ClaimNext
    <2>3. CASE Settle(w)
      BY <2>3, SettleStep
    <2> QED
      BY <1>3, <2>1, <2>2, <2>3 DEF WorkerStep
  <1>4. ASSUME NEW r \in Runs, NEW i \in DOMAIN outbox[r], RetryDeadLetter(r, i)
        PROVE  LabInv' /\ \A q \in Runs : RunStep(q)
    BY <1>4, RetryStep
  <1>5. ASSUME NEW r \in Runs, ClockAdvances(r) \/ ClockIsSetBack(r)
        PROVE  LabInv' /\ \A q \in Runs : RunStep(q)
    <2>1. NoNewClaim /\ UNCHANGED <<lab, outbox>>
      BY <1>5, NoClaimByOthers DEF ClockAdvances, ClockIsSetBack
    <2>2. phase' \in [Runs -> {QueuePhase, JobPhase, EndPhase}]
      <3>1. phase[r] \in {0, 1, 2} /\ phase \in [Runs -> {0, 1, 2}]
        BY DEF QueuePhase, JobPhase, EndPhase, LabInv, TypeOK
      <3>2. \/ phase[r] < 2 /\ phase' = [phase EXCEPT ![r] = phase[r] + 1]
            \/ phase[r] > 0 /\ phase' = [phase EXCEPT ![r] = phase[r] - 1]
        BY <1>5 DEF ClockAdvances, ClockIsSetBack, QueuePhase, EndPhase
      <3>3. phase[r] < 2 => phase[r] + 1 \in {0, 1, 2}
        BY <3>1
      <3>4. phase[r] > 0 => phase[r] - 1 \in {0, 1, 2}
        BY <3>1
      <3> QED
        BY <3>1, <3>2, <3>3, <3>4 DEF QueuePhase, JobPhase, EndPhase
    <2>3. interventions' \in 0 .. MaxInterventions
      BY <1>5, DeliveryAssumption
      DEF ClockAdvances, ClockIsSetBack, Intervention, LabInv, TypeOK
    <2> QED
      BY <2>1, <2>2, <2>3, QuietStep
  <1>6. ASSUME NEW r \in Runs, NEW i \in DOMAIN outbox[r], LeaseRunsOut(r, i)
        PROVE  LabInv' /\ \A q \in Runs : RunStep(q)
    BY <1>6, LeaseEndStep
  <1>7. CASE UNCHANGED labVars
    BY <1>7, QuietStep, NoClaimByOthers DEF labVars, LabInv, TypeOK
  <1> QED
    BY <1>1, <1>2, <1>3, <1>4, <1>5, <1>6, <1>7 DEF Next, LabStep, ClockMoves

-----------------------------------------------------------------------------
(* The theorems.                                                           *)

\* Every operation of the service, every worker and every move of the clock keeps
\* runs sound, their lives told in order, and workers' claims apart.
THEOREM LabInvariance == Spec => []LabInv
  <1>1. LabInv /\ [Next]_labVars => LabInv'
    BY LabInvStep
  <1> QED
    BY LabInvInit, <1>1, PTL DEF Spec

\* The lab's state keeps its type, and only a claimed delivery has a lease.
THEOREM LabTypeCorrect == Spec => []TypeOK
  <1>1. LabInv => TypeOK
    BY DEF LabInv
  <1> QED
    BY LabInvariance, <1>1, PTL

\* Whatever changes a subscribed run, its present public status is announced
\* (_enqueue_webhook_if_changed is called by every operation).
THEOREM ChangesAreAnnounced == Spec => []EveryChangeIsAnnounced
  <1>1. LabInv => EveryChangeIsAnnounced
    BY RunsAssumption DEF LabInv, RunInv, LifeIsTold, EveryChangeIsAnnounced
  <1> QED
    BY LabInvariance, <1>1, PTL

\* The announced life of a run moves forward and ends once, whatever the clock
\* does (_refresh_record).
THEOREM LifeMovesForward == Spec => []AnnouncedLifeMovesForward
  <1>1. LabInv => AnnouncedLifeMovesForward
    BY DEF LabInv, RunInv, LifeIsTold, AnnouncedLifeMovesForward
  <1> QED
    BY LabInvariance, <1>1, PTL

\* No gated run succeeds without an approval, and a decision ends its run
\* (decide_gate).
THEOREM GateHolds == Spec => []GateNeedsADecision
  <1>1. LabInv => GateNeedsADecision
    BY RunsAssumption DEF LabInv, RunInv, RunIsSound, GateNeedsADecision
  <1> QED
    BY LabInvariance, <1>1, PTL

\* A delivery is attempted only after all earlier ones were acknowledged
\* (claim_webhook_delivery).
THEOREM AttemptsAreOrdered == Spec => []AttemptedInOrder
  <1>1. LabInv => AttemptedInOrder
    BY DEF LabInv, RunInv, LifeIsTold, AttemptedInOrder
  <1> QED
    BY LabInvariance, <1>1, PTL

\* Of the workers that have tried a delivery, one can settle it at most
\* (_require_webhook_delivery_lease).
THEOREM OneSettles == Spec => []OneWorkerCanSettle
  <1>1. LabInv => OneWorkerCanSettle
    BY DEF LabInv, ClaimsDiffer, OneWorkerCanSettle, HoldsDelivery
  <1> QED
    BY LabInvariance, <1>1, PTL

\* Deliveries are attempted in order and each is settled by one worker
\* (claim_webhook_delivery, complete_webhook_delivery).
THEOREM DeliveriesInOrder == Spec => []DeliveriesAreOrderly
  <1>1. AttemptedInOrder /\ OneWorkerCanSettle => DeliveriesAreOrderly
    BY DEF DeliveriesAreOrderly
  <1> QED
    BY AttemptsAreOrdered, OneSettles, <1>1, PTL

\* A finished run and a decision never change again (cancel, decide_gate).
THEOREM EndsAreFinal == Spec => TheEndIsFinal
  <1> DEFINE Kept ==
        \A r \in Runs : Started(r) =>
          /\ lab[r].status \in Terminal => lab'[r] = lab[r]
          /\ lab[r].approval # NoApproval => lab'[r].approval = lab[r].approval
  <1>1. LabInv /\ [Next]_labVars => [Kept]_labVars
    <2> SUFFICES ASSUME LabInv, [Next]_labVars, NEW r \in Runs, Started(r)
                 PROVE  /\ lab[r].status \in Terminal => lab'[r] = lab[r]
                        /\ lab[r].approval # NoApproval => lab'[r].approval = lab[r].approval
      OBVIOUS
    <2>1. lab[r].status \in Terminal => lab'[r] = lab[r]
      BY LabInvStep DEF RunStep
    <2>2. lab[r].approval # NoApproval => lab[r].status \in Terminal
      BY DEF LabInv, RunInv, RunIsSound, Terminal
    <2> QED
      BY <2>1, <2>2
  <1> QED
    BY LabInvariance, <1>1, PTL DEF Spec, TheEndIsFinal
=============================================================================
