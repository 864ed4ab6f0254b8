------------------------------ MODULE LeasedJob ------------------------------
(***************************************************************************)
(* What the task queue promises about one task to the client that enqueued *)
(* it: the task is worked on under one lease at a time and at most Budget  *)
(* times, only the holder of a lease that has not lapsed can settle it     *)
(* with a result, and a settled task stays as it is.                       *)
(***************************************************************************)
EXTENDS Integers

CONSTANT Budget   \* max_attempts of the task

VARIABLES
  phase,    \* "absent", "open", "held", "parked" (failed for good unless an
            \* administrator retries it) or "closed"
  claims,   \* leases granted so far
  live,     \* the current lease has time left
  outcome   \* the claim whose result was accepted, 0 for none

jobVars == <<phase, claims, live, outcome>>

Init == phase = "absent" /\ claims = 0 /\ live = FALSE /\ outcome = 0

Submit ==
  /\ phase = "absent"
  /\ phase' = "open"
  /\ UNCHANGED <<claims, live, outcome>>

Take ==
  /\ phase = "open" /\ claims < Budget
  /\ phase' = "held" /\ claims' = claims + 1 /\ live' = TRUE
  /\ UNCHANGED outcome

Lapse ==
  /\ phase = "held" /\ live
  /\ live' = FALSE
  /\ UNCHANGED <<phase, claims, outcome>>

\* The holder in time settles the task with a result, or gives it up.
Settle ==
  /\ phase = "held" /\ live
  /\ \/ phase' = "closed" /\ outcome' = claims
     \/ phase' = "parked" /\ UNCHANGED outcome
  /\ live' = FALSE
  /\ UNCHANGED claims

\* The task goes back to be taken again while the budget lasts: the holder
\* asks for it, the lease lapsed, or an administrator retries a parked task.
Reopen ==
  /\ phase \in {"held", "parked"} /\ claims < Budget
  /\ phase' = "open" /\ live' = FALSE
  /\ UNCHANGED <<claims, outcome>>

\* Closed without a result: cancelled, perhaps as it is submitted, or
\* dead-lettered.
Abandon ==
  /\ phase # "closed"
  /\ phase' = "closed" /\ live' = FALSE
  /\ UNCHANGED <<claims, outcome>>

Next == Submit \/ Take \/ Lapse \/ Settle \/ Reopen \/ Abandon

Spec == Init /\ [][Next]_jobVars
=============================================================================
