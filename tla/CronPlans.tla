------------------------------- MODULE CronPlans -------------------------------
(***************************************************************************)
(* CronExpression, and _cron_due_plan of PersistentRuntimeService: which   *)
(* due times a schedule fires when a scheduler comes late.                 *)
(*                                                                         *)
(* Times are counted in ticks, two to a minute, so that a time can lie     *)
(* between two minutes; a microsecond before a time is the tick before it. *)
(* The reading of a minute on the wall clock of the schedule is given by   *)
(* WallClock, which repeats itself; the time zones of the system are       *)
(* outside of the model.  A text is what _CronField.parse splits it into.  *)
(***************************************************************************)
EXTENDS Integers, FiniteSetsExt

CONSTANTS
  CronTexts,      \* for each field the set of its items [base, low, high, step]
  FieldRange,     \* of each field the least and the greatest value
  MaximumDay,     \* the days of each month in its longest year
  WallClock,      \* readings of the minutes 0..N-1, which come again and again
  SearchMinutes,  \* max_search_minutes
  Graces,         \* misfire_grace_seconds, in ticks
  CatchUpLimits,
  LastTick        \* bound on the clock

ASSUME CronAssumption ==
  /\ SearchMinutes \in Nat \ {0} /\ LastTick \in Nat
  /\ Graces \subseteq Nat /\ \E longest \in Graces : \A grace \in Graces : grace <= longest
  /\ CatchUpLimits \subseteq 1..100

VARIABLES
  cron_rule,    \* [expression, misfire, grace, limit]
  next_due,     \* next_run_at
  clock,
  planning      \* what the thread of _cron_due_plan has found so far

cronVars == <<cron_rule, next_due, clock, planning>>

NotPlanning == [at |-> "idle"]

-----------------------------------------------------------------------------
(* Expressions.                                                            *)

\* Sunday is 0, and may be written as the number after the last weekday.
Alias(field) == FieldRange[field].greatest + (IF field = "weekday" THEN 1 ELSE 0)

Lowest(item, field) == IF item.base = "*" THEN FieldRange[field].least ELSE item.low
Highest(item, field) ==
  CASE item.base = "range" -> item.high
    [] item.base = "value" /\ item.step = 0 -> item.low
    [] OTHER -> FieldRange[field].greatest

\* A step of 0 stands for none.
ItemValues(item, field) ==
  LET step == IF item.step = 0 THEN 1 ELSE item.step
      counted == {v \in Lowest(item, field)..Highest(item, field) : (v - Lowest(item, field)) % step = 0} IN
  {IF v > FieldRange[field].greatest THEN FieldRange[field].least ELSE v : v \in counted}

InRange(item, field) ==
  /\ FieldRange[field].least <= Lowest(item, field)
  /\ Lowest(item, field) <= Highest(item, field)
  /\ Highest(item, field) <= Alias(field)

FieldValues(text, field) == UNION {ItemValues(item, field) : item \in text[field]}
Wildcard(e, field) == e[field] = FieldRange[field].least..FieldRange[field].greatest

Parsed(text) == [field \in DOMAIN text |-> FieldValues(text, field)]

\* _validate_calendar_feasibility
Feasible(e) ==
  \/ Wildcard(e, "day") \/ ~Wildcard(e, "weekday")
  \/ \E month \in e.month, day \in e.day : day <= MaximumDay[month]

Expressions ==
  {Parsed(text) : text \in {t \in CronTexts :
     /\ \A field \in DOMAIN t : \A item \in t[field] : InRange(item, field)
     /\ Feasible(Parsed(t))}}

Reading(minute) == WallClock[minute % Cardinality(DOMAIN WallClock)]

DayMatches(e, reading) ==
  CASE Wildcard(e, "day") -> reading.weekday \in e.weekday
    [] Wildcard(e, "weekday") -> reading.day \in e.day
    [] OTHER -> reading.day \in e.day \/ reading.weekday \in e.weekday

CronMatches(e, minute) ==
  LET reading == Reading(minute) IN
  /\ reading.minute \in e.minute /\ reading.hour \in e.hour /\ reading.month \in e.month
  /\ DayMatches(e, reading)

-----------------------------------------------------------------------------
(* The two searches.  They give up after SearchMinutes, with an error.     *)

NoTime == -1
MinuteOf(tick) == tick \div 2
StartOf(minute) == 2 * minute

NextAfter(e, tick) ==
  LET found == {m \in (MinuteOf(tick) + 1)..(MinuteOf(tick) + SearchMinutes) : CronMatches(e, m)} IN
  IF found = {} THEN NoTime ELSE StartOf(Min(found))

PreviousAtOrBefore(e, tick) ==
  LET found == {m \in (MinuteOf(tick) - SearchMinutes + 1)..MinuteOf(tick) : CronMatches(e, m)} IN
  IF found = {} THEN NoTime ELSE StartOf(Max(found))

-----------------------------------------------------------------------------
(* The plan, one search after the other.                                   *)

\* Faulty variant: the searches begin after the time and not a moment before.
JustBeforeNot(tick) == tick
JustBefore(tick) == tick - 1

Later(a, b) == IF a > b THEN a ELSE b

\* max_length of misfire_grace_seconds, and the slots it may hold.
MaxSlots == MinuteOf(Max(Graces)) + 1

\* create_schedule.
CronInit ==
  /\ cron_rule \in [expression : Expressions, misfire : {"skip", "fire_once", "catch_up_limited"},
                    grace : Graces, limit : CatchUpLimits]
  /\ clock = 0
  /\ next_due = NextAfter(cron_rule.expression, 0)
  /\ next_due # NoTime
  /\ planning = NotPlanning

ClockTicks ==
  /\ planning = NotPlanning /\ clock < LastTick
  /\ clock' = clock + 1
  /\ UNCHANGED <<cron_rule, next_due, planning>>

PlanningBecomes(plan) == planning' = plan /\ UNCHANGED <<cron_rule, next_due, clock>>

BeginPlan ==
  LET e == cron_rule.expression
      latest == PreviousAtOrBefore(e, clock)
      next == NextAfter(e, clock)
      cutoff == clock - cron_rule.grace
      lower == Later(next_due, cutoff)
      found == [at |-> "planned", next |-> next, selected |-> {}, skipped |-> {}, cursor |-> latest] IN
  /\ planning = NotPlanning /\ next_due <= clock
  /\ PlanningBecomes(
       IF latest = NoTime \/ next = NoTime \/ latest < next_due THEN [at |-> "raised"]
       ELSE CASE cron_rule.misfire = "fire_once" -> [found EXCEPT !.selected = {latest}]
              [] cron_rule.misfire = "catch_up_limited" -> [found EXCEPT !.at = "backwards"]
              [] OTHER -> [found EXCEPT !.at = "forwards", !.cursor = NextAfter(e, JustBefore(lower))])

\* catch_up_limited walks back from the latest due time.
WalkBack ==
  LET selected == planning.selected \cup {planning.cursor}
      before == PreviousAtOrBefore(cron_rule.expression, JustBefore(planning.cursor)) IN
  /\ planning.at = "backwards"
  /\ PlanningBecomes(
       IF planning.cursor < next_due THEN [planning EXCEPT !.at = "planned"]
       ELSE IF Cardinality(selected) >= cron_rule.limit \/ planning.cursor = next_due
         THEN [planning EXCEPT !.at = "planned", !.selected = selected]
       ELSE IF before = NoTime THEN [at |-> "raised"]
       ELSE [planning EXCEPT !.selected = selected, !.cursor = before])

\* "skip" walks forward through the grace window, and records one due time
\* that is older.
WalkForward ==
  LET e == cron_rule.expression
      lower == Later(next_due, clock - cron_rule.grace)
      older == PreviousAtOrBefore(e, JustBefore(lower))
      selected == planning.selected \cup {planning.cursor} IN
  /\ planning.at = "forwards"
  /\ PlanningBecomes(
       IF planning.cursor = NoTime THEN [at |-> "raised"]
       ELSE IF planning.cursor <= clock
         THEN IF Cardinality(selected) > MaxSlots THEN [at |-> "raised"]
              ELSE [planning EXCEPT !.selected = selected, !.cursor = NextAfter(e, planning.cursor)]
       ELSE IF next_due = lower THEN [planning EXCEPT !.at = "planned"]
       ELSE IF older = NoTime THEN [at |-> "raised"]
       ELSE [planning EXCEPT !.at = "planned",
                             !.skipped = IF older >= next_due THEN {older} ELSE {}])

\* The claim is finalized, or given back.
FinishPlan ==
  /\ planning.at \in {"planned", "raised"}
  /\ next_due' = IF planning.at = "planned" THEN planning.next ELSE next_due
  /\ planning' = NotPlanning
  /\ UNCHANGED <<cron_rule, clock>>

CronNext == ClockTicks \/ BeginPlan \/ WalkBack \/ WalkForward \/ FinishPlan
CronSpec == CronInit /\ [][CronNext]_cronVars

-----------------------------------------------------------------------------
(* Properties.                                                             *)

DueTimes ==
  {t \in next_due..clock : t % 2 = 0 /\ CronMatches(cron_rule.expression, MinuteOf(t))}

LastOnes(S, n) == {t \in S : Cardinality({u \in S : u >= t}) <= n}

\* However long nobody looked at the schedule, the plan that _cron_due_plan
\* walks together is the one its policy describes on the whole backlog, and the
\* schedule goes on with the first due time to come: no due time falls between
\* two plans and none is in two.  It gives up only when the expression matches
\* no minute for as long as the searches look.
PlansCoverTheBacklog ==
  LET e == cron_rule.expression
      recent == {t \in DueTimes : t >= clock - cron_rule.grace}
      silent(from, to) == \A m \in MinuteOf(from)..MinuteOf(to) : ~CronMatches(e, m) IN
  /\ planning.at = "planned" =>
       /\ planning.selected =
            CASE cron_rule.misfire = "fire_once" -> LastOnes(DueTimes, 1)
              [] cron_rule.misfire = "catch_up_limited" -> LastOnes(DueTimes, cron_rule.limit)
              [] OTHER -> recent
       /\ planning.skipped =
            IF cron_rule.misfire = "skip" THEN LastOnes(DueTimes \ recent, 1) ELSE {}
       /\ planning.next > clock /\ CronMatches(e, MinuteOf(planning.next))
       /\ silent(clock + 2 - (clock % 2), planning.next - 1)
  /\ planning.at = "raised" =>
       \E tick \in 0..(clock + 2) : silent(tick, tick + StartOf(SearchMinutes - 1))
=============================================================================
