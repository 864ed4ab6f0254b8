----------------------------- MODULE MCScenarios -----------------------------
(***************************************************************************)
(* The components of the web process, the adapters of the lessons and the  *)
(* row locks of the runtime, in small scenarios.  Each scenario runs one   *)
(* component and lets a few of its records exist.                          *)
(***************************************************************************)
EXTENDS DataTransfer, RunArtifacts, PipelineRuns, Identity, ProjectCache,
  TeachingAutomation, RowLocks, CronPlans, TLC

CONSTANTS
  Scenarios,                                          \* those of this run
  p1, p2, s1, s2, s3, c1, c2, l1, x1, d1,             \* test management
  s3file, localfile, artifact, del1, del2,            \* storage
  u1, u2, n1, n2, n3, q1, q2, g1, g2, b1, b2, o1,     \* identity
  k1, k2,                                             \* cache
  j1, j2, j3                                          \* lessons

VARIABLE scenario

-----------------------------------------------------------------------------
(* Values of constants.                                                    *)

Row(key, wellformed, suite, case, execution) ==
  [key |-> key, wellformed |-> wellformed, suite |-> suite, case |-> case, execution |-> execution]

\* Two good rows, a malformed one, two rows with one key; a defect with both
\* associations.
MCImportFiles ==
  {[entity |-> "test_cases", clean |-> TRUE,
    rows |-> <<Row(1, TRUE, s1, Nothing, Nothing), Row(2, TRUE, Root, Nothing, Nothing)>>],
   [entity |-> "test_cases", clean |-> FALSE,
    rows |-> <<Row(1, FALSE, Root, Nothing, Nothing), Row(2, TRUE, s1, Nothing, Nothing)>>],
   [entity |-> "test_cases", clean |-> FALSE,
    rows |-> <<Row(1, TRUE, Root, Nothing, Nothing), Row(1, TRUE, s1, Nothing, Nothing)>>],
   [entity |-> "defects", clean |-> TRUE, rows |-> <<Row(1, TRUE, Root, c1, x1)>>]}

MCBackend == localfile :> "local" @@ s3file :> "s3" @@ artifact :> "s3"

\* A run with two stages, one of whose jobs fails, and a small one that is
\* driven by callbacks, under one trigger key.
MCPipelineRequests ==
  {[key |-> "k", auto |-> TRUE, stages |-> <<<<FALSE, TRUE>>, <<FALSE>>>>],
   [key |-> "k", auto |-> FALSE, stages |-> <<<<FALSE>>>>]}

MCInstantJob == 1 :> j1 @@ 2 :> j2

MCLeaseGraph == <<[task |-> 1, device |-> 1], [task |-> 2, device |-> 1]>>

\* Calendars of two months and days of four minutes; on the second day of the
\* first month the clock is set back by a minute, and later put right.
Item(base, low, high, step) == [base |-> base, low |-> low, high |-> high, step |-> step]
Star == {Item("*", 0, 0, 0)}
Value(n) == {Item("value", n, n, 0)}
Text(minute, hour, day, month, weekday) ==
  [minute |-> minute, hour |-> hour, day |-> day, month |-> month, weekday |-> weekday]
AlwaysText == Text(Star, Star, Star, Star, Star)
\* Among them one that is out of range, and one whose day never exists.
MCCronTexts ==
  {AlwaysText,
   Text(Value(0), Value(1), Star, Star, Star),
   Text({Item("*", 0, 0, 2)}, {Item("value", 0, 0, 1)}, Star, Star, {Item("range", 1, 2, 1)}),
   Text(Value(1), Star, Value(2), Star, {Item("range", 3, 3, 0)}),
   Text(Value(0), Value(0), Value(1), Value(2), Star),
   Text(Value(0), Value(2), Star, Star, Star),
   Text(Value(0), Value(0), Value(3), Star, Star)}
MCFieldRange ==
  [minute |-> [least |-> 0, greatest |-> 1], hour |-> [least |-> 0, greatest |-> 1],
   day |-> [least |-> 1, greatest |-> 3], month |-> [least |-> 1, greatest |-> 2],
   weekday |-> [least |-> 0, greatest |-> 2]]
MCMaximumDay == 1 :> 2 @@ 2 :> 2
Day(month, day, weekday, times) ==
  [i \in 1..4 |-> [month |-> month, day |-> day, weekday |-> weekday, hour |-> times[i][1], minute |-> times[i][2]]]
MCWallClock ==
  LET days == Day(1, 1, 1, <<<<0, 0>>, <<0, 1>>, <<1, 0>>, <<1, 1>>>>)
               \o Day(1, 2, 2, <<<<0, 0>>, <<0, 1>>, <<0, 1>>, <<1, 1>>>>)
               \o Day(2, 1, 0, <<<<0, 0>>, <<0, 1>>, <<1, 0>>, <<1, 1>>>>) IN
  [m \in 0..11 |-> days[m + 1]]

-----------------------------------------------------------------------------
(* What there is room for in each scenario.                                *)

TestRoom ==
  [planning |-> {p1, c1, l1, x1, d1},
   plans |-> {p1, c1, c2, l1, x1},
   projects |-> {p1, p2, s1, c1, l1},
   suites |-> {p1, s1, s2, c1},
   trees |-> {p1, s1, s2, s3},
   import_cases |-> {p1, s1, c1, c2},
   import_defects |-> {p1, c1, l1, x1, d1}]

FileRoom == [s3_file |-> {s3file}, local_file |-> {localfile}, s3_artifact |-> {artifact}]

IdentityRoom ==
  [admins |-> {u1, u2, n1, n2, q1, q2, g1},
   logins |-> {u1, n1, n2, q1, g1, g2},
   oidc |-> {u1, n1, n2, n3, q1, b1, b2, o1}]

Recorded ==
  {p \in Projects : projects[p] # "absent"} \cup {s \in Suites : test_suites[s] # None}
    \cup {c \in Cases : test_cases[c] # None} \cup {l \in Plans : test_plans[l] # None}
    \cup {x \in Executions : executions[x] # None} \cup {d \in Defects : defects[d] # None}

Uploaded == {f \in Files : uploads[f] # Idle}

Busy ==
  {u \in Users : users[u] # NoUser} \cup {s \in Sessions : sessions[s] # NoSession}
    \cup {r \in Requests : requests[r] # Vacant} \cup {l \in Logins : logins[l] # Vacant}
    \cup {c \in Callbacks : callbacks[c] # Vacant} \cup {t \in Transactions : transactions[t] # "absent"}

-----------------------------------------------------------------------------
testData == <<projects, test_suites, test_cases, test_plans, executions, defects, snapshots,
              audited, batch>>
fileData == <<objects, uploads, deletions, readers, permits, overlapped, attachmentVars, artifacts>>
runData == <<memory, stored, last_saved, initialized, closed, resetting, executor, told>>
accountData == <<mode, users, sessions, bound, transactions, lock, requests, logins, callbacks, outdated>>
cacheData == <<project_rows, cache, holder, clients, spoiled>>
lessonData == <<lessonVars, deviceVars>>
aroundData == <<lessonData, in_flight, cronVars>>

MCInit ==
  /\ TransferInit /\ ArtifactsInit /\ PipelineInit /\ IdentityInit /\ CacheInit
  /\ LessonsInit /\ DevicesInit /\ RowLocksInit /\ CronInit
  /\ scenario \in Scenarios
  /\ scenario \notin DOMAIN IdentityRoom => mode = "local_accounts"
  /\ scenario # "lessons" =>
       rule = [enabled |-> TRUE, next |-> 1, misfire |-> "skip", overlap |-> "allow"]
  /\ scenario # "cron" =>
       cron_rule = [expression |-> Parsed(AlwaysText), misfire |-> "skip", grace |-> 0, limit |-> 1]
  /\ cron_rule.misfire # "skip" => cron_rule.grace = 0
  /\ cron_rule.misfire # "catch_up_limited" => cron_rule.limit = 1

\* Of two interchangeable slots the second is taken while the first is.
FirstBeforeSecond(slots, next, first, second, vacant) ==
  slots[first] = vacant /\ slots[second] = vacant => next[second] = vacant

TestScenario ==
  /\ scenario \in DOMAIN TestRoom
  /\ TransferNext
  /\ Recorded' \subseteq TestRoom[scenario]
  /\ faults' <= IF scenario = "suites" THEN 0 ELSE 1
  /\ scenario \notin {"import_cases", "import_defects"} => UNCHANGED batch
  /\ batch.at \notin {"reported", "aborted"}
  /\ scenario = "import_cases" =>
       /\ test_cases' = test_cases \/ batch' # batch
       /\ faults' = faults \/ batch' # batch
       /\ c2 \in Recorded' => c1 \in Recorded'
       /\ test_suites'[s2] # None => test_suites'[s2].parent = Root
       /\ p1 \in Recorded => p1 \in Recorded'
       /\ batch'.at = "reading" => DOMAIN batch'.seen # {"test_cases"} /\ DOMAIN batch'.seen # {"executions"}
  /\ scenario = "import_defects" =>
       /\ defects' = defects \/ batch' # batch
       /\ batch.at # "none" /\ test_plans' # test_plans => executions' # executions
       /\ faults' = faults \/ batch' # batch
       /\ p1 \in Recorded => p1 \in Recorded'
  /\ scenario \in {"suites", "import_cases"} =>
       \A s \in {s1, s2} : test_suites'[s] # None => test_suites'[s].name = IF s = s1 THEN "a" ELSE "b"
  /\ scenario \in {"plans", "projects", "import_cases", "import_defects"} => UNCHANGED snapshots
  /\ batch'.at # "none" => batch'.file.entity = "defects" <=> scenario = "import_defects"
  /\ UNCHANGED <<fileData, runData, accountData, cacheData, aroundData>>

FileScenario ==
  /\ scenario \in DOMAIN FileRoom
  /\ ArtifactsNext
  /\ Uploaded' \subseteq FileRoom[scenario]
  /\ FirstBeforeSecond(deletions, deletions', del1, del2, Idle)
  /\ deletions'[del1] # Idle /\ deletions'[del2] # Idle => \A r \in Readers : readers'[r] = Idle
  /\ scenario = "s3_artifact" => UNCHANGED <<targets, comments>>
  /\ UNCHANGED <<testData, runData, accountData, cacheData, aroundData>>

PipelineScenario ==
  /\ scenario = "pipeline"
  /\ PipelineNext
  /\ UNCHANGED <<testData, fileData, accountData, cacheData, aroundData>>

IdentityScenario ==
  /\ scenario \in DOMAIN IdentityRoom
  /\ IdentityNext
  /\ Busy' \subseteq IdentityRoom[scenario]
  /\ faults' <= 1
  /\ scenario # "oidc" => faults' = 0
  /\ scenario = "admins" =>
       /\ UNCHANGED bound
       /\ ~({q2, g1} \subseteq Busy')
       /\ \A u \in Users : users'[u] # NoUser => users'[u].failed = 0
  /\ scenario # "oidc" => \A s \in Sessions : sessions'[s].state # "expired"
  /\ FirstBeforeSecond(requests, requests', q1, q2, Vacant)
  /\ FirstBeforeSecond(logins, logins', g1, g2, Vacant)
  /\ FirstBeforeSecond(callbacks, callbacks', b1, b2, Vacant)
  /\ n2 \in Busy' => n1 \in Busy'
  /\ n3 \in Busy' => n2 \in Busy'
  /\ UNCHANGED <<testData, fileData, runData, cacheData, aroundData>>

CacheScenario ==
  /\ scenario = "cache"
  /\ CacheNext
  /\ FirstBeforeSecond(clients, clients', k1, k2, Nowhere)
  /\ UNCHANGED <<testData, fileData, runData, accountData, aroundData>>

LessonScenario ==
  /\ \/ /\ scenario = "lessons" /\ LessonsNext /\ UNCHANGED deviceVars
        /\ jobs'[j3].status # "absent" => rule.misfire = "fire_once"
        /\ rule'.enabled # rule.enabled => rule.misfire = "skip"
     \/ scenario = "lesson_devices" /\ DevicesNext /\ UNCHANGED lessonVars
  /\ UNCHANGED <<testData, fileData, runData, accountData, cacheData, faults, in_flight, cronVars>>

\* Whoever waits in a circle has locked a row before: of three sessions one
\* at most takes a single lock.
LockScenario ==
  /\ scenario = "row_locks"
  /\ RowLocksNext
  /\ \A x \in 1..2 :
       in_flight[x] = Quiet /\ in_flight'[x] # Quiet => Len(in_flight'[x].todo) > 1
  /\ UNCHANGED <<testData, fileData, runData, accountData, cacheData, faults, lessonData, cronVars>>

CronScenario ==
  /\ scenario = "cron"
  /\ CronNext
  /\ UNCHANGED <<testData, fileData, runData, accountData, cacheData, faults, lessonData, in_flight>>

MCNext ==
  /\ \/ TestScenario \/ FileScenario \/ PipelineScenario \/ IdentityScenario \/ CacheScenario
     \/ LessonScenario \/ LockScenario \/ CronScenario
  /\ UNCHANGED scenario

MCSpec ==
  MCInit /\ [][MCNext]_<<testData, fileData, runData, accountData, cacheData, aroundData, faults, scenario>>
=============================================================================
