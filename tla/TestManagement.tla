--------------------------- MODULE TestManagement ---------------------------
(***************************************************************************)
(* Projects, the tree of test suites, test cases, plans, executions,       *)
(* defects, snapshots and the audit trail.                                 *)
(*                                                                         *)
(* One business lock serialises the operations of the single web process,  *)
(* so that each is one action.  But every repository call is a transaction *)
(* of its own: an operation that writes two tables may end between them    *)
(* (a crash, a cancelled request, a database that goes away), which costs  *)
(* a fault.  Identifiers are fresh uuids: one that something still names   *)
(* is not used again.                                                      *)
(***************************************************************************)
EXTENDS Naturals, FiniteSets, Faults

CONSTANTS
  Projects, Suites, Cases, Plans, Executions, Defects,
  Names,          \* names of suites
  MaxVersions     \* bound on the snapshots of one scope

Root == "root"       \* no parent, no suite
Nothing == "nothing" \* no association
WholeProject == "project"

ASSUME TestManagementAssumption ==
  /\ MaxVersions \in Nat
  /\ IsFiniteSet(Suites) /\ IsFiniteSet(Plans) /\ IsFiniteSet(Defects)
  /\ Suites \cap Defects = {}
  /\ {Root, WholeProject} \cap Suites = {} /\ Nothing \notin Cases \cup Executions
  /\ "none" \notin Projects

VARIABLES
  projects, test_suites, test_cases, test_plans, executions, defects, snapshots,
  audited         \* the status of each suite and defect by its audit events

testVars ==
  <<projects, test_suites, test_cases, test_plans, executions, defects, snapshots,
    audited, faults>>

None == [project |-> "none", status |-> "absent"]

TestInit ==
  /\ projects = [p \in Projects |-> "absent"]
  /\ test_suites = [s \in Suites |-> None]
  /\ test_cases = [c \in Cases |-> None]
  /\ test_plans = [l \in Plans |-> None]
  /\ executions = [x \in Executions |-> None]
  /\ defects = [d \in Defects |-> None]
  /\ snapshots = {}
  /\ audited = [e \in Suites \cup Defects |-> "absent"]
  /\ faults = 0

Active(p) == projects[p] = "active"
Of(table, p) == {i \in DOMAIN table : table[i].project = p}
ExecutionsOf(l) == {x \in Executions : executions[x] # None /\ executions[x].plan = l}

\* The audit event follows the change in a transaction of its own.  Events
\* that carry no status (an edit, a snapshot) are not kept here.
Audit(e, status) ==
  \/ audited' = [audited EXCEPT ![e] = status] /\ UNCHANGED faults
  \/ Fault /\ UNCHANGED audited

-----------------------------------------------------------------------------
(* Projects.                                                               *)

\* _ensure_project_has_no_active_work
OpenWork(p) ==
  \/ \E l \in Of(test_plans, p) : test_plans[l].status \in {"draft", "ready", "running"}
  \/ \E x \in Of(executions, p) : executions[x].status \in {"created", "running"}
  \/ \E d \in Of(defects, p) : defects[d].status # "closed"

CreateProject(p) ==
  /\ projects[p] = "absent"
  /\ projects' = [projects EXCEPT ![p] = "active"]
  /\ UNCHANGED <<test_suites, test_cases, test_plans, executions, defects, snapshots, audited, faults>>

TransitionProject(p, target) ==
  /\ projects[p] \notin {"absent", target}
  /\ target = "archived" => ~OpenWork(p)
  /\ projects' = [projects EXCEPT ![p] = target]
  /\ UNCHANGED <<test_suites, test_cases, test_plans, executions, defects, snapshots, audited, faults>>

DeleteProject(p) ==
  /\ projects[p] # "absent"
  /\ \A table \in {test_cases, test_plans, defects, test_suites} : Of(table, p) = {}
  /\ \A v \in snapshots : v.project # p
  /\ projects' = [projects EXCEPT ![p] = "absent"]
  /\ UNCHANGED <<test_suites, test_cases, test_plans, executions, defects, snapshots, audited, faults>>

-----------------------------------------------------------------------------
(* Suites.                                                                 *)

\* s and its ancestors: what the walk along parent_id meets is the smallest set
\* of suites with s that has the parents of its members.
HasParents(suites, C) == \A t \in C : suites[t] # None => suites[t].parent \in C \cup {Root}
ChainIn(suites, s) ==
  {t \in Suites : \A C \in SUBSET Suites : s \in C \cup {Root} /\ HasParents(suites, C) => t \in C}
Chain(s) == ChainIn(test_suites, s)

ActiveIn(p, t) == test_suites[t].project = p /\ test_suites[t].status = "active"

\* Faulty variant: a suite may be moved below itself.
ValidParentAnywhere(p, s, parent) == \A t \in Chain(parent) : ActiveIn(p, t)

\* _validate_parent
ValidParent(p, s, parent) == \A t \in Chain(parent) : t # s /\ ActiveIn(p, t)

UniqueName(p, s, parent, name) ==
  \A t \in Of(test_suites, p) \ {s} : test_suites[t].parent = parent => test_suites[t].name # name

CreateSuite(s, p, parent, name) ==
  /\ test_suites[s] = None
  /\ \A v \in snapshots : v.scope # s
  /\ Active(p)
  /\ ValidParent(p, s, parent)
  /\ UniqueName(p, s, parent, name)
  /\ test_suites' = [test_suites EXCEPT ![s] =
       [project |-> p, parent |-> parent, name |-> name, status |-> "active"]]
  /\ Audit(s, "active")
  /\ UNCHANGED <<projects, test_cases, test_plans, executions, defects, snapshots>>

UpdateSuite(s, parent, name) ==
  LET suite == test_suites[s]
  IN /\ suite.status = "active"
     /\ Active(suite.project)
     /\ parent # suite.parent => ValidParent(suite.project, s, parent)
     /\ UniqueName(suite.project, s, parent, name)
     /\ test_suites' = [test_suites EXCEPT ![s].parent = parent, ![s].name = name]
     /\ UNCHANGED <<projects, test_cases, test_plans, executions, defects, snapshots, audited, faults>>

TransitionSuite(s, target) ==
  LET suite == test_suites[s]
  IN /\ suite.status \notin {"absent", target}
     /\ Active(suite.project)
     /\ target = "active" => ValidParent(suite.project, s, suite.parent)
     /\ test_suites' = [test_suites EXCEPT ![s].status = target]
     /\ Audit(s, target)
     /\ UNCHANGED <<projects, test_cases, test_plans, executions, defects, snapshots>>

DeleteSuite(s) ==
  /\ test_suites[s] # None
  /\ Active(test_suites[s].project)
  /\ \A t \in Suites : test_suites[t] # None => test_suites[t].parent # s
  /\ \A c \in Cases : test_cases[c] # None => test_cases[c].suite # s
  /\ test_suites' = [test_suites EXCEPT ![s] = None]
  /\ Audit(s, "absent")
  /\ UNCHANGED <<projects, test_cases, test_plans, executions, defects, snapshots>>

-----------------------------------------------------------------------------
(* Cases.                                                                  *)

\* _require_active_suite
AcceptsCases(p, suite) == \A t \in Chain(suite) : ActiveIn(p, t)

CreateCase(c, p, suite, steps) ==
  /\ test_cases[c] = None
  /\ \A v \in snapshots : c \notin v.cases
  /\ Active(p)
  /\ AcceptsCases(p, suite)
  /\ test_cases' = [test_cases EXCEPT ![c] =
       [project |-> p, suite |-> suite, status |-> "draft", steps |-> steps]]
  /\ UNCHANGED <<projects, test_suites, test_plans, executions, defects, snapshots, audited, faults>>

\* The project need not be active.
UpdateCase(c, suite, steps) ==
  /\ test_cases[c] # None
  /\ suite # test_cases[c].suite => AcceptsCases(test_cases[c].project, suite)
  /\ test_cases[c].status = "active" => steps
  /\ test_cases' = [test_cases EXCEPT ![c].suite = suite, ![c].steps = steps]
  /\ UNCHANGED <<projects, test_suites, test_plans, executions, defects, snapshots, audited, faults>>

CaseTransitions ==
  [draft |-> {"active"}, active |-> {"disabled"}, disabled |-> {"active"}, absent |-> {}]

TransitionCase(c, target) ==
  /\ target \in CaseTransitions[test_cases[c].status]
  /\ target = "active" => Active(test_cases[c].project) /\ test_cases[c].steps
  /\ test_cases' = [test_cases EXCEPT ![c].status = target]
  /\ UNCHANGED <<projects, test_suites, test_plans, executions, defects, snapshots, audited, faults>>

Planned(c) == \E l \in Plans : test_plans[l] # None /\ c \in test_plans[l].cases

DeleteCase(c) ==
  /\ test_cases[c] # None
  /\ ~Planned(c)
  /\ \A d \in Defects : defects[d] # None => defects[d].case # c
  /\ test_cases' = [test_cases EXCEPT ![c] = None]
  /\ UNCHANGED <<projects, test_suites, test_plans, executions, defects, snapshots, audited, faults>>

-----------------------------------------------------------------------------
(* Plans.                                                                  *)

CreatePlan(l, p, cs) ==
  /\ test_plans[l] = None
  /\ Active(p)
  /\ cs \subseteq Of(test_cases, p)
  /\ test_plans' = [test_plans EXCEPT ![l] = [project |-> p, status |-> "draft", cases |-> cs]]
  /\ UNCHANGED <<projects, test_suites, test_cases, executions, defects, snapshots, audited, faults>>

\* Faulty variant: a plan that is ready can still be edited.
EditableUntilRunning(l) == test_plans[l].status \in {"draft", "ready"}

Editable(l) == test_plans[l].status = "draft"

UpdatePlan(l, cs) ==
  /\ Editable(l)
  /\ cs \subseteq Of(test_cases, test_plans[l].project)
  /\ test_plans' = [test_plans EXCEPT ![l].cases = cs]
  /\ UNCHANGED <<projects, test_suites, test_cases, executions, defects, snapshots, audited, faults>>

PlanBecomesReady(l) ==
  LET plan == test_plans[l]
  IN /\ plan.status = "draft"
     /\ Active(plan.project)
     /\ plan.cases # {}
     /\ \A c \in plan.cases : test_cases[c].project = plan.project /\ test_cases[c].status = "active"
     /\ test_plans' = [test_plans EXCEPT ![l].status = "ready"]
     /\ UNCHANGED <<projects, test_suites, test_cases, executions, defects, snapshots, audited, faults>>

PlanBecomesDraft(l) ==
  /\ test_plans[l].status = "ready"
  /\ ExecutionsOf(l) = {}
  /\ test_plans' = [test_plans EXCEPT ![l].status = "draft"]
  /\ UNCHANGED <<projects, test_suites, test_cases, executions, defects, snapshots, audited, faults>>

DeletePlan(l) ==
  /\ test_plans[l].status \in {"draft", "ready"}
  /\ ExecutionsOf(l) = {}
  /\ test_plans' = [test_plans EXCEPT ![l] = None]
  /\ UNCHANGED <<projects, test_suites, test_cases, executions, defects, snapshots, audited, faults>>

-----------------------------------------------------------------------------
(* Executions.                                                             *)

CreateExecution(x, l) ==
  /\ executions[x] = None
  /\ test_plans[l].status = "ready"
  /\ Active(test_plans[l].project)
  /\ ExecutionsOf(l) = {}
  /\ executions' = [executions EXCEPT ![x] =
       [plan |-> l, project |-> test_plans[l].project, status |-> "created",
        results |-> [c \in test_plans[l].cases |-> "not_run"]]]
  /\ UNCHANGED <<projects, test_suites, test_cases, test_plans, defects, snapshots, audited, faults>>

ExecutionMoves(x, target) ==
  LET execution == executions[x]
  IN CASE target = "running" ->
            /\ execution.status = "created"
            /\ Active(execution.project)
            /\ test_plans[execution.plan].status = "ready"
       [] target = "completed" ->
            /\ execution.status = "running"
            /\ \A c \in DOMAIN execution.results : execution.results[c] # "not_run"
       [] target = "cancelled" -> execution.status \in {"created", "running"}

\* _set_status_unlocked
PlanFollows(l, target) == test_plans' = [test_plans EXCEPT ![l].status = target]

\* The plan is written first.
TransitionExecution(x, target) ==
  /\ ExecutionMoves(x, target)
  /\ PlanFollows(executions[x].plan, target)
  /\ \/ executions' = [executions EXCEPT ![x].status = target] /\ UNCHANGED faults
     \/ Fault /\ UNCHANGED executions
  /\ UNCHANGED <<projects, test_suites, test_cases, defects, snapshots, audited>>

UpdateCaseResult(x, c, status) ==
  /\ executions[x].status = "running"
  /\ c \in DOMAIN executions[x].results
  /\ executions' = [executions EXCEPT ![x].results[c] = status]
  /\ UNCHANGED <<projects, test_suites, test_cases, test_plans, defects, snapshots, audited, faults>>

DeleteExecution(x) ==
  /\ executions[x].status = "created"
  /\ \A d \in Defects : defects[d] # None => defects[d].execution # x
  /\ executions' = [executions EXCEPT ![x] = None]
  /\ UNCHANGED <<projects, test_suites, test_cases, test_plans, defects, snapshots, audited, faults>>

-----------------------------------------------------------------------------
(* Defects.                                                                *)

\* _validate_associations
Associable(p, case, execution) ==
  /\ case # Nothing => test_cases[case].project = p
  /\ execution # Nothing =>
       executions[execution].project = p /\ executions[execution].status # "created"
  /\ case # Nothing /\ execution # Nothing => case \in DOMAIN executions[execution].results

CreateDefect(d, p, case, execution, assigned) ==
  /\ defects[d] = None
  /\ Active(p)
  /\ Associable(p, case, execution)
  /\ defects' = [defects EXCEPT ![d] =
       [project |-> p, case |-> case, execution |-> execution, status |-> "open",
        assigned |-> assigned, resolution |-> FALSE, closed_at |-> FALSE]]
  /\ Audit(d, "open")
  /\ UNCHANGED <<projects, test_suites, test_cases, test_plans, executions, snapshots>>

\* The project need not be active.
UpdateDefect(d, assigned) ==
  /\ defects[d].status \notin {"absent", "closed"}
  /\ defects[d].status = "in_progress" => assigned
  /\ defects' = [defects EXCEPT ![d].assigned = assigned]
  /\ UNCHANGED <<projects, test_suites, test_cases, test_plans, executions, snapshots, audited, faults>>

DefectTransitions ==
  [open |-> {"in_progress", "resolved"}, in_progress |-> {"open", "resolved"},
   resolved |-> {"verified", "reopened"}, verified |-> {"closed", "reopened"},
   closed |-> {"reopened"}, reopened |-> {"in_progress", "resolved"}, absent |-> {}]

AfterTransition(defect, target) ==
  [defect EXCEPT
    !.status = target,
    !.resolution = (target = "resolved" \/ (@ /\ target # "reopened")),
    !.closed_at = (target = "closed" \/ (@ /\ target \notin {"resolved", "reopened"}))]

TransitionDefect(d, target) ==
  /\ target \in DefectTransitions[defects[d].status]
  /\ Active(defects[d].project)
  /\ target = "in_progress" => defects[d].assigned
  /\ defects' = [defects EXCEPT ![d] = AfterTransition(defects[d], target)]
  /\ Audit(d, target)
  /\ UNCHANGED <<projects, test_suites, test_cases, test_plans, executions, snapshots>>

-----------------------------------------------------------------------------
(* Snapshots.                                                              *)

\* _suite_scope_ids
Scope(s, descendants) == IF descendants THEN {t \in Suites : s \in Chain(t)} ELSE {s}

\* The cases of a project, or of a suite and maybe of the suites below it.
Captured(p, scope, descendants) ==
  {c \in Of(test_cases, p) :
     scope # WholeProject => test_cases[c].suite \in Scope(scope, descendants)}

VersionAfter(p, scope) ==
  LET versions == {v.version : v \in {w \in snapshots : w.project = p /\ w.scope = scope}} \cup {0}
  IN 1 + CHOOSE n \in versions : \A k \in versions : k <= n

CreateSnapshot(p, scope, descendants) ==
  LET cs == Captured(p, scope, descendants)
      version == VersionAfter(p, scope)
  IN /\ Active(p)
     /\ scope # WholeProject => test_suites[scope].project = p
     /\ cs # {}
     /\ version <= MaxVersions
     /\ snapshots' = snapshots \cup
          {[project |-> p, scope |-> scope, version |-> version, cases |-> cs]}
     /\ UNCHANGED <<projects, test_suites, test_cases, test_plans, executions, defects, audited, faults>>

-----------------------------------------------------------------------------
(* The specification.                                                      *)

ProjectStep ==
  \E p \in Projects :
    \/ CreateProject(p)
    \/ \E target \in {"active", "archived"} : TransitionProject(p, target)
    \/ DeleteProject(p)

SuiteStep ==
  \E s \in Suites :
    \/ \E p \in Projects, parent \in Suites \cup {Root}, name \in Names : CreateSuite(s, p, parent, name)
    \/ \E parent \in Suites \cup {Root}, name \in Names : UpdateSuite(s, parent, name)
    \/ \E target \in {"active", "archived"} : TransitionSuite(s, target)
    \/ DeleteSuite(s)

CaseStep ==
  \E c \in Cases :
    \/ \E p \in Projects, suite \in Suites \cup {Root}, steps \in BOOLEAN : CreateCase(c, p, suite, steps)
    \/ \E suite \in Suites \cup {Root}, steps \in BOOLEAN : UpdateCase(c, suite, steps)
    \/ \E target \in {"active", "disabled"} : TransitionCase(c, target)
    \/ DeleteCase(c)

PlanStep ==
  \E l \in Plans :
    \/ \E p \in Projects, cs \in SUBSET Cases : CreatePlan(l, p, cs)
    \/ \E cs \in SUBSET Cases : UpdatePlan(l, cs)
    \/ PlanBecomesReady(l)
    \/ PlanBecomesDraft(l)
    \/ DeletePlan(l)

ExecutionStep ==
  \E x \in Executions :
    \/ \E l \in Plans : CreateExecution(x, l)
    \/ \E target \in {"running", "completed", "cancelled"} : TransitionExecution(x, target)
    \/ \E c \in Cases, status \in {"passed", "failed"} : UpdateCaseResult(x, c, status)
    \/ DeleteExecution(x)

DefectStep ==
  \E d \in Defects :
    \/ \E p \in Projects, case \in Cases \cup {Nothing}, execution \in Executions \cup {Nothing},
          assigned \in BOOLEAN : CreateDefect(d, p, case, execution, assigned)
    \/ \E assigned \in BOOLEAN : UpdateDefect(d, assigned)
    \/ \E target \in DOMAIN DefectTransitions : TransitionDefect(d, target)

SnapshotStep ==
  \E p \in Projects, scope \in Suites \cup {WholeProject}, descendants \in BOOLEAN :
    CreateSnapshot(p, scope, descendants)

TestNext ==
  \/ ProjectStep \/ SuiteStep \/ CaseStep \/ PlanStep \/ ExecutionStep \/ DefectStep \/ SnapshotStep

TestSpec == TestInit /\ [][TestNext]_testVars

-----------------------------------------------------------------------------
(* Properties.                                                             *)

SuiteRecords ==
  [project : Projects, parent : Suites \cup {Root}, name : Names, status : {"active", "archived"}]
CaseRecords ==
  [project : Projects, suite : Suites \cup {Root}, status : {"draft", "active", "disabled"},
   steps : BOOLEAN]
PlanRecords ==
  [project : Projects, status : {"draft", "ready", "running", "completed", "cancelled"},
   cases : SUBSET Cases]
ExecutionRecords ==
  [plan : Plans, project : Projects, status : {"created", "running", "completed", "cancelled"},
   results : UNION {[cs -> {"not_run", "passed", "failed"}] : cs \in SUBSET Cases}]
DefectRecords ==
  [project : Projects, case : Cases \cup {Nothing}, execution : Executions \cup {Nothing},
   status : {"open", "in_progress", "resolved", "verified", "closed", "reopened"},
   assigned : BOOLEAN, resolution : BOOLEAN, closed_at : BOOLEAN]

TestTypeOK ==
  /\ projects \in [Projects -> {"absent", "active", "archived"}]
  /\ test_suites \in [Suites -> SuiteRecords \cup {None}]
  /\ test_cases \in [Cases -> CaseRecords \cup {None}]
  /\ test_plans \in [Plans -> PlanRecords \cup {None}]
  /\ executions \in [Executions -> ExecutionRecords \cup {None}]
  /\ defects \in [Defects -> DefectRecords \cup {None}]
  /\ DOMAIN audited = Suites \cup Defects
  /\ faults \in 0..MaxFaults

InProject(table, i, p) == i \in DOMAIN table /\ table[i].project = p /\ projects[p] # "absent"

ReferencesResolve ==
  /\ \A s \in Suites : LET suite == test_suites[s] IN suite # None =>
       InProject(test_suites, IF suite.parent = Root THEN s ELSE suite.parent, suite.project)
  /\ \A c \in Cases : LET case == test_cases[c] IN case # None =>
       InProject(test_cases, c, case.project)
       /\ (case.suite # Root => InProject(test_suites, case.suite, case.project))
  /\ \A l \in Plans : LET plan == test_plans[l] IN plan # None =>
       InProject(test_plans, l, plan.project)
       /\ \A c \in plan.cases : InProject(test_cases, c, plan.project)
  /\ \A x \in Executions : LET execution == executions[x] IN execution # None =>
       InProject(test_plans, execution.plan, execution.project)
       /\ DOMAIN execution.results = test_plans[execution.plan].cases
  /\ \A d \in Defects : LET defect == defects[d] IN defect # None =>
       InProject(defects, d, defect.project)
       /\ (defect.case # Nothing => InProject(test_cases, defect.case, defect.project))
       /\ (defect.execution # Nothing => InProject(executions, defect.execution, defect.project))
  /\ \A v \in snapshots : projects[v.project] # "absent"

\* Following parents ends, and siblings have different names.
SuitesFormATree ==
  \A s \in Suites : test_suites[s] # None =>
    /\ \A t \in Chain(s) \ {s} : s \notin Chain(t)
    /\ UniqueName(test_suites[s].project, s, test_suites[s].parent, test_suites[s].name)

DefectFieldsAgree ==
  \A d \in Defects : LET defect == defects[d] IN defect # None =>
    /\ defect.resolution <=> defect.status \in {"resolved", "verified", "closed"}
    /\ defect.closed_at <=> defect.status = "closed"
    /\ defect.status = "in_progress" => defect.assigned

VersionsCount ==
  \A v \in snapshots :
    LET same == {w \in snapshots : w.project = v.project /\ w.scope = v.scope}
    IN {w.version : w \in same} = 1..Cardinality(same)

PlanAgrees(l) ==
  LET status == IF test_plans[l].status = "ready" THEN "created" ELSE test_plans[l].status
  IN /\ Cardinality(ExecutionsOf(l)) <= 1
     /\ \A x \in ExecutionsOf(l) : executions[x].status = status
     /\ status \in {"running", "completed", "cancelled"} => ExecutionsOf(l) # {}

\* A plan has at most one execution and the status that goes with it, and the
\* audit trail ends with the status of each suite and defect.  Every operation
\* that ended between its two writes can spoil this for one record, and no
\* later operation spreads the damage.
HalfDoneIsContained ==
  Cardinality({l \in Plans : ~PlanAgrees(l)})
    + Cardinality({s \in Suites : audited[s] # test_suites[s].status})
    + Cardinality({d \in Defects : audited[d] # defects[d].status}) <= faults

\* A project that is archived has no plan, execution or defect that is still
\* to be worked on, and none comes to it, even when operations end halfway.
ArchivedIsAtRest ==
  \A p \in Projects : projects[p] = "archived" =>
    /\ \A l \in Of(test_plans, p) : test_plans[l].status \in {"completed", "cancelled"}
    /\ \A x \in Of(executions, p) : executions[x].status \in {"completed", "cancelled"}
    /\ \A d \in Of(defects, p) : defects[d].status = "closed"

\* Deletes, moves and edits leave no record that names a missing one or one of
\* another project, an execution has a result for exactly the cases of its
\* plan, the suites form a forest with distinct siblings, a defect's dates and
\* resolution fit its status, the snapshots of a scope are numbered without a
\* gap, plans and audit trail are only behind by what ended halfway, and an
\* archived project is at rest.
RecordsAreConsistent ==
  /\ TestTypeOK
  /\ ReferencesResolve
  /\ SuitesFormATree
  /\ DefectFieldsAgree
  /\ VersionsCount
  /\ HalfDoneIsContained
  /\ ArchivedIsAtRest
  /\ \A c \in Cases : test_cases[c].status = "active" => test_cases[c].steps

\* What has been executed stays as it was: the results of an execution that
\* ended, the cases of a plan that has an execution, and the snapshots.
PastIsKept ==
  [][/\ \A x \in Executions : executions[x].status \in {"completed", "cancelled"} =>
          executions'[x] = executions[x]
     /\ \A l \in Plans : ExecutionsOf(l) # {} =>
          test_plans'[l] # None /\ test_plans'[l].cases = test_plans[l].cases
     /\ snapshots \subseteq snapshots']_testVars
=============================================================================
