---------------------------- MODULE DataTransfer ----------------------------
(***************************************************************************)
(* The import of a file of test cases or defects, on top of TestManagement.*)
(*                                                                         *)
(* The file is checked against cases, suites and executions that are read  *)
(* one after the other and without the business lock.  The rows are then   *)
(* written one by one with the services of TestManagement, each of which   *)
(* takes the lock and checks again, so that other requests come between.   *)
(***************************************************************************)
EXTENDS TestManagement, Sequences

CONSTANT ImportFiles  \* [entity, clean, rows]: a row is [key, wellformed, suite, case, execution]

ASSUME ImportFilesAssumption ==
  \A file \in ImportFiles :
    /\ Len(file.rows) \in Nat /\ DOMAIN file.rows = 1..Len(file.rows)
    /\ \A i \in DOMAIN file.rows :
         /\ file.rows[i].suite \in Suites \cup {Root}
         /\ file.rows[i].case \in Cases \cup {Nothing}
         /\ file.rows[i].execution \in Executions \cup {Nothing}

VARIABLE batch  \* the import under way, and its result

transferVars == <<testVars, batch>>

TransferInit == TestInit /\ batch = [at |-> "none"]

ImportBegins(p, file) ==
  /\ batch.at = "none"
  /\ Active(p)
  /\ batch' = [at |-> "reading", project |-> p, file |-> file, seen |-> << >>, results |-> << >>,
               undisturbed |-> TRUE]
  /\ UNCHANGED testVars

Tables == [test_cases |-> test_cases, test_suites |-> test_suites, executions |-> executions]

\* One of the three reads of asyncio.gather.
ImportReads(name) ==
  /\ batch.at = "reading"
  /\ name \notin DOMAIN batch.seen
  /\ batch' = [batch EXCEPT !.seen =
       [n \in DOMAIN @ \cup {name} |-> IF n = name THEN Tables[name] ELSE batch.seen[n]]]
  /\ UNCHANGED testVars

\* _resolve_suite
SuiteResolves(seen, p, suite) ==
  \A t \in ChainIn(seen.test_suites, suite) :
    seen.test_suites[t].project = p /\ seen.test_suites[t].status = "active"

\* Faulty variant: an execution that has not begun may have a defect.
AssociationsResolveEarly(seen, p, case, execution) ==
  /\ case # Nothing => seen.test_cases[case].project = p
  /\ execution # Nothing => seen.executions[execution].project = p
  /\ case # Nothing /\ execution # Nothing => case \in DOMAIN seen.executions[execution].results

\* _validate_defect_associations
AssociationsResolve(seen, p, case, execution) ==
  /\ case # Nothing => seen.test_cases[case].project = p
  /\ execution # Nothing =>
       seen.executions[execution].project = p /\ seen.executions[execution].status # "created"
  /\ case # Nothing /\ execution # Nothing => case \in DOMAIN seen.executions[execution].results

DuplicateKey(rows, i) == \E k \in DOMAIN rows \ {i} : rows[k].key = rows[i].key

ValidRow(i) ==
  LET rows == batch.file.rows
      row == rows[i]
  IN /\ row.wellformed
     /\ ~DuplicateKey(rows, i)
     /\ IF batch.file.entity = "test_cases"
          THEN SuiteResolves(batch.seen, batch.project, row.suite)
          ELSE AssociationsResolve(batch.seen, batch.project, row.case, row.execution)

Skipped == [status |-> "skipped"]
Reports(result) == batch' = [batch EXCEPT !.results = Append(@, result)]

\* With the clean gate one invalid row keeps every row out.
ImportIsPrepared ==
  /\ batch.at = "reading"
  /\ DOMAIN batch.seen = DOMAIN Tables
  /\ batch' = IF batch.file.clean /\ \E i \in DOMAIN batch.file.rows : ~ValidRow(i)
                THEN [batch EXCEPT !.at = "reported", !.results = [i \in DOMAIN batch.file.rows |-> Skipped]]
                ELSE [batch EXCEPT !.at = "writing"]
  /\ UNCHANGED testVars

NextRow == batch.file.rows[Len(batch.results) + 1]
RowsLeft == batch.at = "writing" /\ Len(batch.results) < Len(batch.file.rows)

ImportSkipsRow ==
  /\ RowsLeft
  /\ ~ValidRow(Len(batch.results) + 1)
  /\ Reports(Skipped)
  /\ UNCHANGED testVars

Refuses(p, row) ==
  \/ ~Active(p)
  \/ batch.file.entity = "test_cases" /\ ~AcceptsCases(p, row.suite)
  \/ batch.file.entity = "defects" /\ ~Associable(p, row.case, row.execution)

ImportFailsRow ==
  /\ RowsLeft
  /\ ValidRow(Len(batch.results) + 1)
  /\ Refuses(batch.project, NextRow)
  /\ Reports([status |-> "failed"])
  /\ UNCHANGED testVars

ImportCreatesCase(c) ==
  /\ RowsLeft
  /\ batch.file.entity = "test_cases"
  /\ ValidRow(Len(batch.results) + 1)
  /\ CreateCase(c, batch.project, NextRow.suite, TRUE)
  /\ Reports([status |-> "created", id |-> c])

\* A defect whose audit event is lost ends the import without a report.
ImportCreatesDefect(d) ==
  /\ RowsLeft
  /\ batch.file.entity = "defects"
  /\ ValidRow(Len(batch.results) + 1)
  /\ CreateDefect(d, batch.project, NextRow.case, NextRow.execution, FALSE)
  /\ IF faults' = faults
       THEN Reports([status |-> "created", id |-> d])
       ELSE batch' = [batch EXCEPT !.at = "aborted"]

\* An error that is no DomainError, a cancelled request or a crash.
ImportAborts ==
  /\ batch.at \in {"reading", "writing"}
  /\ Fault
  /\ batch' = [batch EXCEPT !.at = "aborted"]
  /\ UNCHANGED <<projects, test_suites, test_cases, test_plans, executions, defects, snapshots, audited>>

ImportReports ==
  /\ batch.at = "writing"
  /\ Len(batch.results) = Len(batch.file.rows)
  /\ batch' = [batch EXCEPT !.at = "reported"]
  /\ UNCHANGED testVars

\* Any other request.
OtherRequest ==
  /\ TestNext
  /\ batch' = IF batch.at \in {"reading", "writing"} THEN [batch EXCEPT !.undisturbed = FALSE] ELSE batch

TransferNext ==
  \/ \E p \in Projects, file \in ImportFiles : ImportBegins(p, file)
  \/ \E name \in DOMAIN Tables : ImportReads(name)
  \/ ImportIsPrepared
  \/ ImportSkipsRow
  \/ ImportFailsRow
  \/ \E c \in Cases : ImportCreatesCase(c)
  \/ \E d \in Defects : ImportCreatesDefect(d)
  \/ ImportAborts
  \/ ImportReports
  \/ OtherRequest

TransferSpec == TransferInit /\ [][TransferNext]_transferVars

-----------------------------------------------------------------------------
(* Properties.                                                             *)

\* The check before an import and the services that write its rows agree: a
\* row that was found valid is refused only if another request came between.
\* With the clean gate the rows are either all tried or all skipped.
PreviewIsHonoured ==
  batch.at = "reported" =>
    LET ended == {batch.results[i].status : i \in DOMAIN batch.results}
    IN /\ Len(batch.results) = Len(batch.file.rows)
       /\ batch.undisturbed => "failed" \notin ended
       /\ batch.file.clean => "skipped" \notin ended \/ ended = {"skipped"}
=============================================================================
