--------------------------- MODULE TaskReports ---------------------------
(***************************************************************************)
(* What compiler_base's Executor promises the notifier it is given: every  *)
(* task is announced once, then possibly reported as timed out once, then  *)
(* reported finished once; never more than Capacity tasks are between      *)
(* their announcement and their final report; and a run that returns Ok    *)
(* has reported every task.  Nothing is said of threads, of the channel or *)
(* of the clock.                                                           *)
(***************************************************************************)
EXTENDS Naturals, FiniteSets

CONSTANTS Tasks, Capacity

VARIABLES
    report,   \* report[t]: the last event the notifier has seen of t
    outcome   \* what run_all_tasks returned, or "running"

reportVars == <<report, outcome>>

Active == {t \in Tasks : report[t] \in {"Wait", "Timeout"}}

ReportsInit == /\ report = [t \in Tasks |-> "none"]
               /\ outcome = "running"

\* A task is announced only while there is room for one more.
Announce(t) == /\ report[t] = "none"
               /\ Cardinality(Active) < Capacity
               /\ report' = [report EXCEPT ![t] = "Wait"]

\* Several tasks may pass their deadline at once.
PassDeadline == \E late \in SUBSET Active :
                   /\ late # {}
                   /\ \A t \in late : report[t] = "Wait"
                   /\ report' = [t \in Tasks |-> IF t \in late THEN "Timeout" ELSE report[t]]

Complete(t) == /\ t \in Active
               /\ report' = [report EXCEPT ![t] = "Finished"]

\* An event may be the last one: the notifier can fail on it.
ReportsStep == /\ outcome = "running"
               /\ \/ \E t \in Tasks : Announce(t) \/ Complete(t)
                  \/ PassDeadline
               /\ outcome' \in {"running", "error"}

\* A bug is returned in place of the last report, an error in place of any.
Return == /\ outcome = "running"
          /\ \/ /\ outcome' = "ok"
                /\ \A t \in Tasks : report[t] = "Finished"
             \/ outcome' = "bug" /\ Active # {}
             \/ outcome' = "error"
          /\ UNCHANGED report

ReportsNext == ReportsStep \/ Return

ReportsSpec == ReportsInit /\ [][ReportsNext]_reportVars
=============================================================================
