------------------------ MODULE MCTaxReturnWorkbench ------------------------
(* Small instances of the finance service's tax side: a behaviour is about one *)
(* tax return on the workbench, the tax books behind the returns, or the alerts *)
(* (focus).                                                                    *)
EXTENDS TaxReturnWorkbench, TLC

VARIABLES focus, faults,
          stripeTax, profile, rules, snapshots, entries, returns, clerk, lost, configured,
          clock, filed, alerts, reconciled, watch

(* Amounts in units of half the dual-control threshold: 2 stands for the   *)
(* 10,000 of defaultDualApprovalThresholdAmount, 3 for a threshold that a  *)
(* request brings along and no tax here reaches.                           *)
MCDues == {2}
MCAmounts == {-2, 2}
MCThresholds == {2, 3}

Books == INSTANCE TaxBooks WITH
    Clerks <- Handlers, ledger <- entries,
    Rates <- {28}, Sales <- {400}, Days <- {0, 1}, Period <- {0}, MinorUnit <- 100,
    MaxConfigured <- 2, MaxRules <- 2, MaxSnapshots <- 2, MaxReturns <- 1,
    MaxOverlaps <- 1, MaxFaults <- 1

(* Deadlines in the middle of the first and of the second day, of two ticks each. *)
MCDeadlines == [a |-> 1, b |-> 3]
MCPayments == [p |-> 3, q |-> 5]
Line(r, n) == [reference |-> r, amount |-> n]
MCStatements ==
    { <<Line("p", 3), Line("q", 6)>>,                       \* within the tolerance
      <<Line("p", 3), Line("q", 5), Line("x", -3)>> }       \* a refund

Alerts == INSTANCE FinanceAlerts WITH
    Watches <- Handlers, TaxReturns <- {"a", "b"}, OnFile <- {"b"}, Deadlines <- MCDeadlines,
    DayLength <- 2, Milestones <- {1}, MaxClock <- 3,
    Payments <- MCPayments, Statements <- MCStatements, References <- {"s"}, Tolerance <- 1,
    MaxReconciled <- 1, MaxTrouble <- 1

returnVars == <<ret, lastRun, alert, ledger, hs>>
bookVars == <<stripeTax, profile, rules, snapshots, entries, returns, clerk, lost, configured>>
alertVars == <<clock, filed, alerts, reconciled, watch>>

FinanceInit ==
    /\ focus \in {"workbench", "books", "alerts"}
    /\ IF focus = "workbench" THEN Init
       ELSE Init /\ ret.due = CHOOSE d \in Dues : TRUE
    /\ Books!BooksInit /\ (focus # "books" => stripeTax = FALSE)
    /\ Alerts!AlertsInit

FinanceNext ==
    /\ UNCHANGED focus
    /\ \/ /\ focus = "workbench" /\ Next
          /\ UNCHANGED <<bookVars, alertVars, faults>>
       \/ /\ focus = "books" /\ Books!BooksNext
          /\ UNCHANGED <<returnVars, alertVars>>
       \/ /\ focus = "alerts" /\ Alerts!AlertsNext
          /\ UNCHANGED <<returnVars, bookVars>>

FinanceSpec ==
    FinanceInit /\ [][FinanceNext]_<<focus, vars, bookVars, alertVars, faults>>

(* Snapshots, ledger and returns agree under the rules in force, and an      *)
(* alert is raised when it is due, once.                                     *)
TaxesHold == []Books!BooksHold /\ Alerts!AlertsHold

(* Actors and handlers are interchangeable. *)
Symmetry == Permutations(Actors) \cup Permutations(Handlers)
=============================================================================
