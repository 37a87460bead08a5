---------------------------- MODULE FinanceAlerts ----------------------------
(* The alerts of the finance workbench: those of a new tax return, those that  *)
(* runFinanceAlerts raises as a payment deadline comes near and passes, and     *)
(* those of a settlement that does not agree with the books.  An alert has a    *)
(* dedupe key that is looked up before the alert is saved; nothing but that     *)
(* keeps it single.                                                             *)
EXTENDS Integers, Sequences, FiniteSets

CONSTANTS
    Watches,      \* requests that may be in progress together
    TaxReturns,   \* the returns there may be
    OnFile,       \* those generated and open at first
    Deadlines,    \* [TaxReturns -> time of the payment deadline]
    DayLength,    \* how many ticks of the clock a day has
    Milestones,   \* days before the deadline on which an alert is raised
    MaxClock,
    Payments,     \* captured payments: providerPaymentId -> amount
    Statements,   \* what a provider may send: sequences of [reference, amount]
    References,   \* statement references
    Tolerance,
    MaxReconciled,
    MaxTrouble    \* overlapping requests and deaths together

VARIABLES
    clock,
    filed,        \* per return: None, Open or Filed
    alerts,       \* FinanceAlertRecords; nth tells those of one key apart
    reconciled,   \* ReconciliationRunRecords
    watch,        \* per request: where it is, and its locals
    overlaps, faults

alertVars == <<clock, filed, alerts, reconciled, watch, overlaps, faults>>

None == "none"   \* the return is not there yet
Open == "open"   \* it is not FILED, REMITTED or LOCKED
IsOpen(r) == filed[r] = Open

(* A dedupe key names the return, the kind and the day; or the statement. *)
Key(r, type, days) == <<r, type, days>>
NoKey == <<>>
Off == [pc |-> "off", now |-> 0, todo |-> {}, listed |-> {}, key |-> NoKey, then |-> <<>>]
-----------------------------------------------------------------------------
(* Domain functions. *)

(* Math.ceil of a difference of times in days: the day of the deadline lasts *)
(* until a whole day after it.                                               *)
DaysUntil(deadline, now) == -((now - deadline) \div DayLength)

(* getRemittanceAlertDecision: the keys of the alerts due, none or one.      *)
getRemittanceAlertDecision(r, now) ==
    LET days == DaysUntil(Deadlines[r], now)
    IN  CASE days < 0 -> {Key(r, "OVERDUE_REMITTANCE", days)}
          [] days = 0 -> {Key(r, "DUE_TODAY", days)}
          [] days \in Milestones -> {Key(r, "UPCOMING_REMITTANCE", days)}
          [] OTHER -> {}

(* The last line of each reference is the one that counts. *)
LastOf(lines, ref) ==
    LET S == {i \in DOMAIN lines : lines[i].reference = ref}
    IN  lines[CHOOSE i \in S : \A j \in S : j <= i].amount
Lines(lines) == [ref \in {lines[i].reference : i \in DOMAIN lines} |-> LastOf(lines, ref)]

(* Mutant: what the books lack is not compared. *)
ReconcileMutant(books, settlement) ==
    \E ref \in DOMAIN books :
        ~(ref \in DOMAIN settlement /\ settlement[ref] - books[ref] \in -Tolerance..Tolerance)

(* reconcileSettlement: is there a line that does not match. *)
reconcileSettlement(books, settlement) ==
    \E ref \in DOMAIN books \cup DOMAIN settlement :
        ~(/\ ref \in DOMAIN books \cap DOMAIN settlement
          /\ settlement[ref] - books[ref] \in -Tolerance..Tolerance)
-----------------------------------------------------------------------------
StartWatch(w, k) ==
    /\ watch[w].pc = "off"
    /\ IF \A v \in Watches \ {w} : watch[v].pc = "off" THEN UNCHANGED overlaps
       ELSE overlaps + faults < MaxTrouble /\ overlaps' = overlaps + 1
    /\ watch' = [watch EXCEPT ![w] = k]
    /\ UNCHANGED faults
On(w, pc) == watch[w].pc = pc
Turn(w, k) == watch' = [watch EXCEPT ![w] = k] /\ UNCHANGED <<clock, filed, overlaps, faults>>

(* generateTaxReturn: the return, then its two alerts. *)
generateTaxReturn(w, r) ==
    /\ filed[r] = None
    /\ filed' = [filed EXCEPT ![r] = Open]
    /\ StartWatch(w, [Off EXCEPT !.pc = "create", !.now = clock,
                         !.key = Key(r, "RETURN_READY_FOR_REVIEW", 0),
                         !.then = <<Key(r, "APPROVAL_REQUIRED", 0)>>])
    /\ UNCHANGED <<clock, alerts, reconciled>>

(* reconcileProviderSettlement: the run, then the alert of a variance. *)
reconcileProviderSettlement(w) ==
    /\ Len(reconciled) < MaxReconciled
    /\ \E lines \in Statements, s \in References :
          LET variance == reconcileSettlement(Payments, Lines(lines))
          IN  /\ reconciled' = Append(reconciled,
                    [statement |-> s, lines |-> lines, variance |-> variance])
              /\ StartWatch(w, IF variance
                               THEN [Off EXCEPT !.pc = "create", !.now = clock,
                                        !.key = <<"reconciliation", s>>]
                               ELSE Off)
    /\ UNCHANGED <<clock, filed, alerts>>

(* runFinanceAlerts: the list of returns is read once. *)
listTaxReturns(w) ==
    /\ LET open == {r \in TaxReturns : IsOpen(r)}
       IN  StartWatch(w, [Off EXCEPT !.pc = "next", !.now = clock, !.todo = open, !.listed = open])
    /\ UNCHANGED <<clock, filed, alerts, reconciled>>

Copies(key) == {a \in alerts : a.key = key}
OnRecord(key) == Copies(key) # {}

(* The next return of the list, and whether its alert of the day is there. *)
hasAlertDedupeKey(w) ==
    /\ On(w, "next")
    /\ IF watch[w].todo = {} THEN Turn(w, Off)
       ELSE LET r == CHOOSE r \in watch[w].todo : TRUE     \* in the order of the list
                rest == [watch[w] EXCEPT !.todo = @ \ {r}]
                due == {k \in getRemittanceAlertDecision(r, watch[w].now) : ~OnRecord(k)}
            IN  Turn(w, IF due = {} THEN rest
                        ELSE [rest EXCEPT !.pc = "create", !.key = CHOOSE k \in due : TRUE])
    /\ UNCHANGED <<alerts, reconciled>>

(* What follows an alert: the second one of a return, the next return, or *)
(* nothing.                                                               *)
AfterAlert(k) ==
    IF k.then # <<>> THEN [k EXCEPT !.pc = "create", !.key = Head(k.then), !.then = <<>>]
    ELSE IF k.listed # {} THEN [k EXCEPT !.pc = "next", !.key = NoKey]
    ELSE Off

(* createFinanceAlert looks the key up, *)
createFinanceAlert(w) ==
    /\ On(w, "create")
    /\ Turn(w, IF OnRecord(watch[w].key) THEN AfterAlert(watch[w])
               ELSE [watch[w] EXCEPT !.pc = "save"])
    /\ UNCHANGED <<alerts, reconciled>>

(* and saves the alert under an id of its own. *)
saveFinanceAlert(w) ==
    /\ On(w, "save")
    /\ alerts' = alerts \cup {[key |-> watch[w].key, at |-> watch[w].now,
                               nth |-> Cardinality(Copies(watch[w].key)) + 1]}
    /\ Turn(w, AfterAlert(watch[w]))
    /\ UNCHANGED reconciled

(* Another request files the return (TaxReturnWorkbench). *)
FileReturn(r) ==
    /\ IsOpen(r)
    /\ filed' = [filed EXCEPT ![r] = "filed"]
    /\ UNCHANGED <<clock, alerts, reconciled, watch, overlaps, faults>>

PassTime ==
    /\ clock < MaxClock /\ clock' = clock + 1
    /\ UNCHANGED <<filed, alerts, reconciled, watch, overlaps, faults>>

Die(w) ==
    /\ ~On(w, "off")
    /\ overlaps + faults < MaxTrouble /\ faults' = faults + 1
    /\ watch' = [watch EXCEPT ![w] = Off]
    /\ UNCHANGED <<clock, filed, alerts, reconciled, overlaps>>

AlertsInit ==
    /\ clock = 0
    /\ filed = [r \in TaxReturns |-> IF r \in OnFile THEN Open ELSE None]
    /\ alerts = {} /\ reconciled = <<>>
    /\ watch = [w \in Watches |-> Off]
    /\ overlaps = 0 /\ faults = 0

AlertsNext ==
    \/ PassTime
    \/ \E r \in TaxReturns : FileReturn(r)
    \/ \E w \in Watches :
          \/ \E r \in TaxReturns : generateTaxReturn(w, r)
          \/ reconcileProviderSettlement(w) \/ listTaxReturns(w)
          \/ hasAlertDedupeKey(w) \/ createFinanceAlert(w) \/ saveFinanceAlert(w)
          \/ Die(w)
-----------------------------------------------------------------------------
(* Properties. *)

(* An alert is raised once, unless requests overlap. *)
RaisedOnce ==
    overlaps = 0 => \A a \in alerts : a.nth = 1

(* An alert says overdue exactly when its deadline is a day or more past, and *)
(* upcoming only before it, at the time its run began.                        *)
AlertsAreTrue ==
    \A a \in alerts :
        a.key[2] \in {"OVERDUE_REMITTANCE", "DUE_TODAY", "UPCOMING_REMITTANCE"} =>
        LET r == a.key[1]
        IN  /\ a.key[2] = "OVERDUE_REMITTANCE" <=> a.at >= Deadlines[r] + DayLength
            /\ a.key[2] = "UPCOMING_REMITTANCE" => a.at < Deadlines[r]

(* A run that comes to its end leaves none of the returns it listed without   *)
(* the alert of its day, however it overlapped with others.                  *)
NoneIsMissed ==
    [][\A w \in Watches :
          (On(w, "next") /\ watch[w].todo = {} /\ watch'[w] = Off) =>
          \A r \in watch[w].listed :
              \A k \in getRemittanceAlertDecision(r, watch[w].now) : OnRecord(k)]_alertVars

(* A settlement is found to differ exactly when it does, as far as each       *)
(* reference has one line, and the difference has its alert once the request *)
(* is done, unless it died.                                                  *)
DifferencesAreFlagged ==
    \A i \in DOMAIN reconciled :
        LET run == reconciled[i]
            single == \A a, b \in DOMAIN run.lines :
                         run.lines[a].reference = run.lines[b].reference => a = b
            Matches(ref, amount) == ref \in DOMAIN Payments
                                    /\ amount - Payments[ref] \in -Tolerance..Tolerance
        IN  /\ single =>
               (~run.variance <=>
                  /\ \A a \in DOMAIN run.lines : Matches(run.lines[a].reference, run.lines[a].amount)
                  /\ Len(run.lines) = Cardinality(DOMAIN Payments))
            /\ run.variance /\ faults = 0 /\ (\A w \in Watches : On(w, "off")) =>
                  OnRecord(<<"reconciliation", run.statement>>)

AlertsHold == [](RaisedOnce /\ AlertsAreTrue /\ DifferencesAreFlagged) /\ NoneIsMissed
=============================================================================
