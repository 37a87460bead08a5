------------------------- MODULE TaxReturnWorkbench -------------------------
(***************************************************************************)
(* The country tax-return workbench of the finance service.  One stored    *)
(* tax return is reviewed, approved behind the reconciliation gate, filed, *)
(* remitted, locked and finally corrected.  Every operation is a request   *)
(* handler that loads a copy of the record and then writes the WHOLE copy  *)
(* back at each "await saveTaxReturn": handlers interleave at the awaits,  *)
(* and a handler may die between two of them.                              *)
(*                                                                         *)
(* A handler h is at hs[h].pc; its copy of the return is hs[h].rec.  An    *)
(* operation that fails a check before its first write changes nothing and *)
(* is not an action; one that fails after a write is a disjunct of its own *)
(* that goes back to "idle".                                               *)
(***************************************************************************)
EXTENDS Integers, Sequences, FiniteSets

CONSTANTS
    Handlers,        \* request handlers that may be in flight together
    Actors,          \* normalised actor names: userId, or the role
    NoActor,         \* the absent approver, compared as ''
    Dues,            \* computedTaxDue of the generated return
    Amounts,         \* signed correction amounts a request may carry
    Thresholds,      \* dualApprovalThresholdAmount of the requests; the default if absent
    AttachKinds,     \* evidence kinds the requests carry
    MaxCorrections,  \* bound on the corrections posted to the return
    MaxOverlaps      \* bound on the requests that begin while another runs

ASSUME ActorAssumption == NoActor \notin Actors
ASSUME AmountAssumption ==
    Dues \subseteq Nat /\ Amounts \subseteq Int /\ Thresholds \subseteq Nat

VARIABLES
    ret,      \* the stored TaxReturnRecord
    lastRun,  \* newest reconciliation run that covers the country
    alert,    \* is a RECONCILIATION_VARIANCE alert open?
    ledger,   \* amounts of the TAX_PERIOD_CORRECTION ledger entries, in order
    hs,       \* the handlers
    overlaps  \* requests begun so far while another was in progress

vars == <<ret, lastRun, alert, ledger, hs, overlaps>>

Statuses == {"DRAFT", "IN_REVIEW", "APPROVED", "FILED", "REMITTED", "LOCKED"}

EvidenceKinds == {"FILING_CONFIRMATION", "REMITTANCE_RECEIPT",
                  "AUTHORITY_REFERENCE", "ACCOUNTANT_NOTES",
                  "BOARD_APPROVAL", "PERIOD_CORRECTION"}

ASSUME KindAssumption == AttachKinds \subseteq EvidenceKinds

taxReturnTransitions ==
    {<<"DRAFT", "IN_REVIEW">>, <<"IN_REVIEW", "APPROVED">>,
     <<"APPROVED", "FILED">>, <<"FILED", "REMITTED">>, <<"REMITTED", "LOCKED">>}

Correction == [amount : Int, previous : Int, next : Int]

(* The threshold is history: the one of the request that signed the filing, *)
(* which the code checks against and does not store.                       *)
Return == [status : Statuses, evidence : SUBSET EvidenceKinds,
           reviewer : Actors \cup {NoActor}, filer : Actors \cup {NoActor},
           remitted : BOOLEAN,
           opening : Nat, due : Nat, corrections : Seq(Correction),
           threshold : Nat]

PCs == {"idle", "submit.save",
        "approve.runs", "approve.alerts", "approve.save", "approve.sign",
        "attach.save",
        "file.evidence", "file.save", "file.sign",
        "remit.evidence", "remit.save", "remit.stamp",
        "lock.save", "lock.stamp",
        "correct.evidence", "correct.save", "correct.ledger",
        "reconcile.alert"}

(* A handler with the inputs its later steps still need: the actor where   *)
(* the operation signs the return, NoActor where it only annotates it; the *)
(* amount is the correction's, or the threshold of a filing.               *)
Handler == [pc : PCs, rec : Return, by : Actors \cup {NoActor},
            kind : EvidenceKinds, amount : Int]
-----------------------------------------------------------------------------
(* The domain rules, packages/domain/src/finance.ts.                       *)

Locked(r) == r.status = "LOCKED"

requiresSeparateFilingApprover(amount, threshold) == amount >= threshold

(* Review and filing are signed by two people above the threshold the      *)
(* request brings along. An absent reviewer is '' in the comparison, hence *)
(* different from anyone.                                                  *)
FilingSeparated(r, by, threshold) ==
    requiresSeparateFilingApprover(r.due, threshold) => r.reviewer # by

AbsVal(n) == IF n < 0 THEN -n ELSE n

CorrectionSeparated(r, amount, by, threshold) ==
    requiresSeparateFilingApprover(AbsVal(amount), threshold)
        => r.filer # NoActor /\ r.filer # by

CorrectionApplies(r, amount) == amount # 0 /\ r.due + amount >= 0

evaluateTaxPeriodCompletion(r) ==
    /\ r.status \in {"REMITTED", "LOCKED"}
    /\ {"FILING_CONFIRMATION", "REMITTANCE_RECEIPT"} \subseteq r.evidence
    /\ r.reviewer # NoActor
    /\ r.filer # NoActor
    /\ r.remitted
-----------------------------------------------------------------------------
(* How a handler moves: Load starts one on a fresh copy, Save writes the   *)
(* whole copy back, Stop ends it.                                          *)

CountOverlap(h) ==
    IF \A g \in Handlers \ {h} : hs[g].pc = "idle" THEN UNCHANGED overlaps
    ELSE overlaps < MaxOverlaps /\ overlaps' = overlaps + 1

Load(h, pc, by, kind, amount) ==
    /\ hs[h].pc = "idle"
    /\ hs' = [hs EXCEPT ![h] = [pc |-> pc, rec |-> ret, by |-> by,
                                kind |-> kind, amount |-> amount]]
    /\ CountOverlap(h)
    /\ UNCHANGED <<ret, lastRun, alert, ledger>>

Blank(d) == [status |-> "DRAFT", evidence |-> {}, reviewer |-> NoActor,
             filer |-> NoActor, remitted |-> FALSE,
             opening |-> d, due |-> d, corrections |-> <<>>, threshold |-> 0]

(* A finished handler keeps nothing. *)
Resting == [pc |-> "idle", rec |-> Blank(0), by |-> NoActor,
            kind |-> "ACCOUNTANT_NOTES", amount |-> 0]

(* Handler k, come to pc with the copy r. *)
At(k, r, pc) == [pc |-> pc, rec |-> r, by |-> k.by,
                 kind |-> k.kind, amount |-> k.amount]

Advance(h, r, pc) ==
    hs' = [hs EXCEPT ![h] = IF pc = "idle" THEN Resting ELSE At(@, r, pc)]

Goto(h, pc) == Advance(h, hs[h].rec, pc)

(* saveTaxReturn(r), r being the handler's modified copy, then pc. *)
Save(h, r, pc) ==
    /\ ret' = r
    /\ Advance(h, r, pc)
    /\ UNCHANGED <<lastRun, alert, ledger, overlaps>>

Stop(h) == Goto(h, "idle") /\ UNCHANGED <<ret, lastRun, alert, ledger, overlaps>>

CanMove(r, to) == <<r.status, to>> \in taxReturnTransitions

(* transitionTaxReturn: refuse a move the table lacks, or save it. *)
Transition(h, to, pc) ==
    \/ /\ CanMove(hs[h].rec, to)
       /\ Save(h, [hs[h].rec EXCEPT !.status = to], pc)
    \/ ~CanMove(hs[h].rec, to) /\ Stop(h)

addTaxReturnEvidence(h, pc) ==
    Save(h, [hs[h].rec EXCEPT !.evidence = @ \cup {hs[h].kind}], pc)
-----------------------------------------------------------------------------
(* generateTaxReturn has just stored the DRAFT. *)
Init ==
    /\ \E d \in Dues : ret = Blank(d)
    /\ lastRun = "none"
    /\ alert = FALSE
    /\ ledger = <<>>
    /\ hs = [h \in Handlers |-> Resting]
    /\ overlaps = 0

(* submitTaxReturn *)
SubmitLoad(h) ==
    ~Locked(ret) /\ Load(h, "submit.save", NoActor, "ACCOUNTANT_NOTES", 0)

SubmitSave(h) == hs[h].pc = "submit.save" /\ Transition(h, "IN_REVIEW", "idle")

(* approveTaxReturn: both reconciliation reads come before the transition, *)
(* and the signature is a second write.                                    *)
ApproveLoad(h, by) ==
    ~Locked(ret) /\ Load(h, "approve.runs", by, "ACCOUNTANT_NOTES", 0)

ApproveRuns(h) ==
    /\ hs[h].pc = "approve.runs"
    /\ Goto(h, IF lastRun = "clean" THEN "approve.alerts" ELSE "idle")
    /\ UNCHANGED <<ret, lastRun, alert, ledger, overlaps>>

ApproveAlerts(h) ==
    /\ hs[h].pc = "approve.alerts"
    /\ Goto(h, IF alert THEN "idle" ELSE "approve.save")
    /\ UNCHANGED <<ret, lastRun, alert, ledger, overlaps>>

ApproveSave(h) ==
    hs[h].pc = "approve.save" /\ Transition(h, "APPROVED", "approve.sign")

ApproveSign(h) ==
    /\ hs[h].pc = "approve.sign"
    /\ Save(h, [hs[h].rec EXCEPT !.reviewer = hs[h].by], "idle")

(* Mutant: a locked period takes evidence. *)
AttachLoadMutant(h, kind) == Load(h, "attach.save", NoActor, kind, 0)

(* attachTaxReturnEvidence *)
AttachLoad(h, kind) == ~Locked(ret) /\ Load(h, "attach.save", NoActor, kind, 0)

AttachSave(h) == hs[h].pc = "attach.save" /\ addTaxReturnEvidence(h, "idle")

(* Mutant: the two people rule is not applied. *)
FileLoadMutant(h, by, kind, threshold) ==
    ~Locked(ret) /\ Load(h, "file.evidence", by, kind, threshold)

(* fileTaxReturn: the evidence is written before the status is checked. *)
FileLoad(h, by, kind, threshold) ==
    /\ ~Locked(ret)
    /\ FilingSeparated(ret, by, threshold)
    /\ Load(h, "file.evidence", by, kind, threshold)

FileEvidence(h) ==
    hs[h].pc = "file.evidence" /\ addTaxReturnEvidence(h, "file.save")

(* Mutant: the confirmation is not required. *)
FileSaveMutant(h) ==
    hs[h].pc = "file.save" /\ Transition(h, "FILED", "file.sign")

FileSave(h) ==
    /\ hs[h].pc = "file.save"
    /\ \/ /\ "FILING_CONFIRMATION" \in hs[h].rec.evidence
          /\ Transition(h, "FILED", "file.sign")
       \/ "FILING_CONFIRMATION" \notin hs[h].rec.evidence /\ Stop(h)

FileSign(h) ==
    /\ hs[h].pc = "file.sign"
    /\ Save(h, [hs[h].rec EXCEPT !.filer = hs[h].by, !.threshold = hs[h].amount], "idle")

(* remitTaxReturn *)
RemitLoad(h, kind) == ~Locked(ret) /\ Load(h, "remit.evidence", NoActor, kind, 0)

RemitEvidence(h) ==
    hs[h].pc = "remit.evidence" /\ addTaxReturnEvidence(h, "remit.save")

RemitSave(h) ==
    /\ hs[h].pc = "remit.save"
    /\ \/ /\ "REMITTANCE_RECEIPT" \in hs[h].rec.evidence
          /\ Transition(h, "REMITTED", "remit.stamp")
       \/ "REMITTANCE_RECEIPT" \notin hs[h].rec.evidence /\ Stop(h)

RemitStamp(h) ==
    /\ hs[h].pc = "remit.stamp"
    /\ Save(h, [hs[h].rec EXCEPT !.remitted = TRUE], "idle")

(* Mutant: the period need not be complete. *)
LockLoadMutant(h) ==
    ~Locked(ret) /\ Load(h, "lock.save", NoActor, "ACCOUNTANT_NOTES", 0)

(* lockTaxReturn; the second write only adds the lockedAt stamp, which no  *)
(* rule reads, yet it is a write of the whole copy.                        *)
LockLoad(h) ==
    /\ ~Locked(ret)
    /\ evaluateTaxPeriodCompletion(ret)
    /\ Load(h, "lock.save", NoActor, "ACCOUNTANT_NOTES", 0)

LockSave(h) == hs[h].pc = "lock.save" /\ Transition(h, "LOCKED", "lock.stamp")

LockStamp(h) ==
    /\ hs[h].pc = "lock.stamp"
    /\ Save(h, hs[h].rec, "idle")

(* Mutant: a correction does not need the lock. *)
CorrectLoadMutant(h, by, amount, threshold) ==
    /\ CorrectionSeparated(ret, amount, by, threshold)
    /\ CorrectionApplies(ret, amount)
    /\ Len(ret.corrections) < MaxCorrections
    /\ Load(h, "correct.evidence", by, "PERIOD_CORRECTION", amount)

(* correctTaxReturn: evidence, then the corrected amount, then the ledger. *)
CorrectLoad(h, by, amount, threshold) ==
    /\ Locked(ret)
    /\ CorrectionSeparated(ret, amount, by, threshold)
    /\ CorrectionApplies(ret, amount)
    /\ Len(ret.corrections) < MaxCorrections
    /\ Load(h, "correct.evidence", by, "PERIOD_CORRECTION", amount)

CorrectEvidence(h) ==
    hs[h].pc = "correct.evidence" /\ addTaxReturnEvidence(h, "correct.save")

Corrected(r, amount) ==
    [r EXCEPT !.due = r.due + amount,
              !.corrections = Append(r.corrections,
                  [amount |-> amount, previous |-> r.due,
                   next |-> r.due + amount])]

CorrectSave(h) ==
    /\ hs[h].pc = "correct.save"
    /\ Save(h, Corrected(hs[h].rec, hs[h].amount), "correct.ledger")

CorrectLedger(h) ==
    /\ hs[h].pc = "correct.ledger"
    /\ Len(ledger) < MaxCorrections
    /\ ledger' = Append(ledger, hs[h].amount)
    /\ Goto(h, "idle")
    /\ UNCHANGED <<ret, lastRun, alert, overlaps>>

(* reconcileProviderSettlement, as far as the gate sees it: the run is     *)
(* stored first, the alert of a variance afterwards.                       *)
Reconcile(h, outcome) ==
    /\ hs[h].pc = "idle"
    /\ lastRun' = outcome
    /\ Goto(h, IF outcome = "variance" THEN "reconcile.alert" ELSE "idle")
    /\ CountOverlap(h)
    /\ UNCHANGED <<ret, alert, ledger>>

ReconcileAlert(h) ==
    /\ hs[h].pc = "reconcile.alert"
    /\ alert' = TRUE
    /\ Goto(h, "idle")
    /\ UNCHANGED <<ret, lastRun, ledger, overlaps>>

(* The process dies, or a write is refused, between two awaits. *)
Abort(h) == hs[h].pc # "idle" /\ Stop(h)
-----------------------------------------------------------------------------
Start(h) ==
    \/ SubmitLoad(h) \/ LockLoad(h)
    \/ \E kind \in AttachKinds : AttachLoad(h, kind) \/ RemitLoad(h, kind)
    \/ \E by \in Actors :
          \/ ApproveLoad(h, by)
          \/ \E kind \in AttachKinds, t \in Thresholds : FileLoad(h, by, kind, t)
          \/ \E amount \in Amounts, t \in Thresholds : CorrectLoad(h, by, amount, t)
    \/ \E outcome \in {"clean", "variance"} : Reconcile(h, outcome)

Continue(h) ==
    \/ SubmitSave(h)
    \/ ApproveRuns(h) \/ ApproveAlerts(h) \/ ApproveSave(h) \/ ApproveSign(h)
    \/ AttachSave(h)
    \/ FileEvidence(h) \/ FileSave(h) \/ FileSign(h)
    \/ RemitEvidence(h) \/ RemitSave(h) \/ RemitStamp(h)
    \/ LockSave(h) \/ LockStamp(h)
    \/ CorrectEvidence(h) \/ CorrectSave(h) \/ CorrectLedger(h)
    \/ ReconcileAlert(h)

Next == \E h \in Handlers : Start(h) \/ Continue(h) \/ Abort(h)

Spec == Init /\ [][Next]_vars
-----------------------------------------------------------------------------
(* Properties.                                                             *)

(* Every stored value and every copy a handler holds has its type.         *)
TypeOK ==
    /\ ret \in Return
    /\ lastRun \in {"none", "clean", "variance"}
    /\ alert \in BOOLEAN
    /\ ledger \in Seq(Int)
    /\ hs \in [Handlers -> Handler]

(* However handlers interleave, overwrite each other and die, a return     *)
(* never stands as filed without a filing confirmation, nor as remitted    *)
(* without a remittance receipt (fileTaxReturn and remitTaxReturn write    *)
(* the evidence before they check the status).                             *)
EvidenceBacked ==
    /\ ret.status \in {"FILED", "REMITTED", "LOCKED"}
          => "FILING_CONFIRMATION" \in ret.evidence
    /\ ret.status \in {"REMITTED", "LOCKED"}
          => "REMITTANCE_RECEIPT" \in ret.evidence

(* A period that is locked was complete: both approvers and the remittance *)
(* date are on the record, whatever was lost to an overwrite before        *)
(* (lockTaxReturn, evaluateTaxPeriodCompletion).                           *)
LockedIsComplete == Locked(ret) => evaluateTaxPeriodCompletion(ret)

(* The two people rule survives to the lock: a locked return whose tax was *)
(* at the threshold of the request that filed it carries two different     *)
(* signatures, although fileTaxReturn itself may be fooled by a missing    *)
(* reviewer.  No more is promised: a request that brings a threshold of its *)
(* own above the tax files alone, and lockTaxReturn does not look again.   *)
LockedUnderDualControl ==
    Locked(ret) /\ requiresSeparateFilingApprover(ret.opening, ret.threshold)
        => ret.reviewer # ret.filer

(* The corrections of r lead from the tax it was generated with, opening,  *)
(* to the tax it now shows, due, and exist only behind a lock.             *)
Chained(r) ==
    LET cs == r.corrections IN
    /\ \A i \in 1..Len(cs) :
          /\ cs[i].previous = (IF i = 1 THEN r.opening ELSE cs[i - 1].next)
          /\ cs[i].next = cs[i].previous + cs[i].amount
    /\ r.due = (IF cs = <<>> THEN r.opening ELSE cs[Len(cs)].next)
    /\ cs # <<>> => Locked(r)

(* The corrections of the stored return form an unbroken chain behind a    *)
(* lock, and the tax is never negative: no overwrite tears the record      *)
(* (correctTaxReturn, applyTaxReturnCorrection).                           *)
CorrectionChain == Chained(ret) /\ ret.due >= 0

(* A locked period changes through the correction workflow only            *)
(* (assertTaxReturnPeriodUnlocked).                                        *)
LockHolds ==
    Locked(ret) =>
         /\ Locked(ret')
         /\ ret'.evidence \ ret.evidence \subseteq {"PERIOD_CORRECTION"}
         /\ ret.evidence \subseteq ret'.evidence
         /\ ret'.reviewer = ret.reviewer /\ ret'.filer = ret.filer

(* As long as requests come one at a time, whichever of them die midway, a *)
(* locked period changes through the correction workflow only, and a return *)
(* becomes APPROVED only while the newest reconciliation is clean and no   *)
(* alert is open (approveTaxReturn).                                       *)
GatesHoldAlone ==
    [][overlaps' = 0 =>
          /\ LockHolds
          /\ ret'.status = "APPROVED" /\ ret.status # "APPROVED"
                => lastRun = "clean" /\ ~alert]_vars

Posted(amount) ==
    {i \in DOMAIN ret.corrections : ret.corrections[i].amount = amount}

Booked(amount) == {i \in DOMAIN ledger : ledger[i] = amount}

(* Every TAX_PERIOD_CORRECTION entry of the tax ledger has its correction  *)
(* on the return (correctTaxReturn stores the return first), as long as    *)
(* no overlapping request has written its stale copy over it.              *)
LedgerIsBacked ==
    overlaps = 0 => \A amount \in Amounts :
        Cardinality(Booked(amount)) <= Cardinality(Posted(amount))

(* What stands behind the return is there: the records of a locked period, *)
(* and the corrections of the ledger's entries.                            *)
RecordsBehindReturn == LockedIsComplete /\ LedgerIsBacked
=============================================================================
