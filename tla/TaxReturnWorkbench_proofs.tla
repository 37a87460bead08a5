---------------------- MODULE TaxReturnWorkbench_proofs ----------------------
(* What the tax-return workbench guarantees for any number of concurrent    *)
(* handlers, actors, amounts and thresholds.  Three arguments.  Inv: every   *)
(* write is a write of one whole copy, so a property of the single record is *)
(* kept if every copy a handler holds has it and every step of a handler     *)
(* keeps it of its copy; stale copies do no harm to such properties.  Books  *)
(* and Fresh: while requests come one at a time the one in progress holds    *)
(* the stored return itself, so what it has checked still holds when it      *)
(* writes, and what it has posted is there when it books it.  After these    *)
(* come the theorems about the analytics: rollups, erasure, who may see which *)
(* report, and that rows report what their events do.                        *)
EXTENDS TaxReturnWorkbench, AnalyticsReports, FiniteSetTheorems, WellFoundedInduction, TLAPS

ReviewPCs == {"approve.runs", "approve.alerts", "approve.save", "approve.sign"}
FilingPCs == {"file.evidence", "file.save", "file.sign"}

(* What holds of the stored return and of every copy. *)
RecordSound(r) ==
    /\ r.status \in {"FILED", "REMITTED", "LOCKED"}
          => "FILING_CONFIRMATION" \in r.evidence
    /\ r.status \in {"REMITTED", "LOCKED"}
          => "REMITTANCE_RECEIPT" \in r.evidence
    /\ Locked(r) => evaluateTaxPeriodCompletion(r)
    /\ r.status \in {"DRAFT", "IN_REVIEW", "APPROVED"} => r.filer = NoActor
    /\ r.filer # NoActor /\ requiresSeparateFilingApprover(r.opening, r.threshold)
          => r.reviewer # r.filer
    /\ Chained(r)
    /\ r.due >= 0

(* What a handler k has checked by the time it is where it is. *)
HandlerSound(k) ==
    /\ RecordSound(k.rec)
    /\ k.pc \in ReviewPCs \cup FilingPCs => k.by \in Actors
    /\ k.pc \in FilingPCs => k.amount \in Nat /\ FilingSeparated(k.rec, k.by, k.amount)
    /\ k.pc = "approve.sign" => k.rec.status = "APPROVED"
    /\ k.pc = "file.sign" => k.rec.status = "FILED"
    /\ k.pc = "lock.save" => evaluateTaxPeriodCompletion(k.rec)
    /\ k.pc \in {"correct.evidence", "correct.save"}
          => Locked(k.rec) /\ k.rec.due + k.amount >= 0

Inv ==
    /\ TypeOK
    /\ RecordSound(ret)
    /\ \A h \in Handlers : HandlerSound(hs[h])
-----------------------------------------------------------------------------
LEMMA BlankSound ==
    ASSUME NEW d \in Nat
    PROVE  Blank(d) \in Return /\ RecordSound(Blank(d))
<1>1. Blank(d).corrections = <<>> /\ Len(Blank(d).corrections) = 0
  BY DEF Blank
<1>2. Blank(d) \in Return
  BY DEF Blank, Return, Statuses
<1>3. RecordSound(Blank(d))
  BY <1>1 DEF Blank, RecordSound, Locked, Chained
<1> QED BY <1>2, <1>3

LEMMA RestingSound == Resting \in Handler /\ HandlerSound(Resting)
<1>1. Blank(0) \in Return /\ RecordSound(Blank(0))
  BY BlankSound
<1>2. Resting \in Handler
  BY <1>1 DEF Resting, Handler, PCs, EvidenceKinds
<1>3. HandlerSound(Resting)
  BY <1>1 DEF Resting, HandlerSound, ReviewPCs, FilingPCs
<1> QED BY <1>2, <1>3

(* A handler that moves to a sound place, on a copy r, keeps the handlers. *)
LEMMA AdvanceSound ==
    ASSUME Inv, NEW h \in Handlers, NEW r, NEW pc \in PCs,
           r \in Return,
           pc = "idle" \/ HandlerSound(At(hs[h], r, pc)),
           Advance(h, r, pc)
    PROVE  /\ hs' \in [Handlers -> Handler]
           /\ \A g \in Handlers : HandlerSound(hs'[g])
<1> DEFINE k == IF pc = "idle" THEN Resting
                ELSE At(hs[h], r, pc)
<1>0. hs \in [Handlers -> Handler] /\ hs[h] \in Handler
  BY DEF Inv, TypeOK
<1>1. k \in Handler
  BY <1>0, RestingSound DEF Handler, At
<1>2. HandlerSound(k)
  BY RestingSound
<1>3. hs' = [hs EXCEPT ![h] = k]
  BY <1>0 DEF Advance
<1> HIDE DEF k
<1>4. hs' \in [Handlers -> Handler]
  BY <1>0, <1>1, <1>3
<1>5. \A g \in Handlers : HandlerSound(hs'[g])
  <2> TAKE g \in Handlers
  <2>1. CASE g = h
    BY <2>1, <1>0, <1>2, <1>3
  <2>2. CASE g # h
    BY <2>2, <1>0, <1>3 DEF Inv
  <2> QED BY <2>1, <2>2
<1> QED BY <1>4, <1>5

LEMMA SaveSound ==
    ASSUME Inv, NEW h \in Handlers, NEW r, NEW pc \in PCs,
           r \in Return, RecordSound(r),
           pc = "idle" \/ HandlerSound(At(hs[h], r, pc)),
           Save(h, r, pc)
    PROVE  Inv'
<1>1. /\ hs' \in [Handlers -> Handler]
      /\ \A g \in Handlers : HandlerSound(hs'[g])
  BY AdvanceSound DEF Save
<1>2. ret' = r /\ UNCHANGED <<lastRun, alert, ledger>>
  BY DEF Save
<1>3. TypeOK' /\ RecordSound(ret')
  BY <1>1, <1>2 DEF Inv, TypeOK
<1>4. RecordSound(ret)'
  BY <1>2, <1>3 DEF RecordSound, Chained, Locked, evaluateTaxPeriodCompletion,
                    requiresSeparateFilingApprover
<1>5. (\A g \in Handlers : HandlerSound(hs[g]))'
  BY <1>1 DEF HandlerSound, RecordSound, Chained, Locked,
              evaluateTaxPeriodCompletion, requiresSeparateFilingApprover,
              FilingSeparated, ReviewPCs, FilingPCs
<1> QED BY <1>3, <1>4, <1>5 DEF Inv

(* A handler that only moves on keeps the invariant. *)
LEMMA GotoSound ==
    ASSUME Inv, NEW h \in Handlers, NEW pc \in PCs,
           pc = "idle" \/ HandlerSound(At(hs[h], hs[h].rec, pc)),
           Goto(h, pc), UNCHANGED ret,
           lastRun' \in {"none", "clean", "variance"}, alert' \in BOOLEAN,
           ledger' \in Seq(Int)
    PROVE  Inv'
<1>1. hs[h].rec \in Return
  BY DEF Inv, TypeOK, Handler
<1>2. /\ hs' \in [Handlers -> Handler]
      /\ \A g \in Handlers : HandlerSound(hs'[g])
  BY <1>1, AdvanceSound DEF Goto
<1>3. TypeOK'
  BY <1>2 DEF Inv, TypeOK
<1>4. RecordSound(ret)'
  BY DEF Inv, RecordSound, Chained, Locked, evaluateTaxPeriodCompletion,
         requiresSeparateFilingApprover
<1>5. (\A g \in Handlers : HandlerSound(hs[g]))'
  BY <1>2 DEF HandlerSound, RecordSound, Chained, Locked,
              evaluateTaxPeriodCompletion, requiresSeparateFilingApprover,
              FilingSeparated, ReviewPCs, FilingPCs
<1> QED BY <1>3, <1>4, <1>5 DEF Inv

LEMMA StopSound ==
    ASSUME Inv, NEW h \in Handlers, Stop(h)
    PROVE  Inv'
<1>1. Goto(h, "idle") /\ UNCHANGED <<ret, lastRun, alert, ledger>>
  BY DEF Stop
<1> QED BY <1>1, GotoSound DEF Inv, TypeOK, PCs

(* A handler that starts holds a fresh copy of the stored return. *)
LEMMA LoadSound ==
    ASSUME Inv, NEW h \in Handlers, NEW pc \in PCs,
           NEW by \in Actors \cup {NoActor}, NEW kind \in EvidenceKinds,
           NEW amount \in Int,
           HandlerSound([pc |-> pc, rec |-> ret, by |-> by,
                         kind |-> kind, amount |-> amount]),
           Load(h, pc, by, kind, amount)
    PROVE  Inv'
<1> DEFINE k == [pc |-> pc, rec |-> ret, by |-> by,
                 kind |-> kind, amount |-> amount]
<1>1. k \in Handler /\ HandlerSound(k)
  BY DEF Inv, TypeOK, Handler
<1>2. hs' = [hs EXCEPT ![h] = k] /\ UNCHANGED <<ret, lastRun, alert, ledger>>
  BY DEF Load
<1> HIDE DEF k
<1>3. TypeOK'
  BY <1>1, <1>2 DEF Inv, TypeOK
<1>4. \A g \in Handlers : HandlerSound(hs'[g])
  <2> TAKE g \in Handlers
  <2>1. CASE g = h
    BY <2>1, <1>1, <1>2 DEF Inv, TypeOK
  <2>2. CASE g # h
    BY <2>2, <1>2 DEF Inv, TypeOK
  <2> QED BY <2>1, <2>2
<1>5. RecordSound(ret)'
  BY <1>2 DEF Inv, RecordSound, Chained, Locked, evaluateTaxPeriodCompletion,
              requiresSeparateFilingApprover
<1>6. (\A g \in Handlers : HandlerSound(hs[g]))'
  BY <1>4 DEF HandlerSound, RecordSound, Chained, Locked,
              evaluateTaxPeriodCompletion, requiresSeparateFilingApprover,
              FilingSeparated, ReviewPCs, FilingPCs
<1> QED BY <1>3, <1>5, <1>6 DEF Inv
-----------------------------------------------------------------------------
(* The writes: what each one makes of a sound copy. *)

(* Evidence only accumulates. *)
LEMMA EvidenceSound ==
    ASSUME NEW r \in Return, RecordSound(r), NEW kind \in EvidenceKinds
    PROVE  LET q == [r EXCEPT !.evidence = @ \cup {kind}] IN
           q \in Return /\ RecordSound(q)
<1> DEFINE q == [r EXCEPT !.evidence = @ \cup {kind}]
<1>1. /\ q \in Return
      /\ q.evidence = r.evidence \cup {kind}
      /\ q.status = r.status /\ q.reviewer = r.reviewer /\ q.filer = r.filer
      /\ q.remitted = r.remitted /\ q.opening = r.opening /\ q.due = r.due
      /\ q.corrections = r.corrections /\ q.threshold = r.threshold
  BY DEF Return
<1> HIDE DEF q
<1>2. Chained(q)
  BY <1>1 DEF RecordSound, Chained, Locked
<1>3. RecordSound(q)
  BY <1>1, <1>2 DEF RecordSound, Locked, evaluateTaxPeriodCompletion,
                    requiresSeparateFilingApprover
<1> QED BY <1>1, <1>3 DEF q

(* A transition the table allows keeps a copy sound when the evidence (or, *)
(* for the lock, the completion) was checked.                              *)
LEMMA MoveSound ==
    ASSUME NEW r \in Return, RecordSound(r), NEW to \in Statuses, CanMove(r, to),
           to = "FILED" => "FILING_CONFIRMATION" \in r.evidence,
           to = "REMITTED" => "REMITTANCE_RECEIPT" \in r.evidence,
           to = "LOCKED" => evaluateTaxPeriodCompletion(r)
    PROVE  LET q == [r EXCEPT !.status = to] IN
           q \in Return /\ RecordSound(q) /\ q.status = to /\ ~Locked(r)
<1> DEFINE q == [r EXCEPT !.status = to]
<1>1. /\ q \in Return
      /\ q.status = to
      /\ q.evidence = r.evidence /\ q.reviewer = r.reviewer
      /\ q.filer = r.filer /\ q.remitted = r.remitted
      /\ q.opening = r.opening /\ q.due = r.due
      /\ q.corrections = r.corrections /\ q.threshold = r.threshold
  BY DEF Return
<1> HIDE DEF q
<1>2. ~Locked(r) /\ <<r.status, to>> \in taxReturnTransitions
  BY DEF CanMove, Locked, taxReturnTransitions
<1>3. Chained(q)
  BY <1>1, <1>2 DEF RecordSound, Chained, Locked
<1>4. RecordSound(q)
  BY <1>1, <1>2, <1>3
     DEF RecordSound, Locked, evaluateTaxPeriodCompletion, Return,
         requiresSeparateFilingApprover, taxReturnTransitions
<1> QED BY <1>1, <1>2, <1>4 DEF q

(* A correction appends one link to the chain. *)
LEMMA CorrectedSound ==
    ASSUME NEW r \in Return, RecordSound(r), Locked(r), NEW amount \in Int,
           r.due + amount >= 0
    PROVE  Corrected(r, amount) \in Return /\ RecordSound(Corrected(r, amount))
<1> DEFINE q == Corrected(r, amount)
           c == [amount |-> amount, previous |-> r.due, next |-> r.due + amount]
           cs == Append(r.corrections, c)
<1>1. /\ c \in Correction /\ r.corrections \in Seq(Correction)
      /\ c.amount = amount /\ c.previous = r.due /\ c.next = r.due + amount
      /\ r.due \in Nat /\ r.due + amount \in Nat
  BY DEF Return, Correction
<1>11. q = [r EXCEPT !.due = r.due + amount, !.corrections = cs]
  BY DEF Corrected
<1> HIDE DEF c
<1>12. cs \in Seq(Correction)
  BY <1>1
<1> HIDE DEF cs, q
<1>13. /\ q \in Return
      /\ q.status = r.status
      /\ q.evidence = r.evidence /\ q.reviewer = r.reviewer
      /\ q.filer = r.filer /\ q.remitted = r.remitted
      /\ q.opening = r.opening /\ q.due = r.due + amount
      /\ q.threshold = r.threshold
      /\ q.corrections = cs
  BY <1>1, <1>11, <1>12 DEF Return
<1>2. /\ q \in Return
      /\ q.status = r.status
      /\ q.evidence = r.evidence /\ q.reviewer = r.reviewer
      /\ q.filer = r.filer /\ q.remitted = r.remitted
      /\ q.opening = r.opening /\ q.due = r.due + amount
      /\ q.threshold = r.threshold
      /\ q.corrections = Append(r.corrections, c)
  BY <1>13 DEF cs
<1>3. /\ Len(q.corrections) = Len(r.corrections) + 1
      /\ q.corrections[Len(r.corrections) + 1] = c
      /\ \A i \in 1..Len(r.corrections) : q.corrections[i] = r.corrections[i]
      /\ q.corrections # <<>>
      /\ Len(r.corrections) \in Nat
      /\ r.corrections = <<>> <=> Len(r.corrections) = 0
  BY <1>1, <1>2
<1>4. Chained(q)
  <2>1. Locked(q)
    BY <1>2 DEF Locked
  <2>2. q.due = q.corrections[Len(q.corrections)].next
    BY <1>1, <1>2, <1>3
  <2>3. ASSUME NEW i \in 1..Len(q.corrections)
        PROVE  /\ q.corrections[i].previous =
                     (IF i = 1 THEN q.opening ELSE q.corrections[i - 1].next)
               /\ q.corrections[i].next =
                     q.corrections[i].previous + q.corrections[i].amount
    <3>1. CASE i = Len(r.corrections) + 1
      <4>1. q.corrections[i] = c
        BY <3>1, <1>3
      <4>2. r.due = IF i = 1 THEN r.opening
                             ELSE r.corrections[i - 1].next
        BY <3>1, <1>3 DEF RecordSound, Chained
      <4>3. i # 1 => q.corrections[i - 1] = r.corrections[i - 1]
        BY <3>1, <1>3
      <4> QED BY <4>1, <4>2, <4>3, <1>1, <1>2, <1>3, <3>1
    <3>2. CASE i \in 1..Len(r.corrections)
      <4>1. /\ q.corrections[i] = r.corrections[i]
            /\ i # 1 => q.corrections[i - 1] = r.corrections[i - 1]
        BY <3>2, <1>3
      <4>2. /\ r.corrections[i].previous =
                  (IF i = 1 THEN r.opening ELSE r.corrections[i - 1].next)
            /\ r.corrections[i].next =
                  r.corrections[i].previous + r.corrections[i].amount
        BY <3>2 DEF RecordSound, Chained
      <4> QED BY <4>1, <4>2, <1>2
    <3> QED BY <3>1, <3>2, <1>3
  <2> QED BY <2>1, <2>2, <2>3, <1>3 DEF Chained
<1>5. RecordSound(q)
  BY <1>2, <1>4 DEF RecordSound, Locked, evaluateTaxPeriodCompletion,
                    requiresSeparateFilingApprover
<1> QED BY <1>2, <1>5 DEF q
-----------------------------------------------------------------------------
(* The steps that change no copy: they start a handler or only move it on. *)

LEMMA StartSound ==
    ASSUME Inv, NEW h \in Handlers, Start(h)
    PROVE  Inv'
<1>0. ret \in Return /\ RecordSound(ret)
  BY DEF Inv, TypeOK
<1>1. CASE SubmitLoad(h)
  BY <1>0, <1>1, LoadSound
     DEF SubmitLoad, HandlerSound, ReviewPCs, FilingPCs, PCs, EvidenceKinds
<1>2. CASE LockLoad(h)
  BY <1>0, <1>2, LoadSound
     DEF LockLoad, HandlerSound, ReviewPCs, FilingPCs, PCs, EvidenceKinds
<1>3. ASSUME NEW kind \in AttachKinds, AttachLoad(h, kind) PROVE Inv'
  BY <1>0, <1>3, LoadSound, KindAssumption
     DEF AttachLoad, HandlerSound, ReviewPCs, FilingPCs, PCs
<1>4. ASSUME NEW kind \in AttachKinds, RemitLoad(h, kind) PROVE Inv'
  BY <1>0, <1>4, LoadSound, KindAssumption
     DEF RemitLoad, HandlerSound, ReviewPCs, FilingPCs, PCs
<1>5. ASSUME NEW by \in Actors, ApproveLoad(h, by) PROVE Inv'
  BY <1>0, <1>5, LoadSound
     DEF ApproveLoad, HandlerSound, ReviewPCs, FilingPCs, PCs, EvidenceKinds
<1>6. ASSUME NEW by \in Actors, NEW kind \in AttachKinds,
             NEW t \in Thresholds, FileLoad(h, by, kind, t)
      PROVE  Inv'
  BY <1>0, <1>6, LoadSound, KindAssumption, AmountAssumption
     DEF FileLoad, HandlerSound, ReviewPCs, FilingPCs, PCs
<1>7. ASSUME NEW by \in Actors, NEW amount \in Amounts,
             NEW t \in Thresholds, CorrectLoad(h, by, amount, t)
      PROVE  Inv'
  BY <1>0, <1>7, LoadSound, AmountAssumption
     DEF CorrectLoad, CorrectionApplies, HandlerSound, ReviewPCs, FilingPCs,
         PCs, EvidenceKinds
<1>8. ASSUME NEW outcome \in {"clean", "variance"}, Reconcile(h, outcome)
      PROVE  Inv'
  <2>1. HandlerSound(hs[h])
    BY DEF Inv
  <2>2. HandlerSound(At(hs[h], hs[h].rec, "reconcile.alert"))
    BY <2>1 DEF HandlerSound, At, ReviewPCs, FilingPCs
  <2> QED BY <1>8, <2>2, GotoSound DEF Reconcile, PCs, Inv, TypeOK
<1> QED BY <1>1, <1>2, <1>3, <1>4, <1>5, <1>6, <1>7, <1>8 DEF Start

LEMMA MoveOnSound ==
    ASSUME Inv, NEW h \in Handlers,
           ApproveRuns(h) \/ ApproveAlerts(h) \/ CorrectLedger(h)
               \/ ReconcileAlert(h) \/ Abort(h)
    PROVE  Inv'
<1>0. /\ HandlerSound(hs[h]) /\ hs[h].amount \in Int
      /\ lastRun \in {"none", "clean", "variance"} /\ alert \in BOOLEAN
      /\ ledger \in Seq(Int)
  BY DEF Inv, TypeOK, Handler
<1>1. CASE ApproveRuns(h)
  <2>1. HandlerSound(At(hs[h], hs[h].rec, "approve.alerts"))
    BY <1>0, <1>1 DEF ApproveRuns, HandlerSound, At, ReviewPCs, FilingPCs
  <2> QED BY <1>0, <1>1, <2>1, GotoSound DEF ApproveRuns, PCs
<1>2. CASE ApproveAlerts(h)
  <2>1. HandlerSound(At(hs[h], hs[h].rec, "approve.save"))
    BY <1>0, <1>2 DEF ApproveAlerts, HandlerSound, At, ReviewPCs, FilingPCs
  <2> QED BY <1>0, <1>2, <2>1, GotoSound DEF ApproveAlerts, PCs
<1>3. CASE CorrectLedger(h)
  <2>1. ledger' \in Seq(Int)
    BY <1>0, <1>3 DEF CorrectLedger
  <2> QED BY <1>0, <1>3, <2>1, GotoSound DEF CorrectLedger, PCs
<1>4. CASE ReconcileAlert(h)
  BY <1>0, <1>4, GotoSound DEF ReconcileAlert, PCs
<1>5. CASE Abort(h)
  BY <1>5, StopSound DEF Abort
<1> QED BY <1>1, <1>2, <1>3, <1>4, <1>5

(* The writes of evidence: the copy stays sound and nothing the handler    *)
(* checked before depends on the evidence.                                 *)
LEMMA WriteEvidenceSound ==
    ASSUME Inv, NEW h \in Handlers,
           AttachSave(h) \/ FileEvidence(h) \/ RemitEvidence(h)
               \/ CorrectEvidence(h)
    PROVE  Inv'
<1> DEFINE r == hs[h].rec
           q == [r EXCEPT !.evidence = @ \cup {hs[h].kind}]
<1>0. /\ HandlerSound(hs[h]) /\ r \in Return /\ RecordSound(r)
      /\ hs[h].kind \in EvidenceKinds
  BY DEF Inv, TypeOK, Handler, HandlerSound
<1>1. q \in Return /\ RecordSound(q)
  BY <1>0, EvidenceSound
<1>2. /\ q.status = r.status /\ q.reviewer = r.reviewer
      /\ q.due = r.due
  BY <1>0 DEF Return
<1> HIDE DEF q
<1>3. CASE AttachSave(h)
  <2>1. Save(h, q, "idle")
    BY <1>3 DEF AttachSave, addTaxReturnEvidence, q
  <2> QED BY <1>1, <2>1, SaveSound DEF PCs
<1>4. CASE FileEvidence(h)
  <2>1. Save(h, q, "file.save")
    BY <1>4 DEF FileEvidence, addTaxReturnEvidence, q
  <2>2. HandlerSound(At(hs[h], q, "file.save"))
    BY <1>0, <1>1, <1>2, <1>4
       DEF FileEvidence, HandlerSound, At, ReviewPCs, FilingPCs, FilingSeparated
  <2> QED BY <1>1, <2>1, <2>2, SaveSound DEF PCs
<1>5. CASE RemitEvidence(h)
  <2>1. Save(h, q, "remit.save")
    BY <1>5 DEF RemitEvidence, addTaxReturnEvidence, q
  <2>2. HandlerSound(At(hs[h], q, "remit.save"))
    BY <1>1 DEF HandlerSound, At, ReviewPCs, FilingPCs
  <2> QED BY <1>1, <2>1, <2>2, SaveSound DEF PCs
<1>6. CASE CorrectEvidence(h)
  <2>1. Save(h, q, "correct.save")
    BY <1>6 DEF CorrectEvidence, addTaxReturnEvidence, q
  <2>2. HandlerSound(At(hs[h], q, "correct.save"))
    BY <1>0, <1>1, <1>2, <1>6
       DEF CorrectEvidence, HandlerSound, At, ReviewPCs, FilingPCs, Locked
  <2> QED BY <1>1, <2>1, <2>2, SaveSound DEF PCs
<1> QED BY <1>3, <1>4, <1>5, <1>6

(* The transitions. *)
LEMMA WriteStatusSound ==
    ASSUME Inv, NEW h \in Handlers,
           SubmitSave(h) \/ ApproveSave(h) \/ FileSave(h) \/ RemitSave(h)
               \/ LockSave(h)
    PROVE  Inv'
<1> DEFINE r == hs[h].rec
           q(to) == [r EXCEPT !.status = to]
<1>0. HandlerSound(hs[h]) /\ r \in Return /\ RecordSound(r)
  BY DEF Inv, TypeOK, Handler, HandlerSound
<1>1. ASSUME NEW to \in Statuses, CanMove(r, to),
             to = "FILED" => "FILING_CONFIRMATION" \in r.evidence,
             to = "REMITTED" => "REMITTANCE_RECEIPT" \in r.evidence,
             to = "LOCKED" => evaluateTaxPeriodCompletion(r)
      PROVE  /\ q(to) \in Return /\ RecordSound(q(to)) /\ q(to).status = to
             /\ q(to).due = r.due /\ q(to).reviewer = r.reviewer
  <2>1. q(to) \in Return /\ RecordSound(q(to)) /\ q(to).status = to
    BY <1>0, <1>1, MoveSound
  <2>2. q(to).due = r.due /\ q(to).reviewer = r.reviewer
    BY <1>0 DEF Return
  <2> QED BY <2>1, <2>2
<1>2. CASE Stop(h)
  BY <1>2, StopSound
<1>3. CASE SubmitSave(h) /\ ~Stop(h)
  <2>1. CanMove(r, "IN_REVIEW") /\ Save(h, q("IN_REVIEW"), "idle")
    BY <1>3 DEF SubmitSave, Transition
  <2>2. q("IN_REVIEW") \in Return /\ RecordSound(q("IN_REVIEW"))
    BY <1>1, <2>1 DEF Statuses
  <2> QED BY <2>1, <2>2, SaveSound DEF PCs
<1>4. CASE ApproveSave(h) /\ ~Stop(h)
  <2>1. CanMove(r, "APPROVED") /\ Save(h, q("APPROVED"), "approve.sign")
    BY <1>4 DEF ApproveSave, Transition
  <2>2. /\ q("APPROVED") \in Return /\ RecordSound(q("APPROVED"))
        /\ q("APPROVED").status = "APPROVED"
    BY <1>1, <2>1 DEF Statuses
  <2> HIDE DEF q
  <2>3. HandlerSound(At(hs[h], q("APPROVED"), "approve.sign"))
    BY <1>0, <1>4, <2>2
       DEF ApproveSave, HandlerSound, At, ReviewPCs, FilingPCs
  <2> QED BY <2>1, <2>2, <2>3, SaveSound DEF PCs
<1>5. CASE FileSave(h) /\ ~Stop(h)
  <2>1. /\ CanMove(r, "FILED") /\ "FILING_CONFIRMATION" \in r.evidence
        /\ Save(h, q("FILED"), "file.sign")
    BY <1>5 DEF FileSave, Transition
  <2>2. /\ q("FILED") \in Return /\ RecordSound(q("FILED"))
        /\ q("FILED").status = "FILED"
        /\ q("FILED").due = r.due /\ q("FILED").reviewer = r.reviewer
    BY <1>1, <2>1 DEF Statuses
  <2> HIDE DEF q
  <2>3. HandlerSound(At(hs[h], q("FILED"), "file.sign"))
    BY <1>0, <1>5, <2>2
       DEF FileSave, HandlerSound, At, ReviewPCs, FilingPCs, FilingSeparated
  <2> QED BY <2>1, <2>2, <2>3, SaveSound DEF PCs
<1>6. CASE RemitSave(h) /\ ~Stop(h)
  <2>1. /\ CanMove(r, "REMITTED") /\ "REMITTANCE_RECEIPT" \in r.evidence
        /\ Save(h, q("REMITTED"), "remit.stamp")
    BY <1>6 DEF RemitSave, Transition
  <2>2. q("REMITTED") \in Return /\ RecordSound(q("REMITTED"))
    BY <1>1, <2>1 DEF Statuses
  <2> HIDE DEF q
  <2>3. HandlerSound(At(hs[h], q("REMITTED"), "remit.stamp"))
    BY <2>2 DEF HandlerSound, At, ReviewPCs, FilingPCs
  <2> QED BY <2>1, <2>2, <2>3, SaveSound DEF PCs
<1>7. CASE LockSave(h) /\ ~Stop(h)
  <2>1. /\ CanMove(r, "LOCKED") /\ evaluateTaxPeriodCompletion(r)
        /\ Save(h, q("LOCKED"), "lock.stamp")
    BY <1>0, <1>7 DEF LockSave, Transition, HandlerSound
  <2>2. q("LOCKED") \in Return /\ RecordSound(q("LOCKED"))
    BY <1>1, <2>1 DEF Statuses
  <2> HIDE DEF q
  <2>3. HandlerSound(At(hs[h], q("LOCKED"), "lock.stamp"))
    BY <2>2 DEF HandlerSound, At, ReviewPCs, FilingPCs
  <2> QED BY <2>1, <2>2, <2>3, SaveSound DEF PCs
<1> QED BY <1>2, <1>3, <1>4, <1>5, <1>6, <1>7

(* The second writes: signatures and stamps. *)
LEMMA WriteStampSound ==
    ASSUME Inv, NEW h \in Handlers,
           ApproveSign(h) \/ FileSign(h) \/ RemitStamp(h) \/ LockStamp(h)
    PROVE  Inv'
<1> DEFINE r == hs[h].rec
<1>0. HandlerSound(hs[h]) /\ r \in Return /\ RecordSound(r)
  BY DEF Inv, TypeOK, Handler, HandlerSound
<1>1. CASE ApproveSign(h)
  <2> DEFINE q == [r EXCEPT !.reviewer = hs[h].by]
  <2>1. r.status = "APPROVED" /\ hs[h].by \in Actors
    BY <1>0, <1>1 DEF ApproveSign, HandlerSound, ReviewPCs
  <2>2. /\ q \in Return
        /\ q.status = r.status /\ q.evidence = r.evidence
        /\ q.filer = r.filer /\ q.remitted = r.remitted
        /\ q.opening = r.opening /\ q.due = r.due
        /\ q.corrections = r.corrections /\ q.threshold = r.threshold
    BY <1>0, <2>1 DEF Return
  <2>3. Save(h, q, "idle")
    BY <1>1 DEF ApproveSign
  <2> HIDE DEF q
  <2>4. RecordSound(q)
    BY <1>0, <2>1, <2>2 DEF RecordSound, Chained, Locked
  <2> QED BY <2>2, <2>3, <2>4, SaveSound DEF PCs
<1>2. CASE FileSign(h)
  <2> DEFINE q == [r EXCEPT !.filer = hs[h].by, !.threshold = hs[h].amount]
  <2>1. /\ r.status = "FILED" /\ hs[h].by \in Actors /\ hs[h].amount \in Nat
        /\ FilingSeparated(r, hs[h].by, hs[h].amount)
    BY <1>0, <1>2 DEF FileSign, HandlerSound, FilingPCs
  <2>2. /\ q \in Return
        /\ q.status = r.status /\ q.evidence = r.evidence
        /\ q.reviewer = r.reviewer /\ q.remitted = r.remitted
        /\ q.opening = r.opening /\ q.due = r.due
        /\ q.corrections = r.corrections /\ q.filer = hs[h].by
        /\ q.threshold = hs[h].amount
    BY <1>0, <2>1 DEF Return
  <2>3. Save(h, q, "idle")
    BY <1>2 DEF FileSign
  <2> HIDE DEF q
  <2>4. r.due = r.opening
    BY <1>0, <2>1 DEF RecordSound, Chained, Locked
  <2>5. RecordSound(q)
    BY <1>0, <2>1, <2>2, <2>4
       DEF RecordSound, Chained, Locked, FilingSeparated
  <2> QED BY <2>2, <2>3, <2>5, SaveSound DEF PCs
<1>3. CASE RemitStamp(h)
  <2> DEFINE q == [r EXCEPT !.remitted = TRUE]
  <2>2. /\ q \in Return
        /\ q.status = r.status /\ q.evidence = r.evidence
        /\ q.reviewer = r.reviewer /\ q.filer = r.filer /\ q.remitted = TRUE
        /\ q.opening = r.opening /\ q.due = r.due
        /\ q.corrections = r.corrections /\ q.threshold = r.threshold
    BY <1>0 DEF Return
  <2>3. Save(h, q, "idle")
    BY <1>3 DEF RemitStamp
  <2> HIDE DEF q
  <2>4. RecordSound(q)
    <3>1. Chained(q)
      <4>1. Chained(r) /\ (Locked(r) <=> Locked(q))
        BY <1>0, <2>2 DEF RecordSound, Locked
      <4>2. q.corrections = r.corrections /\ q.opening = r.opening /\ q.due = r.due
        BY <2>2
      <4> HIDE DEF r
      <4>3. PICK cs : cs = r.corrections /\ cs = q.corrections
        BY <4>2
      <4> QED BY <4>1, <4>2, <4>3 DEF Chained
    <3>2. Locked(q) => evaluateTaxPeriodCompletion(q)
      BY <1>0, <2>2 DEF RecordSound, Locked, evaluateTaxPeriodCompletion
    <3> QED BY <1>0, <2>2, <3>1, <3>2 DEF RecordSound
  <2> QED BY <2>2, <2>3, <2>4, SaveSound DEF PCs
<1>4. CASE LockStamp(h)
  BY <1>0, <1>4, SaveSound DEF LockStamp, PCs
<1> QED BY <1>1, <1>2, <1>3, <1>4

LEMMA CorrectSaveSound ==
    ASSUME Inv, NEW h \in Handlers, CorrectSave(h)
    PROVE  Inv'
<1> DEFINE r == hs[h].rec
           q == Corrected(r, hs[h].amount)
<1>0. /\ HandlerSound(hs[h]) /\ r \in Return /\ RecordSound(r)
      /\ hs[h].amount \in Int
  BY DEF Inv, TypeOK, Handler, HandlerSound
<1>1. Locked(r) /\ r.due + hs[h].amount >= 0 /\ Save(h, q, "correct.ledger")
  BY <1>0 DEF CorrectSave, HandlerSound
<1>2. q \in Return /\ RecordSound(q)
  BY <1>0, <1>1, CorrectedSound
<1> HIDE DEF q
<1>3. HandlerSound(At(hs[h], q, "correct.ledger"))
  BY <1>2 DEF HandlerSound, At, ReviewPCs, FilingPCs
<1> QED BY <1>1, <1>2, <1>3, SaveSound DEF PCs
-----------------------------------------------------------------------------
LEMMA InitInv == Init => Inv
<1> SUFFICES ASSUME Init PROVE Inv
  OBVIOUS
<1>1. PICK d \in Dues : ret = Blank(d)
  BY DEF Init
<1>2. ret \in Return /\ RecordSound(ret)
  BY <1>1, BlankSound, AmountAssumption
<1>3. hs \in [Handlers -> Handler] /\ \A h \in Handlers : HandlerSound(hs[h])
  BY RestingSound DEF Init
<1>4. lastRun \in {"none", "clean", "variance"} /\ alert \in BOOLEAN
  BY DEF Init
<1>5. ledger \in Seq(Int)
  BY DEF Init
<1>6. TypeOK
  BY <1>2, <1>3, <1>4, <1>5 DEF TypeOK
<1> QED BY <1>2, <1>3, <1>6 DEF Inv

LEMMA NextInv == Inv /\ [Next]_vars => Inv'
<1> SUFFICES ASSUME Inv, [Next]_vars PROVE Inv'
  OBVIOUS
<1>1. CASE UNCHANGED vars
  <2>1. TypeOK' /\ ret' = ret /\ hs' = hs
    BY <1>1 DEF vars, Inv, TypeOK
  <2>2. RecordSound(ret)'
    BY <2>1 DEF Inv, RecordSound, Chained, Locked, evaluateTaxPeriodCompletion,
                requiresSeparateFilingApprover
  <2>3. (\A h \in Handlers : HandlerSound(hs[h]))'
    <3> SUFFICES ASSUME NEW h \in Handlers PROVE HandlerSound(hs[h])'
      OBVIOUS
    <3>1. HandlerSound(hs[h]) /\ hs'[h] = hs[h]
      BY <2>1 DEF Inv
    <3> QED BY <3>1 DEF HandlerSound, RecordSound, Chained, Locked,
              evaluateTaxPeriodCompletion, requiresSeparateFilingApprover,
              FilingSeparated, ReviewPCs, FilingPCs
  <2> QED BY <2>1, <2>2, <2>3 DEF Inv
<1>2. ASSUME NEW h \in Handlers, Start(h) PROVE Inv'
  BY <1>2, StartSound
<1>3. ASSUME NEW h \in Handlers, Continue(h) PROVE Inv'
  BY <1>3, MoveOnSound, WriteEvidenceSound, WriteStatusSound,
     WriteStampSound, CorrectSaveSound DEF Continue
<1>4. ASSUME NEW h \in Handlers, Abort(h) PROVE Inv'
  BY <1>4, MoveOnSound
<1> QED BY <1>1, <1>2, <1>3, <1>4 DEF Next

(* Every stored value and every copy keeps its type. *)
THEOREM TypeCorrect == Spec => []TypeOK
<1>1. Inv => TypeOK
  BY DEF Inv
<1> QED BY InitInv, NextInv, <1>1, PTL DEF Spec

(* A filed or remitted return has its evidence, whatever the interleaving  *)
(* of fileTaxReturn, remitTaxReturn and the other handlers.                *)
THEOREM EvidenceIsKept == Spec => []EvidenceBacked
<1>1. Inv => EvidenceBacked
  BY DEF Inv, RecordSound, EvidenceBacked
<1> QED BY InitInv, NextInv, <1>1, PTL DEF Spec

(* A lock is only ever found on a complete record that two people signed   *)
(* when the threshold asked for it (lockTaxReturn, fileTaxReturn).         *)
THEOREM LockIsEarned == Spec => [](LockedIsComplete /\ LockedUnderDualControl)
<1>1. Inv => LockedIsComplete /\ LockedUnderDualControl
  BY DEF Inv, RecordSound, LockedIsComplete, LockedUnderDualControl,
         evaluateTaxPeriodCompletion
<1> QED BY InitInv, NextInv, <1>1, PTL DEF Spec

(* Corrections are never torn: amount, chain and lock agree on the stored  *)
(* record in every interleaving (correctTaxReturn).                        *)
THEOREM CorrectionsChain == Spec => []CorrectionChain
<1>1. Inv => CorrectionChain
  BY DEF Inv, RecordSound, CorrectionChain
<1> QED BY InitInv, NextInv, <1>1, PTL DEF Spec
-----------------------------------------------------------------------------
(* Why the ledger is backed while requests come one at a time: the one     *)
(* handler in progress holds a fresh copy, and one that is about to book a *)
(* correction has posted it.                                               *)
Busy(h) == hs[h].pc \notin {"idle", "reconcile.alert"}

AloneOrCounted ==
    /\ overlaps \in Nat
    /\ overlaps = 0 =>
          /\ \A g, h \in Handlers : hs[g].pc # "idle" /\ hs[h].pc # "idle" => g = h
          /\ \A h \in Handlers : Busy(h) => hs[h].rec.corrections = ret.corrections

Backed(amount, n) ==
    /\ IsFiniteSet(Posted(amount)) /\ IsFiniteSet(Booked(amount))
    /\ Cardinality(Booked(amount)) + n <= Cardinality(Posted(amount))

AllBacked ==
    overlaps = 0 =>
       /\ \A amount \in Int : Backed(amount, 0)
       /\ \A h \in Handlers : hs[h].pc = "correct.ledger" => Backed(hs[h].amount, 1)

Books == AloneOrCounted /\ AllBacked

(* Counting the entries of a sequence that grows by one. *)
LEMMA OneMore ==
    ASSUME NEW S, NEW T, IsFiniteSet(S), NEW x, x \notin S, T = S \/ T = S \cup {x}
    PROVE  /\ IsFiniteSet(T) /\ Cardinality(S) \in Nat /\ Cardinality(T) \in Nat
           /\ Cardinality(T) >= Cardinality(S) /\ Cardinality(T) <= Cardinality(S) + 1
           /\ T = S \cup {x} => Cardinality(T) = Cardinality(S) + 1
<1>1. IsFiniteSet(S \cup {x}) /\ Cardinality(S \cup {x}) = Cardinality(S) + 1
  BY FS_AddElement
<1>2. Cardinality(S) \in Nat
  BY FS_CardinalityType
<1>3. CASE T = S
  <2>1. S # S \cup {x}
    OBVIOUS
  <2> QED BY <1>2, <1>3, <2>1
<1>4. CASE T = S \cup {x}
  BY <1>1, <1>2, <1>4
<1> QED BY <1>3, <1>4

(* A step of handler h that neither posts nor books. *)
LEMMA StillBacked ==
    ASSUME Inv, Books, NEW h \in Handlers, NEW k,
           hs' = [hs EXCEPT ![h] = k], ledger' = ledger,
           k.pc # "correct.ledger", overlaps' \in Nat,
           overlaps' = 0 =>
              /\ overlaps = 0
              /\ \A g \in Handlers \ {h} : hs[g].pc = "idle"
              /\ ret'.corrections = ret.corrections
              /\ k.pc \notin {"idle", "reconcile.alert"} => k.rec.corrections = ret.corrections
    PROVE  Books'
<1>1. hs'[h] = k /\ \A g \in Handlers \ {h} : hs'[g] = hs[g]
  BY DEF Inv, TypeOK
<1>2. AloneOrCounted'
  <2> SUFFICES ASSUME overlaps' = 0
               PROVE  /\ \A f, g \in Handlers : hs'[f].pc # "idle" /\ hs'[g].pc # "idle" => f = g
                      /\ \A g \in Handlers : hs'[g].pc \notin {"idle", "reconcile.alert"} =>
                                                hs'[g].rec.corrections = ret'.corrections
    BY DEF AloneOrCounted, Busy
  <2> QED BY <1>1
<1>3. AllBacked'
  <2> SUFFICES ASSUME overlaps' = 0
               PROVE  /\ \A amount \in Int : Backed(amount, 0)'
                      /\ \A g \in Handlers : hs'[g].pc # "correct.ledger"
    BY DEF AllBacked, Backed
  <2>1. \A amount \in Int : Posted(amount)' = Posted(amount) /\ Booked(amount)' = Booked(amount)
    BY DEF Posted, Booked
  <2>2. \A amount \in Int : Backed(amount, 0)
    BY DEF Books, AllBacked
  <2> QED BY <1>1, <2>1, <2>2 DEF Backed
<1> QED BY <1>2, <1>3 DEF Books

(* The same for a handler that advances on the copy r. *)
LEMMA AdvanceBacked ==
    ASSUME Inv, Books, NEW h \in Handlers, Busy(h), NEW r, NEW pc,
           pc \notin {"correct.ledger", "reconcile.alert"}, Advance(h, r, pc),
           UNCHANGED <<ledger, overlaps>>, r.corrections = hs[h].rec.corrections,
           ret' = ret \/ ret' = r
    PROVE  Books'
<1>1. /\ overlaps \in Nat
      /\ overlaps = 0 => /\ \A g \in Handlers \ {h} : hs[g].pc = "idle"
                         /\ r.corrections = ret.corrections
  BY DEF Books, AloneOrCounted, Busy
<1>2. PICK k : k = IF pc = "idle" THEN Resting ELSE At(hs[h], r, pc)
  OBVIOUS
<1>3. hs' = [hs EXCEPT ![h] = k]
  BY <1>2 DEF Advance
<1>4. k.pc # "correct.ledger" /\ (k.pc # "idle" => k.rec = r)
  BY <1>2 DEF Resting, At
<1> QED BY <1>1, <1>3, <1>4, StillBacked

LEMMA StopBacked ==
    ASSUME Inv, Books, NEW h \in Handlers, hs[h].pc # "idle", Goto(h, "idle"),
           UNCHANGED <<ret, ledger, overlaps>>
    PROVE  Books'
<1>1. /\ overlaps \in Nat
      /\ overlaps = 0 => \A g \in Handlers \ {h} : hs[g].pc = "idle"
  BY DEF Books, AloneOrCounted
<1>2. hs' = [hs EXCEPT ![h] = Resting] /\ Resting.pc = "idle"
  BY DEF Goto, Advance, Resting
<1> HIDE DEF Resting
<1> QED BY <1>1, <1>2, StillBacked

LEMMA StartBacked ==
    ASSUME Inv, Books, NEW h \in Handlers, NEW k,
           hs' = [hs EXCEPT ![h] = k], CountOverlap(h), UNCHANGED <<ret, ledger>>,
           k.pc # "correct.ledger",
           k.pc \in {"idle", "reconcile.alert"} \/ k.rec = ret
    PROVE  Books'
<1>1. overlaps \in Nat
  BY DEF Books, AloneOrCounted
<1>2. CASE \A g \in Handlers \ {h} : hs[g].pc = "idle"
  BY <1>1, <1>2, StillBacked DEF CountOverlap
<1>3. CASE ~(\A g \in Handlers \ {h} : hs[g].pc = "idle")
  <2>1. overlaps' = overlaps + 1
    BY <1>3 DEF CountOverlap
  <2>2. overlaps' \in Nat /\ overlaps' # 0
    BY <1>1, <2>1
  <2> QED BY <2>2, StillBacked
<1> QED BY <1>2, <1>3

(* applyTaxReturnCorrection posts the amount... *)
LEMMA CorrectSaveBacked ==
    ASSUME Inv, Books, NEW h \in Handlers, CorrectSave(h) PROVE Books'
<1> DEFINE o == hs[h]
<1>1. /\ o.pc = "correct.save" /\ UNCHANGED <<ledger, overlaps>> /\ overlaps \in Nat
      /\ o.amount \in Int /\ o.rec \in Return
  BY DEF CorrectSave, Save, Books, AloneOrCounted, Inv, TypeOK, Handler
<1>2. PICK r : r = Corrected(o.rec, o.amount)
  OBVIOUS
<1>3. PICK c \in Correction : c.amount = o.amount /\ r.corrections = Append(o.rec.corrections, c)
  <2> DEFINE c == [amount |-> o.amount, previous |-> o.rec.due, next |-> o.rec.due + o.amount]
  <2>1. c \in Correction /\ c.amount = o.amount
    BY <1>1 DEF Correction, Return
  <2>2. r.corrections = Append(o.rec.corrections, c)
    BY <1>1, <1>2 DEF Corrected, Return
  <2> QED BY <2>1, <2>2
<1>4. PICK k : k = At(o, r, "correct.ledger")
  OBVIOUS
<1>5. ret' = r /\ hs' = [hs EXCEPT ![h] = k] /\ k.pc = "correct.ledger" /\ k.rec = r /\ k.amount = o.amount
  BY <1>2, <1>4 DEF CorrectSave, Save, Advance, At
<1>6. hs'[h] = k /\ \A g \in Handlers \ {h} : hs'[g] = hs[g]
  BY <1>5 DEF Inv, TypeOK
<1> SUFFICES ASSUME overlaps = 0
             PROVE  AloneOrCounted' /\ \A amount \in Int :
                       Backed(amount, 0)' /\ (amount = o.amount => Backed(amount, 1)')
  <2>1. ASSUME overlaps # 0 PROVE Books'
    BY <1>1, <2>1 DEF Books, AloneOrCounted, AllBacked
  <2>2. overlaps = 0 => \A g \in Handlers \ {h} : hs[g].pc = "idle"
    BY <1>1 DEF Books, AloneOrCounted
  <2> HIDE DEF o
  <2>3. ASSUME overlaps = 0, AloneOrCounted', \A amount \in Int :
                       Backed(amount, 0)' /\ (amount = o.amount => Backed(amount, 1)')
        PROVE  AllBacked'
    <3> SUFFICES ASSUME NEW g \in Handlers, hs'[g].pc = "correct.ledger" PROVE Backed(hs[g].amount, 1)'
      BY <2>3 DEF AllBacked
    <3>1. g = h
      BY <1>6, <2>2, <2>3
    <3>2. hs'[g].amount = o.amount
      BY <1>5, <1>6, <3>1
    <3> QED BY <1>1, <2>3, <3>2 DEF Backed, Posted, Booked
  <2> QED BY <2>1, <2>3 DEF Books
<1>7. /\ \A g \in Handlers \ {h} : hs[g].pc = "idle"
      /\ o.rec.corrections = ret.corrections
      /\ \A amount \in Int : Backed(amount, 0)
  BY <1>1 DEF Books, AloneOrCounted, AllBacked, Busy
<1> HIDE DEF o
<1>8. AloneOrCounted'
  BY <1>1, <1>5, <1>6, <1>7 DEF AloneOrCounted, Busy
<1>9. ASSUME NEW amount \in Int
      PROVE  Backed(amount, 0)' /\ (amount = o.amount => Backed(amount, 1)')
  <2> DEFINE n == Len(ret.corrections) + 1
  <2>1. ret.corrections \in Seq(Correction)
    BY DEF Inv, TypeOK, Return
  <2>2. /\ DOMAIN ret'.corrections = DOMAIN ret.corrections \cup {n} /\ n \notin DOMAIN ret.corrections
        /\ ret'.corrections[n] = c
        /\ \A i \in DOMAIN ret.corrections : ret'.corrections[i] = ret.corrections[i]
    <3>1. ret'.corrections = Append(ret.corrections, c)
      BY <1>3, <1>5, <1>7
    <3> QED BY <2>1, <3>1
  <2> HIDE DEF n
  <2>3. /\ n \notin Posted(amount)
        /\ amount = o.amount => Posted(amount)' = Posted(amount) \cup {n}
        /\ amount # o.amount => Posted(amount)' = Posted(amount)
    BY <1>3, <2>2 DEF Posted
  <2>4. Booked(amount)' = Booked(amount)
    BY <1>1 DEF Booked
  <2>5. PICK S, T : S = Posted(amount) /\ T = Posted(amount)'
    OBVIOUS
  <2>6. PICK B : B = Booked(amount)
    OBVIOUS
  <2>7. IsFiniteSet(S) /\ IsFiniteSet(B) /\ Cardinality(B) + 0 <= Cardinality(S)
    BY <1>7, <2>5, <2>6 DEF Backed
  <2>8. /\ IsFiniteSet(T) /\ Cardinality(S) \in Nat /\ Cardinality(T) \in Nat
        /\ Cardinality(T) >= Cardinality(S)
        /\ amount = o.amount => Cardinality(T) = Cardinality(S) + 1
    BY <2>3, <2>5, <2>7, OneMore
  <2>9. Cardinality(B) \in Nat
    BY <2>7, FS_CardinalityType
  <2>10. /\ Cardinality(B) + 0 <= Cardinality(T)
         /\ amount = o.amount => Cardinality(B) + 1 <= Cardinality(T)
    BY <2>7, <2>8, <2>9
  <2> QED BY <2>4, <2>5, <2>6, <2>7, <2>8, <2>10 DEF Backed
<1> QED BY <1>8, <1>9

(* ... and appendTaxLedgerEntry books it. *)
LEMMA CorrectLedgerBacked ==
    ASSUME Inv, Books, NEW h \in Handlers, CorrectLedger(h) PROVE Books'
<1> DEFINE o == hs[h]
<1>1. /\ o.pc = "correct.ledger" /\ UNCHANGED <<ret, overlaps>> /\ overlaps \in Nat
      /\ o.amount \in Int /\ ledger' = Append(ledger, o.amount) /\ ledger \in Seq(Int)
      /\ hs' = [hs EXCEPT ![h] = Resting]
  BY DEF CorrectLedger, Goto, Advance, Books, AloneOrCounted, Inv, TypeOK, Handler
<1>2. hs'[h].pc = "idle" /\ \A g \in Handlers \ {h} : hs'[g] = hs[g]
  BY <1>1 DEF Inv, TypeOK, Resting
<1> SUFFICES ASSUME overlaps = 0
             PROVE  (\A g \in Handlers : hs'[g].pc = "idle") /\ \A amount \in Int : Backed(amount, 0)'
  BY <1>1 DEF Books, AloneOrCounted, AllBacked, Busy
<1>3. /\ \A g \in Handlers \ {h} : hs[g].pc = "idle"
      /\ \A amount \in Int : Backed(amount, 0)
      /\ Backed(o.amount, 1)
  BY <1>1 DEF Books, AloneOrCounted, AllBacked
<1> HIDE DEF o
<1>4. ASSUME NEW amount \in Int PROVE Backed(amount, 0)'
  <2> DEFINE n == Len(ledger) + 1
  <2>1. /\ DOMAIN ledger' = DOMAIN ledger \cup {n} /\ n \notin DOMAIN ledger
        /\ ledger'[n] = o.amount
        /\ \A i \in DOMAIN ledger : ledger'[i] = ledger[i]
    BY <1>1
  <2> HIDE DEF n
  <2>2. /\ n \notin Booked(amount)
        /\ amount = o.amount => Booked(amount)' = Booked(amount) \cup {n}
        /\ amount # o.amount => Booked(amount)' = Booked(amount)
    BY <2>1 DEF Booked
  <2>3. Posted(amount)' = Posted(amount)
    BY <1>1 DEF Posted
  <2>4. PICK S, T : S = Booked(amount) /\ T = Booked(amount)'
    OBVIOUS
  <2>5. PICK P : P = Posted(amount)
    OBVIOUS
  <2>6. /\ IsFiniteSet(S) /\ IsFiniteSet(P) /\ Cardinality(S) + 0 <= Cardinality(P)
        /\ amount = o.amount => Cardinality(S) + 1 <= Cardinality(P)
    BY <1>3, <2>4, <2>5 DEF Backed
  <2>7. /\ IsFiniteSet(T) /\ Cardinality(S) \in Nat /\ Cardinality(T) \in Nat
        /\ T = S \cup {n} => Cardinality(T) = Cardinality(S) + 1
    BY <2>2, <2>4, <2>6, OneMore
  <2>8. Cardinality(P) \in Nat
    BY <2>6, FS_CardinalityType
  <2>9. Cardinality(T) + 0 <= Cardinality(P)
    BY <2>2, <2>4, <2>6, <2>7, <2>8
  <2> QED BY <2>3, <2>4, <2>5, <2>6, <2>7, <2>9 DEF Backed
<1> QED BY <1>2, <1>3, <1>4

LEMMA LoadBacked ==
    ASSUME Inv, Books, NEW h \in Handlers, NEW pc, NEW by, NEW kind, NEW amount,
           pc # "correct.ledger", Load(h, pc, by, kind, amount)
    PROVE  Books'
<1>1. PICK k : k = [pc |-> pc, rec |-> ret, by |-> by, kind |-> kind, amount |-> amount]
  OBVIOUS
<1>2. k.pc = pc /\ k.rec = ret /\ hs' = [hs EXCEPT ![h] = k]
      /\ CountOverlap(h) /\ UNCHANGED <<ret, ledger>>
  BY <1>1 DEF Load
<1> QED BY <1>2, StartBacked

LEMMA ReconcileBacked ==
    ASSUME Inv, Books, NEW h \in Handlers, NEW outcome, Reconcile(h, outcome) PROVE Books'
<1>1. PICK pc \in {"idle", "reconcile.alert"} :
         Goto(h, pc) /\ CountOverlap(h) /\ UNCHANGED <<ret, ledger>>
  BY DEF Reconcile
<1>2. PICK k : k = IF pc = "idle" THEN Resting ELSE At(hs[h], hs[h].rec, pc)
  OBVIOUS
<1>3. hs' = [hs EXCEPT ![h] = k] /\ k.pc = pc
  BY <1>1, <1>2 DEF Goto, Advance, Resting, At
<1> QED BY <1>1, <1>3, StartBacked

LEMMA StartsBacked ==
    ASSUME Inv, Books, NEW h \in Handlers, Start(h) PROVE Books'
  BY LoadBacked, ReconcileBacked
     DEF Start, SubmitLoad, LockLoad, AttachLoad, RemitLoad, ApproveLoad, FileLoad, CorrectLoad

(* Every other write leaves the corrections as they were. *)
LEMMA SaveBacked ==
    ASSUME Inv, Books, NEW h \in Handlers, Busy(h), NEW r, NEW pc,
           pc \notin {"correct.ledger", "reconcile.alert"}, Save(h, r, pc),
           r.corrections = hs[h].rec.corrections
    PROVE  Books'
  BY AdvanceBacked DEF Save

LEMMA TransitionBacked ==
    ASSUME Inv, Books, NEW h \in Handlers, Busy(h), NEW to, NEW pc,
           pc \notin {"correct.ledger", "reconcile.alert"},
           Transition(h, to, pc) \/ Stop(h)
    PROVE  Books'
<1>1. CASE Stop(h)
  BY <1>1, StopBacked DEF Stop, Busy
<1>2. CASE ~Stop(h)
  <2>1. PICK r : r = [hs[h].rec EXCEPT !.status = to] /\ Save(h, r, pc)
    BY <1>2 DEF Transition
  <2>2. hs[h].rec \in Return
    BY DEF Inv, TypeOK, Handler
  <2>3. r.corrections = hs[h].rec.corrections
    BY <2>1, <2>2 DEF Return
  <2> QED BY <2>1, <2>3, SaveBacked
<1> QED BY <1>1, <1>2

LEMMA ContinueBacked ==
    ASSUME Inv, Books, NEW h \in Handlers, Continue(h) PROVE Books'
<1>0. hs[h].rec \in Return
  BY DEF Inv, TypeOK, Handler
<1>1. CASE SubmitSave(h) \/ ApproveSave(h) \/ FileSave(h) \/ RemitSave(h) \/ LockSave(h)
  BY <1>1, TransitionBacked DEF SubmitSave, ApproveSave, FileSave, RemitSave, LockSave, Busy
<1>2. CASE AttachSave(h) \/ FileEvidence(h) \/ RemitEvidence(h) \/ CorrectEvidence(h)
  <2>1. Busy(h) /\ \E pc \in {"idle", "file.save", "remit.save", "correct.save"} : addTaxReturnEvidence(h, pc)
    BY <1>2 DEF AttachSave, FileEvidence, RemitEvidence, CorrectEvidence, Busy
  <2>2. PICK pc \in {"idle", "file.save", "remit.save", "correct.save"} :
           addTaxReturnEvidence(h, pc)
    BY <2>1
  <2>4. PICK r : r = [hs[h].rec EXCEPT !.evidence = @ \cup {hs[h].kind}] /\ Save(h, r, pc)
    BY <2>2 DEF addTaxReturnEvidence
  <2>3. r.corrections = hs[h].rec.corrections
    BY <1>0, <2>4 DEF Return
  <2> QED BY <2>1, <2>3, <2>4, SaveBacked
<1>3. CASE ApproveSign(h) \/ FileSign(h) \/ RemitStamp(h) \/ LockStamp(h)
  <2>1. PICK r : /\ Save(h, r, "idle")
                 /\ \/ r = [hs[h].rec EXCEPT !.reviewer = hs[h].by]
                    \/ r = [hs[h].rec EXCEPT !.filer = hs[h].by, !.threshold = hs[h].amount]
                    \/ r = [hs[h].rec EXCEPT !.remitted = TRUE]
                    \/ r = hs[h].rec
    BY <1>3 DEF ApproveSign, FileSign, RemitStamp, LockStamp
  <2>2. r.corrections = hs[h].rec.corrections
    BY <1>0, <2>1 DEF Return
  <2> QED BY <1>3, <2>1, <2>2, SaveBacked DEF ApproveSign, FileSign, RemitStamp, LockStamp, Busy
<1>4. CASE ApproveRuns(h) \/ ApproveAlerts(h)
  <2>1. PICK pc \in {"idle", "approve.alerts", "approve.save"} :
           Goto(h, pc) /\ UNCHANGED <<ret, ledger, overlaps>> /\ Busy(h)
    BY <1>4 DEF ApproveRuns, ApproveAlerts, Busy
  <2> QED BY <2>1, AdvanceBacked DEF Goto
<1>5. CASE ReconcileAlert(h)
  BY <1>5, StopBacked DEF ReconcileAlert
<1> QED BY <1>1, <1>2, <1>3, <1>4, <1>5, CorrectSaveBacked, CorrectLedgerBacked DEF Continue

LEMMA BooksInvariant == Spec => []Books
<1>1. Init => Books
  <2> SUFFICES ASSUME Init PROVE Books
    OBVIOUS
  <2>1. AloneOrCounted /\ \A h \in Handlers : hs[h].pc = "idle"
    BY DEF Init, Resting, AloneOrCounted, Busy
  <2>2. ASSUME NEW amount \in Int PROVE Backed(amount, 0)
    <3>1. ret.corrections = <<>> /\ ledger = <<>>
      BY DEF Init, Blank
    <3>2. Posted(amount) = {} /\ Booked(amount) = {}
      BY <3>1 DEF Posted, Booked
    <3> QED BY <3>2, FS_EmptySet DEF Backed
  <2> QED BY <2>1, <2>2 DEF Books, AllBacked
<1>2. Inv /\ Books /\ [Next]_vars => Books'
  <2> SUFFICES ASSUME Inv, Books, [Next]_vars PROVE Books'
    OBVIOUS
  <2>1. CASE UNCHANGED vars
    BY <2>1 DEF vars, Books, AloneOrCounted, AllBacked, Backed, Posted, Booked, Busy
  <2>2. ASSUME NEW h \in Handlers, Abort(h) PROVE Books'
    BY <2>2, StopBacked DEF Abort, Stop
  <2> QED BY <2>1, <2>2, StartsBacked, ContinueBacked DEF Next
<1> QED BY InitInv, NextInv, <1>1, <1>2, PTL DEF Spec

(* Whatever dies between two writes, every entry of the tax ledger has its *)
(* correction on the return while requests come one at a time, and a lock  *)
(* is found on a complete record only, whatever overlaps                   *)
(* (correctTaxReturn, lockTaxReturn).                                      *)
THEOREM RecordsBehind == Spec => []RecordsBehindReturn
<1>1. Books => LedgerIsBacked
  <2> SUFFICES ASSUME Books, overlaps = 0, NEW amount \in Amounts
               PROVE  Cardinality(Booked(amount)) <= Cardinality(Posted(amount))
    BY DEF LedgerIsBacked
  <2>1. amount \in Int
    BY AmountAssumption
  <2>2. PICK B, P : B = Booked(amount) /\ P = Posted(amount)
    OBVIOUS
  <2>3. IsFiniteSet(B) /\ Cardinality(B) + 0 <= Cardinality(P)
    BY <2>1, <2>2 DEF Books, AllBacked, Backed
  <2>4. Cardinality(B) \in Nat
    BY <2>3, FS_CardinalityType
  <2> QED BY <2>2, <2>3, <2>4
<1>2. LockedIsComplete /\ LedgerIsBacked => RecordsBehindReturn
  BY DEF RecordsBehindReturn
<1> QED BY <1>1, <1>2, BooksInvariant, LockIsEarned, PTL
-----------------------------------------------------------------------------
(* Why the gates hold while requests come one at a time: the one handler   *)
(* in progress holds the stored return itself, and what it read of the     *)
(* reconciliation is still so.                                             *)
FreshAt(k) ==
    k.pc \notin {"idle", "reconcile.alert"} =>
       /\ k.rec = ret
       /\ Locked(ret) => k.pc \in {"lock.stamp", "correct.evidence", "correct.save", "correct.ledger"}
       /\ k.pc \in {"approve.alerts", "approve.save"} => lastRun = "clean"
       /\ k.pc = "approve.save" => ~alert
       /\ k.pc = "correct.evidence" => k.kind = "PERIOD_CORRECTION"

Fresh ==
    /\ overlaps \in Nat
    /\ overlaps = 0 =>
          /\ \A g, h \in Handlers : hs[g].pc # "idle" /\ hs[h].pc # "idle" => g = h
          /\ \A h \in Handlers : FreshAt(hs[h])

(* What GatesHoldAlone asks of a step. *)
Gates ==
    /\ LockHolds
    /\ ret'.status = "APPROVED" /\ ret.status # "APPROVED" => lastRun = "clean" /\ ~alert

LEMMA FreshStep ==
    ASSUME Inv, Fresh, NEW h \in Handlers, NEW k, hs' = [hs EXCEPT ![h] = k], overlaps' \in Nat,
           overlaps' = 0 => (\A g \in Handlers \ {h} : hs[g].pc = "idle") /\ FreshAt(k)'
    PROVE  Fresh'
<1>1. hs'[h] = k /\ \A g \in Handlers \ {h} : hs'[g] = hs[g]
  BY DEF Inv, TypeOK
<1> SUFFICES ASSUME overlaps' = 0, NEW g \in Handlers PROVE FreshAt(hs[g])'
  BY <1>1 DEF Fresh
<1>2. CASE g = h
  BY <1>1, <1>2 DEF FreshAt, Locked
<1>3. CASE g # h
  BY <1>1, <1>3 DEF FreshAt
<1> QED BY <1>2, <1>3

(* A handler in progress advances on the copy r. *)
LEMMA FreshAdvance ==
    ASSUME Inv, Fresh, NEW h \in Handlers, hs[h].pc # "idle", NEW r, NEW pc, Advance(h, r, pc),
           UNCHANGED <<lastRun, overlaps>>, alert' = alert \/ pc = "idle",
           pc = "idle" \/ ret' = r,
           overlaps = 0 /\ pc # "idle" =>
              /\ Locked(r) => pc \in {"lock.stamp", "correct.save", "correct.ledger"}
              /\ pc \in {"approve.alerts", "approve.save"} => lastRun = "clean"
              /\ pc = "approve.save" => ~alert,
           pc \notin {"reconcile.alert", "correct.evidence"}
    PROVE  Fresh'
<1>1. PICK k : k = IF pc = "idle" THEN Resting ELSE At(hs[h], r, pc)
  OBVIOUS
<1>2. hs' = [hs EXCEPT ![h] = k] /\ k.pc = pc /\ (pc # "idle" => k.rec = r)
  BY <1>1 DEF Advance, Resting, At
<1>3. /\ overlaps \in Nat
      /\ overlaps = 0 => \A g \in Handlers \ {h} : hs[g].pc = "idle"
  BY DEF Fresh
<1>4. overlaps' = 0 => FreshAt(k)'
  BY <1>2 DEF FreshAt, Locked
<1> QED BY <1>2, <1>3, <1>4, FreshStep

LEMMA FreshStop ==
    ASSUME Inv, Fresh, NEW h \in Handlers, hs[h].pc # "idle", Stop(h)
    PROVE  Fresh' /\ Gates
<1>1. Fresh'
  BY FreshAdvance DEF Stop, Goto
<1>2. Gates
  BY DEF Stop, Gates, LockHolds, Locked
<1> QED BY <1>1, <1>2

(* A write of r by a handler in progress. *)
LEMMA FreshSave ==
    ASSUME Inv, Fresh, NEW h \in Handlers, Busy(h), NEW r, NEW pc, Save(h, r, pc),
           pc \notin {"reconcile.alert", "correct.evidence", "approve.alerts", "approve.save"},
           overlaps = 0 =>
              /\ Locked(r) => pc \in {"idle", "lock.stamp", "correct.save", "correct.ledger"}
              /\ Locked(ret) => /\ Locked(r)
                                /\ r.evidence \ ret.evidence \subseteq {"PERIOD_CORRECTION"}
                                /\ ret.evidence \subseteq r.evidence
                                /\ r.reviewer = ret.reviewer /\ r.filer = ret.filer
              /\ r.status = "APPROVED" /\ ret.status # "APPROVED" => lastRun = "clean" /\ ~alert
    PROVE  Fresh' /\ (overlaps' = 0 => Gates)
<1>1. Fresh'
  BY FreshAdvance DEF Save, Busy
<1>2. overlaps' = 0 => Gates
  BY DEF Save, Gates, LockHolds, Locked
<1> QED BY <1>1, <1>2

(* A handler starts on a fresh copy. *)
LEMMA FreshLoad ==
    ASSUME Inv, Fresh, NEW h \in Handlers, NEW pc, NEW by, NEW kind, NEW amount,
           Load(h, pc, by, kind, amount),
           pc \notin {"idle", "approve.alerts", "approve.save"},
           Locked(ret) => pc = "correct.evidence" /\ kind = "PERIOD_CORRECTION",
           pc = "correct.evidence" => Locked(ret)
    PROVE  Fresh' /\ Gates
<1>1. PICK k : k = [pc |-> pc, rec |-> ret, by |-> by, kind |-> kind, amount |-> amount]
  OBVIOUS
<1>2. /\ k.pc = pc /\ k.rec = ret /\ k.kind = kind /\ hs' = [hs EXCEPT ![h] = k]
      /\ CountOverlap(h) /\ UNCHANGED <<ret, lastRun, alert>>
  BY <1>1 DEF Load
<1>3. FreshAt(k)'
  BY <1>2 DEF FreshAt, Locked
<1>4. overlaps' \in Nat /\ (overlaps' = 0 => \A g \in Handlers \ {h} : hs[g].pc = "idle")
  BY <1>2 DEF CountOverlap, Fresh
<1>5. Gates
  BY <1>2 DEF Gates, LockHolds, Locked
<1> QED BY <1>2, <1>3, <1>4, <1>5, FreshStep

LEMMA StartFresh ==
    ASSUME Inv, Fresh, NEW h \in Handlers, Start(h) PROVE Fresh' /\ Gates
<1>1. ASSUME NEW outcome, Reconcile(h, outcome) PROVE Fresh' /\ Gates
  <2>1. PICK pc \in {"idle", "reconcile.alert"} :
           Goto(h, pc) /\ CountOverlap(h) /\ UNCHANGED ret
    BY <1>1 DEF Reconcile
  <2>2. PICK k : k = IF pc = "idle" THEN Resting ELSE At(hs[h], hs[h].rec, pc)
    OBVIOUS
  <2>3. hs' = [hs EXCEPT ![h] = k] /\ k.pc = pc
    BY <2>1, <2>2 DEF Goto, Advance, Resting, At
  <2>4. FreshAt(k)'
    BY <2>3 DEF FreshAt
  <2>5. overlaps' \in Nat /\ (overlaps' = 0 => \A g \in Handlers \ {h} : hs[g].pc = "idle")
    BY <2>1 DEF CountOverlap, Fresh
  <2>6. Gates
    BY <2>1 DEF Gates, LockHolds, Locked
  <2> QED BY <2>3, <2>4, <2>5, <2>6, FreshStep
<1>2. CASE SubmitLoad(h) \/ LockLoad(h)
  BY <1>2, FreshLoad DEF SubmitLoad, LockLoad
<1>3. ASSUME NEW kind, AttachLoad(h, kind) \/ RemitLoad(h, kind) PROVE Fresh' /\ Gates
  BY <1>3, FreshLoad DEF AttachLoad, RemitLoad
<1>4. ASSUME NEW by, NEW kind, NEW amount, NEW t,
             ApproveLoad(h, by) \/ FileLoad(h, by, kind, t) \/ CorrectLoad(h, by, amount, t)
      PROVE  Fresh' /\ Gates
  BY <1>4, FreshLoad DEF ApproveLoad, FileLoad, CorrectLoad
<1> QED BY <1>1, <1>2, <1>3, <1>4 DEF Start

LEMMA ContinueFresh ==
    ASSUME Inv, Fresh, NEW h \in Handlers, Continue(h) PROVE Fresh' /\ (overlaps' = 0 => Gates)
<1> DEFINE o == hs[h]
<1>0. o.rec \in Return /\ o.pc # "idle"
  BY DEF Inv, TypeOK, Handler, Continue, SubmitSave, ApproveRuns, ApproveAlerts, ApproveSave,
         ApproveSign, AttachSave, FileEvidence, FileSave, FileSign, RemitEvidence, RemitSave,
         RemitStamp, LockSave, LockStamp, CorrectEvidence, CorrectSave, CorrectLedger, ReconcileAlert
<1>1. overlaps = 0 => FreshAt(o)
  BY DEF Fresh
(* A transition that the table allows. *)
<1>2. ASSUME NEW to, NEW pc, Transition(h, to, pc) \/ Stop(h), Busy(h),
             pc \notin {"reconcile.alert", "correct.evidence", "approve.alerts", "approve.save"},
             to = "LOCKED" => pc \in {"idle", "lock.stamp"},
             to = "APPROVED" => o.pc = "approve.save"
      PROVE  Fresh' /\ (overlaps' = 0 => Gates)
  <2>1. CASE Stop(h)
    BY <1>0, <2>1, FreshStop
  <2>2. CASE ~Stop(h)
    <3>1. PICK r : r = [o.rec EXCEPT !.status = to] /\ Save(h, r, pc) /\ CanMove(o.rec, to)
      BY <1>2, <2>2 DEF Transition
    <3>2. r.status = to /\ ~Locked(o.rec)
      BY <1>0, <3>1 DEF Return, CanMove, taxReturnTransitions, Locked
    <3>3. overlaps = 0 => /\ o.rec = ret
                          /\ to = "APPROVED" => lastRun = "clean" /\ ~alert
      BY <1>1, <1>2 DEF FreshAt, Busy
    <3> HIDE DEF o
    <3> QED BY <1>2, <3>1, <3>2, <3>3, FreshSave DEF Locked
  <2> QED BY <2>1, <2>2
<1>3. CASE SubmitSave(h) \/ ApproveSave(h) \/ FileSave(h) \/ RemitSave(h) \/ LockSave(h)
  BY <1>2, <1>3 DEF SubmitSave, ApproveSave, FileSave, RemitSave, LockSave, Busy
<1>4. CASE AttachSave(h) \/ FileEvidence(h) \/ RemitEvidence(h) \/ CorrectEvidence(h)
  <2>1. PICK pc \in {"idle", "file.save", "remit.save", "correct.save"} :
           addTaxReturnEvidence(h, pc) /\ Busy(h) /\ (o.pc = "correct.evidence" <=> pc = "correct.save")
    BY <1>4 DEF AttachSave, FileEvidence, RemitEvidence, CorrectEvidence, Busy
  <2>2. PICK r : r = [o.rec EXCEPT !.evidence = o.rec.evidence \cup {o.kind}] /\ Save(h, r, pc)
    BY <2>1 DEF addTaxReturnEvidence
  <2>3. /\ r.status = o.rec.status /\ r.evidence = o.rec.evidence \cup {o.kind}
        /\ r.reviewer = o.rec.reviewer /\ r.filer = o.rec.filer
    BY <1>0, <2>2 DEF Return
  <2>4. overlaps = 0 => /\ o.rec = ret
                        /\ Locked(ret) => o.kind = "PERIOD_CORRECTION" /\ pc = "correct.save"
    BY <1>1, <1>4, <2>1 DEF FreshAt, Busy, AttachSave, FileEvidence, RemitEvidence, CorrectEvidence
  <2> HIDE DEF o
  <2> QED BY <2>1, <2>2, <2>3, <2>4, FreshSave DEF Locked
<1>5. CASE ApproveSign(h) \/ FileSign(h) \/ RemitStamp(h)
  <2>1. PICK r : /\ Save(h, r, "idle") /\ Busy(h) /\ o.pc \in {"approve.sign", "file.sign", "remit.stamp"}
                 /\ \/ r = [o.rec EXCEPT !.reviewer = o.by]
                    \/ r = [o.rec EXCEPT !.filer = o.by, !.threshold = o.amount]
                    \/ r = [o.rec EXCEPT !.remitted = TRUE]
    BY <1>5 DEF ApproveSign, FileSign, RemitStamp, Busy
  <2>2. r.status = o.rec.status
    BY <1>0, <2>1 DEF Return
  <2>3. overlaps = 0 => o.rec = ret /\ ~Locked(ret)
    BY <1>1, <2>1 DEF FreshAt
  <2> HIDE DEF o
  <2> QED BY <2>1, <2>2, <2>3, FreshSave DEF Locked
<1>6. CASE LockStamp(h)
  <2>1. Save(h, o.rec, "idle") /\ Busy(h)
    BY <1>6 DEF LockStamp, Busy
  <2>2. overlaps = 0 => o.rec = ret
    BY <1>1, <2>1 DEF FreshAt, Busy
  <2>3. PICK r : r = o.rec
    OBVIOUS
  <2> HIDE DEF o
  <2> QED BY <2>1, <2>2, <2>3, FreshSave
<1>7. CASE CorrectSave(h)
  <2>1. PICK r : r = Corrected(o.rec, o.amount) /\ Save(h, r, "correct.ledger") /\ Busy(h)
    BY <1>7 DEF CorrectSave, Busy
  <2>2. /\ r.status = o.rec.status /\ r.evidence = o.rec.evidence
        /\ r.reviewer = o.rec.reviewer /\ r.filer = o.rec.filer
    BY <1>0, <2>1 DEF Corrected, Return
  <2>3. overlaps = 0 => o.rec = ret
    BY <1>1, <2>1 DEF FreshAt, Busy
  <2> HIDE DEF o
  <2> QED BY <2>1, <2>2, <2>3, FreshSave DEF Locked
<1>8. CASE ApproveRuns(h) \/ ApproveAlerts(h)
  <2>1. PICK pc \in {"idle", "approve.alerts", "approve.save"} :
           /\ Goto(h, pc) /\ UNCHANGED <<ret, lastRun, alert, overlaps>>
           /\ o.pc \in {"approve.runs", "approve.alerts"}
           /\ pc = "approve.alerts" => lastRun = "clean"
           /\ pc = "approve.save" => o.pc = "approve.alerts" /\ ~alert
    BY <1>8 DEF ApproveRuns, ApproveAlerts
  <2>2. overlaps = 0 => /\ o.rec = ret /\ ~Locked(ret)
                        /\ pc = "approve.save" => lastRun = "clean"
    BY <1>1, <2>1 DEF FreshAt
  <2>3. PICK k : k = IF pc = "idle" THEN Resting ELSE At(o, o.rec, pc)
    OBVIOUS
  <2>4. hs' = [hs EXCEPT ![h] = k] /\ k.pc = pc /\ (pc # "idle" => k.rec = o.rec)
    BY <2>1, <2>3 DEF Goto, Advance, Resting, At
  <2>5. overlaps = 0 => FreshAt(k)'
    BY <2>1, <2>2, <2>4 DEF FreshAt, Locked
  <2>6. overlaps \in Nat /\ (overlaps = 0 => \A g \in Handlers \ {h} : hs[g].pc = "idle")
    BY <1>0 DEF Fresh
  <2>7. Gates
    BY <2>1 DEF Gates, LockHolds, Locked
  <2> HIDE DEF o
  <2> QED BY <2>1, <2>4, <2>5, <2>6, <2>7, FreshStep
<1>9. CASE CorrectLedger(h) \/ ReconcileAlert(h)
  <2>1. Goto(h, "idle") /\ UNCHANGED <<ret, lastRun, overlaps>>
    BY <1>9 DEF CorrectLedger, ReconcileAlert
  <2>2. Gates
    BY <2>1 DEF Gates, LockHolds, Locked
  <2> QED BY <1>0, <2>1, <2>2, FreshAdvance DEF Goto
<1> QED BY <1>3, <1>4, <1>5, <1>6, <1>7, <1>8, <1>9 DEF Continue

(* While requests come one at a time, whichever of them die midway, a      *)
(* locked period changes through the correction workflow only, and an      *)
(* approval finds the newest reconciliation clean and no alert open        *)
(* (approveTaxReturn, assertTaxReturnPeriodUnlocked).                      *)
THEOREM GatesAlone == Spec => GatesHoldAlone
<1>1. Init => Fresh
  BY DEF Init, Fresh, FreshAt, Resting
<1>2. Inv /\ Fresh /\ [Next]_vars => Fresh' /\ [overlaps' = 0 => Gates]_vars
  <2> SUFFICES ASSUME Inv, Fresh, [Next]_vars
               PROVE  Fresh' /\ (vars' = vars \/ (overlaps' = 0 => Gates))
    OBVIOUS
  <2>1. CASE UNCHANGED vars
    BY <2>1 DEF vars, Fresh, FreshAt, Locked
  <2>2. ASSUME NEW h \in Handlers, Abort(h) PROVE Fresh' /\ Gates
    BY <2>2, FreshStop DEF Abort
  <2> QED BY <2>1, <2>2, StartFresh, ContinueFresh DEF Next
<1> QED BY InitInv, NextInv, <1>1, <1>2, PTL DEF Spec, GatesHoldAlone, Gates
-----------------------------------------------------------------------------
(* The analytics: for any tenants, countries, times, lengths of a day, scopes *)
(* and runs, some of which die.                                              *)

(* Days. *)
LEMMA DayOf ==
    ASSUME NEW t \in Nat
    PROVE  /\ analyticsRollupDay(t) \in Nat /\ t % DayLength \in 0..(DayLength - 1)
           /\ t = DayLength * analyticsRollupDay(t) + (t % DayLength)
  BY TimesAssumption, SMTT(30) DEF analyticsRollupDay

(* What is multiplied grows. *)
LEMMA Multiples ==
    ASSUME NEW n \in Nat, NEW a \in Nat, NEW b \in Nat, a <= b
    PROVE  n * a <= n * b /\ n * a \in Nat /\ n * b \in Nat
  OBVIOUS

LEMMA DaysGrow ==
    ASSUME NEW x \in Nat, NEW y \in Nat, x <= y
    PROVE  analyticsRollupDay(x) <= analyticsRollupDay(y)
<1>1. PICK a \in Nat, i \in 0..(DayLength - 1) : a = analyticsRollupDay(x) /\ x = DayLength * a + i
  BY DayOf
<1>2. PICK b \in Nat, j \in 0..(DayLength - 1) : b = analyticsRollupDay(y) /\ y = DayLength * b + j
  BY DayOf
<1>3. SUFFICES ASSUME b + 1 <= a PROVE FALSE
  BY <1>1, <1>2
<1>4. DayLength * (b + 1) <= DayLength * a /\ DayLength \in Nat \ {0}
  BY <1>3, Multiples, TimesAssumption
<1>5. DayLength * (b + 1) = DayLength * b + DayLength
  BY <1>4
<1>6. PICK m \in Nat, k \in Nat : m = DayLength * b /\ k = DayLength * a
  BY <1>4, Multiples
<1> QED BY <1>1, <1>2, <1>4, <1>5, <1>6

LEMMA DayAfter ==
    ASSUME NEW x \in Nat, NEW y \in Nat, x % DayLength = 0,
           analyticsRollupDay(x) <= analyticsRollupDay(y)
    PROVE  x <= y
<1>1. PICK a \in Nat : a = analyticsRollupDay(x) /\ x = DayLength * a + 0
  BY DayOf
<1>2. PICK b \in Nat, j \in 0..(DayLength - 1) : b = analyticsRollupDay(y) /\ y = DayLength * b + j
  BY DayOf
<1>3. DayLength * a <= DayLength * b /\ DayLength \in Nat \ {0}
  BY <1>1, <1>2, Multiples, TimesAssumption
<1>4. PICK m \in Nat, k \in Nat : m = DayLength * b /\ k = DayLength * a
  BY <1>3, Multiples
<1> QED BY <1>1, <1>2, <1>3, <1>4

LEMMA DayBefore ==
    ASSUME NEW x \in Nat, NEW y \in Nat, y % DayLength = DayLength - 1,
           analyticsRollupDay(x) <= analyticsRollupDay(y)
    PROVE  x <= y
<1>1. PICK a \in Nat, i \in 0..(DayLength - 1) : a = analyticsRollupDay(x) /\ x = DayLength * a + i
  BY DayOf
<1>2. PICK b \in Nat : b = analyticsRollupDay(y) /\ y = DayLength * b + (DayLength - 1)
  BY DayOf
<1>3. DayLength * a <= DayLength * b /\ DayLength \in Nat \ {0}
  BY <1>1, <1>2, Multiples, TimesAssumption
<1>4. PICK m \in Nat, k \in Nat : m = DayLength * b /\ k = DayLength * a
  BY <1>3, Multiples
<1> QED BY <1>1, <1>2, <1>3, <1>4
-----------------------------------------------------------------------------
(* What the runs hold. *)
Timed(S) == \A e \in S : e.at \in Nat

Reads(k) == listEventsForScope(k.scope, k.period)

RunTyped(k) ==
    \/ k = IdleRun
    \/ /\ k.pc \in {"rebuild", "replace"}
       /\ k.period \in Periods /\ k.deleted \subseteq recorded
       /\ k.deleted \cap events = {}
       /\ \A e \in k.deleted : InScope(e, k.scope) /\ e.at \in k.period.from..k.period.to
       /\ k.pc = "replace" =>
             /\ k.counted \subseteq recorded
             /\ \A e \in k.counted : InScope(e, k.scope) /\ e.at \in k.period.from..k.period.to

(* Under any interleaving: what an answered erasure deleted is no event. *)
Kept ==
    /\ events \subseteq recorded /\ rollups \subseteq recorded
    /\ Timed(recorded)
    /\ erased \subseteq recorded /\ erased \cap events = {}
    /\ overlapping \in Nat /\ crashes \in Nat
    /\ DOMAIN run = Runs /\ \A r \in Runs : RunTyped(run[r])

(* The run in progress has read what there is, but for what came since. *)
RunSees(k) ==
    k.pc = "replace" => k.counted \subseteq events /\ Reads(k) \ late \subseteq k.counted

Alone ==
    overlapping = 0 =>
        /\ \A q, r \in Runs : run[q].pc # "idle" /\ run[r].pc # "idle" => q = r
        /\ \A r \in Runs : RunSees(run[r])
        /\ rollups \cap erased = {}

RollupsInv == Kept /\ Alone

LEMMA IsRun == IdleRun.pc = "idle" /\ \A k : RunTyped(k) /\ k.pc # "idle" => k.pc \in {"rebuild", "replace"}
  BY DEF IdleRun, RunTyped

LEMMA BeginAlone ==
    ASSUME RollupsInv, Begin
    PROVE  overlapping' \in Nat /\ crashes' = crashes /\ (overlapping' = 0 => overlapping = 0 /\ Quiet)
  BY DEF RollupsInv, Kept, Begin

(* The runs when one of them goes on. *)
LEMMA RunGoes ==
    ASSUME RollupsInv, NEW r \in Runs, NEW k, Go(r, k)
    PROVE  DOMAIN run' = Runs /\ run'[r] = k /\ \A q \in Runs \ {r} : run'[q] = run[q]
  BY DEF RollupsInv, Kept, Go

LEMMA Recorded ==
    ASSUME RollupsInv, recordEvent
    PROVE  RollupsInv'
<1>1. PICK e \in Events \ recorded :
         /\ events' = events \cup {e} /\ recorded' = recorded \cup {e}
         /\ late' = IF Quiet THEN late ELSE late \cup {e}
  BY DEF recordEvent
<1>2. UNCHANGED <<rollups, run, erased, overlapping, crashes>>
  BY DEF recordEvent, counters
<1>3. e.at \in Nat
  BY <1>1, TimesAssumption DEF Events
<1>4. Kept'
  <2>1. \A r \in Runs : RunTyped(run[r])'
    BY <1>1, <1>2 DEF RollupsInv, Kept, RunTyped
  <2> QED BY <1>1, <1>2, <1>3, <2>1 DEF RollupsInv, Kept, Timed
<1>5. ASSUME overlapping' = 0 PROVE Alone'
  <2>1. ASSUME NEW r \in Runs PROVE RunSees(run[r])'
    <3>1. SUFFICES ASSUME run[r].pc = "replace" PROVE RunSees(run[r])'
      BY <1>2 DEF RunSees
    <3>2. late' = late \cup {e}
      BY <1>1, <3>1 DEF Quiet
    <3>3. RunSees(run[r])
      BY <1>2, <1>5 DEF RollupsInv, Alone
    <3> QED BY <1>1, <1>2, <3>1, <3>2, <3>3 DEF RunSees, Reads, listEventsForScope
  <2> QED BY <1>2, <1>5, <2>1 DEF RollupsInv, Alone
<1> QED BY <1>4, <1>5 DEF RollupsInv, Alone

(* Some events go, between operations. *)
LEMMA EventsGo ==
    ASSUME RollupsInv, Begin, events' \subseteq events,
           UNCHANGED <<rollups, run, recorded, late, erased>>
    PROVE  RollupsInv'
<1>1. Kept'
  <2>1. \A r \in Runs : RunTyped(run[r])'
    BY DEF RollupsInv, Kept, RunTyped
  <2> QED BY <2>1, BeginAlone DEF RollupsInv, Kept
<1>2. ASSUME overlapping' = 0 PROVE Alone'
  <2>1. overlapping = 0 /\ Quiet
    BY <1>2, BeginAlone
  <2> QED BY <2>1 DEF RollupsInv, Alone, RunSees, Quiet
<1> QED BY <1>1, <1>2 DEF RollupsInv, Alone

(* A run begins or goes on: it has read what there is, or is done. *)
LEMMA RunReads ==
    ASSUME RollupsInv, NEW r \in Runs, NEW k, Go(r, k), RunTyped(k)', RunSees(k)',
           events' \subseteq events,
           overlapping' \in Nat, crashes' \in Nat,
           overlapping' = 0 => overlapping = 0 /\ \A q \in Runs \ {r} : run[q].pc = "idle",
           UNCHANGED <<rollups, recorded, late, erased>>
    PROVE  RollupsInv'
<1>1. DOMAIN run' = Runs /\ run'[r] = k /\ \A q \in Runs \ {r} : run'[q] = run[q]
  BY RunGoes
<1>2. Kept'
  <2>1. \A q \in Runs \ {r} : RunTyped(run[q])'
    BY <1>1 DEF RollupsInv, Kept, RunTyped
  <2>2. \A q \in Runs : RunTyped(run[q])'
    BY <1>1, <2>1
  <2> QED BY <1>1, <2>2 DEF RollupsInv, Kept
<1>3. ASSUME overlapping' = 0 PROVE Alone'
  <2>1. \A q \in Runs \ {r} : RunSees(run[q])'
    BY <1>1, <1>3 DEF RunSees
  <2> QED BY <1>1, <1>3, <2>1 DEF RollupsInv, Alone
<1> QED BY <1>2, <1>3 DEF RollupsInv, Alone

LEMMA ListedIs ==
    ASSUME Kept, NEW s, NEW p
    PROVE  /\ listEventsForScope(s, p) \subseteq events
           /\ \A e \in listEventsForScope(s, p) : InScope(e, s) /\ e.at \in p.from..p.to
  BY DEF listEventsForScope

LEMMA Refreshes ==
    ASSUME RollupsInv, NEW r \in Runs, runRollupRefresh(r)
    PROVE  RollupsInv'
<1>1. PICK s \in Scopes, p \in Periods :
         Go(r, [pc |-> "replace", scope |-> s, period |-> p,
                counted |-> listEventsForScope(s, p), deleted |-> {}])
  BY DEF runRollupRefresh
<1>2. Begin /\ UNCHANGED <<events, rollups, recorded, late, erased>>
  BY DEF runRollupRefresh
<1>3. PICK k : k = [pc |-> "replace", scope |-> s, period |-> p,
                    counted |-> listEventsForScope(s, p), deleted |-> {}]
  OBVIOUS
<1>4. /\ k.pc = "replace" /\ k.scope = s /\ k.period = p
      /\ k.counted = listEventsForScope(s, p) /\ k.deleted = {}
  BY <1>3
<1>5. RunTyped(k)'
  BY <1>2, <1>4, ListedIs DEF RunTyped, RollupsInv, Kept, InScope
<1>6. RunSees(k)'
  BY <1>2, <1>4, ListedIs DEF RunSees, Reads, RollupsInv, listEventsForScope
<1>7. Go(r, k)
  BY <1>1, <1>3
<1> QED BY <1>2, <1>5, <1>6, <1>7, BeginAlone, RunReads DEF Quiet, RollupsInv, Kept

LEMMA Erases ==
    ASSUME RollupsInv, NEW r \in Runs, runPrivacyRequest(r)
    PROVE  RollupsInv'
<1>1. PICK s \in Scopes, p \in Periods, rebuildRollups \in BOOLEAN :
         /\ events' = deleteEventsForPrivacyRequest(s, p)
         /\ Go(r, IF rebuildRollups
                  THEN [pc |-> "rebuild", scope |-> s, period |-> p,
                        deleted |-> listEventsForScope(s, p)]
                  ELSE IdleRun)
  BY DEF runPrivacyRequest
<1>2. Begin /\ UNCHANGED <<rollups, recorded, late, erased>>
  BY DEF runPrivacyRequest
<1>3. events' \subseteq events /\ events' \cap listEventsForScope(s, p) = {}
  BY <1>1 DEF deleteEventsForPrivacyRequest, listEventsForScope
<1>4. overlapping' \in Nat /\ crashes' \in Nat
      /\ (overlapping' = 0 => overlapping = 0 /\ \A q \in Runs \ {r} : run[q].pc = "idle")
  BY <1>2, BeginAlone DEF Quiet, RollupsInv, Kept
<1>5. CASE rebuildRollups
  <2>1. PICK k : k = [pc |-> "rebuild", scope |-> s, period |-> p,
                      deleted |-> listEventsForScope(s, p)]
    OBVIOUS
  <2>2. k.pc = "rebuild" /\ k.period = p /\ k.scope = s /\ k.deleted = listEventsForScope(s, p)
    BY <2>1
  <2>3. RunTyped(k)'
    BY <1>2, <1>3, <2>2, ListedIs DEF RunTyped, RollupsInv, Kept, InScope
  <2>4. RunSees(k)'
    BY <2>2 DEF RunSees
  <2>5. Go(r, k)
    BY <1>1, <1>5, <2>1
  <2> QED BY <1>2, <1>3, <1>4, <2>3, <2>4, <2>5, RunReads
<1>6. CASE ~rebuildRollups
  <2>1. PICK k : k = IdleRun
    OBVIOUS
  <2>2. RunTyped(k)' /\ RunSees(k)'
    BY <2>1 DEF RunTyped, RunSees, IdleRun
  <2>3. Go(r, k)
    BY <1>1, <1>6, <2>1
  <2> QED BY <1>2, <1>3, <1>4, <2>2, <2>3, RunReads
<1> QED BY <1>5, <1>6

LEMMA Lone ==
    ASSUME RollupsInv, overlapping = 0, NEW r \in Runs, run[r].pc # "idle"
    PROVE  \A q \in Runs \ {r} : run[q].pc = "idle"
  BY DEF RollupsInv, Alone

LEMMA Rebuilds ==
    ASSUME RollupsInv, NEW r \in Runs, Rebuild(r)
    PROVE  RollupsInv'
<1>1. PICK j : j = run[r]
  OBVIOUS
<1>2. PICK k : k = [pc |-> "replace", scope |-> j.scope, period |-> j.period,
                    counted |-> listEventsForScope(j.scope, j.period), deleted |-> j.deleted]
  OBVIOUS
<1>3. /\ j.pc = "rebuild" /\ Go(r, k)
      /\ UNCHANGED <<events, rollups, recorded, late, erased, overlapping, crashes>>
  BY <1>1, <1>2 DEF Rebuild, RunAt, counters
<1>4. RunTyped(j) /\ j # IdleRun
  BY <1>1, <1>3 DEF RollupsInv, Kept, IdleRun
<1>5. /\ k.pc = "replace" /\ k.scope = j.scope /\ k.period = j.period
      /\ k.counted = listEventsForScope(j.scope, j.period) /\ k.deleted = j.deleted
  BY <1>2
<1>6. RunTyped(k)'
  <2>1. /\ j.period \in Periods /\ j.deleted \subseteq recorded /\ j.deleted \cap events = {}
        /\ \A e \in j.deleted : InScope(e, j.scope) /\ e.at \in j.period.from..j.period.to
    BY <1>4 DEF RunTyped
  <2>2. /\ k.counted \subseteq recorded
        /\ \A e \in k.counted : InScope(e, k.scope) /\ e.at \in k.period.from..k.period.to
    BY <1>5, ListedIs DEF RollupsInv, Kept
  <2> QED BY <1>3, <1>5, <2>1, <2>2 DEF RunTyped, InScope
<1>7. RunSees(k)'
  BY <1>3, <1>5, ListedIs DEF RunSees, Reads, RollupsInv, listEventsForScope
<1>8. overlapping = 0 => \A q \in Runs \ {r} : run[q].pc = "idle"
  BY <1>1, <1>3, Lone
<1> QED BY <1>3, <1>6, <1>7, <1>8, RunReads DEF RollupsInv, Kept

LEMMA Dies ==
    ASSUME RollupsInv, Crash
    PROVE  RollupsInv'
<1>1. PICK r \in Runs : run[r].pc # "idle" /\ Go(r, IdleRun)
  BY DEF Crash, RunAt
<1>2. RunTyped(IdleRun)' /\ RunSees(IdleRun)'
  BY DEF RunTyped, RunSees, IdleRun
<1>3. crashes' \in Nat /\ UNCHANGED <<events, rollups, recorded, late, erased, overlapping>>
  BY DEF Crash, RollupsInv, Kept
<1> QED BY <1>1, <1>2, <1>3, Lone, RunReads DEF RollupsInv, Kept

(* What was erased of a scope and a period is in the rows that are replaced. *)
LEMMA InTheRows ==
    ASSUME NEW e, NEW s, NEW p \in Periods, e.at \in Nat, InScope(e, s), e.at \in p.from..p.to
    PROVE  InRows(e, s, p)
<1>1. p.from \in Nat /\ p.to \in Nat
  BY TimesAssumption DEF Periods
<1>2. p.from <= e.at /\ e.at <= p.to
  BY <1>1
<1>3. /\ analyticsRollupDay(p.from) <= analyticsRollupDay(e.at)
      /\ analyticsRollupDay(e.at) <= analyticsRollupDay(p.to)
  BY <1>1, <1>2, DaysGrow
<1>4. analyticsRollupDay(p.from) \in Nat /\ analyticsRollupDay(e.at) \in Nat /\ analyticsRollupDay(p.to) \in Nat
  BY <1>1, DayOf
<1> QED BY <1>3, <1>4 DEF InRows

(* Of whole days, the rows are those of the period. *)
LEMMA OfThePeriod ==
    ASSUME NEW e, NEW s, NEW p \in Periods, e.at \in Nat, InRows(e, s, p), WholeDays(p)
    PROVE  InScope(e, s) /\ e.at \in p.from..p.to
<1>1. p.from \in Nat /\ p.to \in Nat
  BY TimesAssumption DEF Periods
<1>2. analyticsRollupDay(p.from) \in Nat /\ analyticsRollupDay(e.at) \in Nat /\ analyticsRollupDay(p.to) \in Nat
  BY <1>1, DayOf
<1>3. /\ analyticsRollupDay(p.from) <= analyticsRollupDay(e.at)
      /\ analyticsRollupDay(e.at) <= analyticsRollupDay(p.to)
      /\ InScope(e, s)
  BY <1>2 DEF InRows
<1>4. p.from <= e.at /\ e.at <= p.to
  BY <1>1, <1>3, DayAfter, DayBefore DEF WholeDays
<1> QED BY <1>1, <1>3, <1>4

LEMMA Replaces ==
    ASSUME RollupsInv, NEW r \in Runs, replaceDailyRollups(r)
    PROVE  /\ RollupsInv'
           /\ overlapping' = 0 => RowsAreRaw(run[r].scope, run[r].period)
<1>0. PICK k : k = run[r]
  OBVIOUS
<1>1. /\ k.pc = "replace" /\ rollups' = (rollups \ listDailyRollups(k.scope, k.period)) \cup k.counted
      /\ erased' = erased \cup k.deleted /\ Go(r, IdleRun)
      /\ UNCHANGED <<events, recorded, late, overlapping, crashes>>
  BY <1>0 DEF replaceDailyRollups, RunAt, Replaced, counters
<1>2. RunTyped(k) /\ k # IdleRun
  BY <1>0, <1>1 DEF RollupsInv, Kept, IdleRun
<1>3. /\ k.period \in Periods /\ k.deleted \subseteq recorded /\ k.deleted \cap events = {}
      /\ \A e \in k.deleted : InScope(e, k.scope) /\ e.at \in k.period.from..k.period.to
      /\ k.counted \subseteq recorded
      /\ \A e \in k.counted : InScope(e, k.scope) /\ e.at \in k.period.from..k.period.to
  BY <1>1, <1>2 DEF RunTyped
<1>4. DOMAIN run' = Runs /\ run'[r] = IdleRun /\ \A q \in Runs \ {r} : run'[q] = run[q]
  BY <1>1, RunGoes
<1>5. Kept'
  <2>1. \A q \in Runs : RunTyped(run[q])'
    BY <1>1, <1>4 DEF RollupsInv, Kept, RunTyped
  <2> QED BY <1>1, <1>3, <1>4, <2>1 DEF RollupsInv, Kept, Timed
<1>6. \A e \in k.deleted \cup k.counted : InRows(e, k.scope, k.period)
  BY <1>3, InTheRows DEF RollupsInv, Kept, Timed
<1>7. ASSUME overlapping' = 0 PROVE Alone' /\ RowsAreRaw(k.scope, k.period)
  <2>1. overlapping = 0 /\ \A q \in Runs \ {r} : run[q].pc = "idle"
    BY <1>0, <1>1, <1>7, Lone
  <2>2. k.counted \subseteq events /\ Reads(k) \ late \subseteq k.counted /\ rollups \cap erased = {}
    BY <1>0, <1>1, <2>1 DEF RollupsInv, Alone, RunSees
  <2>3. rollups' \cap erased' = {}
    <3>1. \A e \in k.deleted : e \notin rollups \ listDailyRollups(k.scope, k.period)
      BY <1>6 DEF listDailyRollups
    <3> QED BY <1>1, <1>3, <2>2, <3>1 DEF RollupsInv, Kept
  <2>4. \A q \in Runs : RunSees(run[q])'
    BY <1>4, <2>1 DEF RunSees, IdleRun
  <2>5. Alone'
    BY <1>4, <2>1, <2>3, <2>4 DEF Alone, IdleRun
  <2>6. {e \in rollups' : InRows(e, k.scope, k.period)} = k.counted
    BY <1>1, <1>6 DEF listDailyRollups
  <2>7. WholeDays(k.period) =>
           {e \in events : InRows(e, k.scope, k.period)} \subseteq Reads(k)
    BY <1>3, OfThePeriod DEF Reads, listEventsForScope, RollupsInv, Kept, Timed
  <2>8. RowsAreRaw(k.scope, k.period)
    BY <1>6, <2>2, <2>6, <2>7 DEF RowsAreRaw
  <2> QED BY <2>5, <2>8
<1> QED BY <1>0, <1>5, <1>7 DEF RollupsInv, Alone

LEMMA InvInit ==
    ASSUME RollupsInit
    PROVE  RollupsInv
  BY DEF RollupsInit, RollupsInv, Kept, Alone, RunTyped, RunSees, Timed, IdleRun

LEMMA InvNext ==
    ASSUME RollupsInv, [RollupsNext]_rollupsVars
    PROVE  RollupsInv'
<1>1. CASE runRetention
  <2>1. PICK s \in Scopes, before \in Times : events' = pruneEvents(s, before)
    BY <1>1 DEF runRetention
  <2> QED BY <1>1, <2>1, EventsGo DEF runRetention, pruneEvents
<1>2. CASE UNCHANGED rollupsVars
  BY <1>2 DEF rollupsVars, RollupsInv, Kept, Alone, RunTyped, RunSees, Reads, Timed, listEventsForScope, InScope
<1> QED BY <1>1, <1>2, Recorded, Dies, Refreshes, Erases, Rebuilds, Replaces DEF RollupsNext

(* In every state, events, rows and runs agree. *)
THEOREM RollupsInvariant == RollupsSpec => []RollupsInv
<1> QED BY InvInit, InvNext, PTL DEF RollupsSpec

(* As long as no refresh or deletion begins during another, even if some die:  *)
(* no report counts what an answered erasure deleted, and a refresh or a       *)
(* rebuild leaves rows that agree with the raw events.                         *)
THEOREM RollupsAreRaw == RollupsSpec => RollupsAgree
<1> DEFINE Agrees == overlapping' = 0 =>
          /\ ErasedIsForgotten'
          /\ \A r \in Runs : replaceDailyRollups(r) => RowsAreRaw(run[r].scope, run[r].period)
<1>1. RollupsInv /\ overlapping = 0 => ErasedIsForgotten
  BY DEF RollupsInv, Kept, Alone, ErasedIsForgotten, Report, listDailyRollups, listEventsForScope
<1>2. RollupsInv' /\ overlapping' = 0 => ErasedIsForgotten'
  BY DEF RollupsInv, Kept, Alone, ErasedIsForgotten, Report, listDailyRollups, listEventsForScope
<1>3. RollupsInv /\ RollupsInv' => Agrees
  BY <1>2, Replaces
<1>4. RollupsInv /\ RollupsInv' /\ [RollupsNext]_rollupsVars => [Agrees]_rollupsVars
  BY <1>3
<1> QED BY <1>4, RollupsInvariant, PTL DEF RollupsSpec, RollupsAgree
-----------------------------------------------------------------------------
(* Who may see what: for any geography, assignments and queries.             *)

(* The code of a query is one of its level. *)
LEMMA Asked ==
    ASSUME NEW query \in Queries
    PROVE  /\ query.level \in Levels /\ query.code \in CodesOf(query.level)
           /\ query.country = None \/ query.country \in Countries
  BY DEF Queries

LEMMA LeastIn ==
    ASSUME NEW I \in SUBSET Nat, I # {}
    PROVE  Min(I) \in I
<1>1. PICK least \in I : \A j \in I : <<j, least>> \notin OpToRel(<, Nat)
  BY NatLessThanWellFounded, WFMin
<1>2. \A j \in I : ~(j < least)
  BY <1>1 DEF OpToRel
<1>3. \A j \in I : least =< j
  BY <1>2
<1> QED BY <1>3 DEF Min

(* What is given stays, the rest is as the country and the continent say. *)
LEMMA Normalised ==
    ASSUME NEW tenant, NEW country, NEW continent, NEW region
    PROVE  LET n == normalizeResourceScope(Resource(tenant, country, continent, region))
               home == IF country \in DOMAIN continentCode THEN continentCode[country] ELSE None
           IN  /\ n.tenant = tenant /\ n.country = country
               /\ n.continent = IF continent # None THEN continent ELSE home
               /\ region # None => n.region = region
               /\ region = None /\ n.region # None =>
                     \E g \in ToSet(operationalRegions) :
                        g.code = n.region /\ {home, n.continent} \cap g.continentCodes # {}
<1> DEFINE home == IF country \in DOMAIN continentCode THEN continentCode[country] ELSE None
           own == IF continent # None THEN continent ELSE home
           I == {j \in 1..Len(operationalRegions) :
                   {home, own} \cap operationalRegions[j].continentCodes # {}}
           i == SelectInSeq(operationalRegions, LAMBDA g : {home, own} \cap g.continentCodes # {})
<1>1. PICK r : r = [tenant |-> tenant, country |-> country, continent |-> continent, region |-> region]
  OBVIOUS
<1>2. r.tenant = tenant /\ r.country = country /\ r.continent = continent /\ r.region = region
  BY <1>1
<1>3. i = IF I # {} THEN Min(I) ELSE 0
  BY DEF SelectInSeq
<1>4. PICK g : g = IF region # None THEN region ELSE IF i = 0 THEN None ELSE operationalRegions[i].code
  OBVIOUS
<1>5. normalizeResourceScope(r) = [r EXCEPT !.continent = own, !.region = g]
  BY <1>2, <1>4 DEF normalizeResourceScope
<1> HIDE DEF i
<1>6. region # None => g = region
  BY <1>4
<1>7. ASSUME region = None, g # None
      PROVE  \E h \in ToSet(operationalRegions) : h.code = g /\ {home, own} \cap h.continentCodes # {}
  <2>1. i # 0 /\ g = operationalRegions[i].code
    BY <1>4, <1>7
  <2>2. I \in SUBSET Nat
    OBVIOUS
  <2> HIDE DEF I
  <2>4. i \in I
    BY <1>3, <2>1, <2>2, LeastIn
  <2>3. operationalRegions[i] \in ToSet(operationalRegions)
    BY <2>4, GeographyAssumption DEF ToSet, I
  <2> QED BY <2>1, <2>3, <2>4 DEF I
<1>8. PICK o : o = own
  OBVIOUS
<1>9. PICK n : n = [r EXCEPT !.continent = o, !.region = g]
  OBVIOUS
<1>10. n.tenant = tenant /\ n.country = country /\ n.continent = o /\ n.region = g
  BY <1>1, <1>9
<1>11. n = normalizeResourceScope(Resource(tenant, country, continent, region))
  BY <1>1, <1>5, <1>8, <1>9 DEF Resource
<1> QED BY <1>6, <1>7, <1>8, <1>10, <1>11

(* A region that comes of continents is one that lists one of them. *)
Lists(code, continents) ==
    \E g \in ToSet(operationalRegions) : g.code = code /\ continents \cap g.continentCodes # {}

LEMMA Places ==
    /\ None \notin Continents /\ None \notin Countries
    /\ \A country \in Countries : country \in DOMAIN continentCode /\ continentCode[country] \in Continents
    /\ \A code : ~Lists(code, {None})
  BY GeographyAssumption, CountriesAssumption DEF Lists

(* What each level of a query asks for, and what it will list. *)
LEMMA AskedOfTheWorld ==
    ASSUME NEW query \in Queries, query.level \in {"GLOBAL", "REGIONAL"}
    PROVE  LET s == resolveHierarchyScope(query)
               n == normalizeResourceScope(s.resource)
           IN  /\ n.tenant = None /\ n.country = None /\ n.continent = None
               /\ n.region # None =>
                     /\ query.level = "REGIONAL"
                     /\ \E g \in ToSet(operationalRegions) :
                        /\ g.code = n.region
                        /\ s.countries = {k \in Countries : continentCode[k] \in g.continentCodes}
<1> DEFINE s == resolveHierarchyScope(query)
<1>1. PICK code : code = IF query.level = "GLOBAL" THEN None ELSE query.code
  OBVIOUS
<1>2. s.resource = Resource(None, None, None, code)
  BY <1>1 DEF resolveHierarchyScope
<1>3. PICK n : n = normalizeResourceScope(s.resource)
  OBVIOUS
<1>4. /\ n.tenant = None /\ n.country = None /\ n.continent = None
      /\ code # None => n.region = code
      /\ code = None /\ n.region # None => Lists(n.region, {None})
  BY <1>2, <1>3, Normalised, GeographyAssumption DEF Lists
<1>5. ASSUME n.region # None
      PROVE  /\ query.level = "REGIONAL"
             /\ \E g \in ToSet(operationalRegions) :
                /\ g.code = n.region
                /\ s.countries = {k \in Countries : continentCode[k] \in g.continentCodes}
  <2>1. code # None /\ n.region = code /\ query.level = "REGIONAL" /\ query.code = code
    BY <1>1, <1>4, <1>5, Places
  <2>2. query.code \in {g.code : g \in ToSet(operationalRegions)}
    BY <2>1, Asked DEF CodesOf
  <2>3. PICK g : g = CHOOSE h \in ToSet(operationalRegions) : h.code = query.code
    OBVIOUS
  <2>4. g \in ToSet(operationalRegions) /\ g.code = query.code
    BY <2>2, <2>3
  <2>5. s.countries = {k \in Countries : continentCode[k] \in g.continentCodes}
    BY <2>1, <2>3 DEF resolveHierarchyScope
  <2> QED BY <2>1, <2>4, <2>5
<1> QED BY <1>3, <1>4, <1>5

LEMMA AskedOfAContinent ==
    ASSUME NEW query \in Queries, query.level = "CONTINENT"
    PROVE  LET s == resolveHierarchyScope(query)
               n == normalizeResourceScope(s.resource)
           IN  /\ n.tenant = None /\ n.country = None /\ n.continent = query.code
               /\ s.countries = {k \in Countries : continentCode[k] = query.code}
               /\ n.region # None => Lists(n.region, {query.code})
<1>1. query.code \in Continents /\ query.code # None
  BY Asked, Places DEF CodesOf
<1>2. resolveHierarchyScope(query).resource = Resource(None, None, query.code, None)
  BY DEF resolveHierarchyScope
<1>3. PICK n : n = normalizeResourceScope(Resource(None, None, query.code, None))
  OBVIOUS
<1>4. /\ n.tenant = None /\ n.country = None /\ n.continent = query.code
      /\ n.region # None =>
            \E g \in ToSet(operationalRegions) :
               g.code = n.region /\ {None, query.code} \cap g.continentCodes # {}
  BY <1>1, <1>3, Normalised, GeographyAssumption
<1>5. n.region # None => Lists(n.region, {query.code})
  BY <1>4, GeographyAssumption DEF Lists
<1>6. resolveHierarchyScope(query).countries = {k \in Countries : continentCode[k] = query.code}
  BY DEF resolveHierarchyScope
<1> QED BY <1>2, <1>3, <1>4, <1>5, <1>6

(* What a country is asked for, by a query for it or for a tenant in it. *)
LEMMA AskedOfACountry ==
    ASSUME NEW tenant, NEW country \in Countries
    PROVE  LET n == normalizeResourceScope(Resource(tenant, country, None, None))
           IN  /\ n.tenant = tenant /\ n.country = country
               /\ n.continent = continentCode[country]
               /\ n.region # None => Lists(n.region, {continentCode[country]})
<1>1. PICK home : home = continentCode[country]
  OBVIOUS
<1>2. country \in DOMAIN continentCode
  BY Places
<1>3. PICK n : n = normalizeResourceScope(Resource(tenant, country, None, None))
  OBVIOUS
<1>4. /\ n.tenant = tenant /\ n.country = country /\ n.continent = home
      /\ n.region # None =>
            \E g \in ToSet(operationalRegions) :
               g.code = n.region /\ {home, n.continent} \cap g.continentCodes # {}
  BY <1>1, <1>2, <1>3, Normalised
<1> QED BY <1>1, <1>3, <1>4 DEF Lists

LEMMA AskedOfATenant ==
    ASSUME NEW tenant
    PROVE  LET n == normalizeResourceScope(Resource(tenant, None, None, None))
           IN  n.tenant = tenant /\ n.country = None /\ n.continent = None /\ n.region = None
<1>1. PICK n : n = normalizeResourceScope(Resource(tenant, None, None, None))
  OBVIOUS
<1>2. /\ n.tenant = tenant /\ n.country = None /\ n.continent = None
      /\ n.region # None => Lists(n.region, {None})
  BY <1>1, Normalised, GeographyAssumption DEF Lists
<1> QED BY <1>1, <1>2, Places

(* What the assignment of a grant covers. *)
LEMMA MatchCovers ==
    ASSUME NEW a, a.level \in Levels, NEW query \in Queries,
           scopeMatches(a, normalizeResourceScope(resolveHierarchyScope(query).resource)),
           NEW tenant \in Tenants, NEW country \in Countries,
           InScope([tenant |-> tenant, country |-> country], resolveHierarchyScope(query)),
           query.level \in {"REGIONAL", "CONTINENT"} => resolveHierarchyScope(query).countries # {}
    PROVE  Covers(a, tenant, country)
<1> DEFINE s == resolveHierarchyScope(query)
           n == normalizeResourceScope(s.resource)
<1>1. SUFFICES ASSUME a.level # "GLOBAL" PROVE Covers(a, tenant, country)
  BY DEF Covers
<1>2. /\ a.level = "REGIONAL" => n.region # None /\ a.code = n.region
      /\ a.level = "CONTINENT" => n.continent # None /\ a.code = n.continent
      /\ a.level = "COUNTRY" => n.country # None /\ a.code = n.country
      /\ a.level = "TENANT" => n.tenant # None /\ a.code = n.tenant
  BY <1>1 DEF scopeMatches
<1>3. /\ s.tenant \in {Whole, tenant}
      /\ s.countries = {} \/ country \in s.countries
  BY DEF InScope
<1>4. a.level \in {"REGIONAL", "CONTINENT", "COUNTRY", "TENANT"}
  BY <1>1 DEF Levels
<1> HIDE DEF n
<1>5. CASE query.level \in {"GLOBAL", "REGIONAL"}
  <2>1. /\ n.tenant = None /\ n.country = None /\ n.continent = None
        /\ n.region # None =>
               /\ query.level = "REGIONAL"
               /\ \E g \in ToSet(operationalRegions) :
                  /\ g.code = n.region
                  /\ s.countries = {k \in Countries : continentCode[k] \in g.continentCodes}
    BY <1>5, AskedOfTheWorld DEF n
  <2>2. /\ a.level = "REGIONAL" /\ a.code = n.region /\ n.region # None
    BY <1>2, <1>4, <2>1
  <2>3. PICK g \in ToSet(operationalRegions) :
           /\ g.code = n.region
           /\ s.countries = {k \in Countries : continentCode[k] \in g.continentCodes}
    BY <2>1, <2>2
  <2>4. country \in s.countries
    BY <1>3, <2>1, <2>2
  <2> QED BY <2>2, <2>3, <2>4 DEF Covers
<1>6. CASE query.level = "CONTINENT"
  <2>1. /\ n.tenant = None /\ n.country = None /\ n.continent = query.code
        /\ s.countries = {k \in Countries : continentCode[k] = query.code}
        /\ n.region # None => Lists(n.region, {query.code})
    BY <1>6, AskedOfAContinent DEF n
  <2>2. continentCode[country] = query.code
    BY <1>3, <1>6, <2>1
  <2> QED BY <1>2, <1>4, <2>1, <2>2 DEF Covers, Lists
<1>7. ASSUME NEW t, n = normalizeResourceScope(Resource(t, country, None, None)),
             t # None => t = tenant
      PROVE  Covers(a, tenant, country)
  <2>1. /\ n.tenant = t /\ n.country = country /\ n.continent = continentCode[country]
        /\ n.region # None => Lists(n.region, {continentCode[country]})
    BY <1>7, AskedOfACountry
  <2> QED BY <1>2, <1>4, <1>7, <2>1 DEF Covers, Lists
<1>8. CASE query.level = "COUNTRY"
  <2>1. query.code \in Countries
    BY <1>8, Asked DEF CodesOf
  <2>2. /\ s.resource = Resource(None, query.code, None, None) /\ s.countries = {query.code}
    BY <1>8 DEF resolveHierarchyScope
  <2>3. country = query.code
    BY <1>3, <2>2
  <2> QED BY <1>7, <2>2, <2>3 DEF n
<1>9. CASE query.level = "TENANT"
  <2>1. query.code \in Tenants
    BY <1>9, Asked DEF CodesOf
  <2>2. /\ s.resource = Resource(query.code, query.country, None, None)
        /\ s.tenant = query.code
        /\ query.country # None => s.countries = {query.country}
    BY <1>9 DEF resolveHierarchyScope
  <2>3. tenant = query.code
    BY <1>3, <2>1, <2>2, ScopeAssumption
  <2>4. CASE query.country = None
    <3>1. n.tenant = query.code /\ n.country = None /\ n.continent = None /\ n.region = None
      BY <2>2, <2>4, AskedOfATenant DEF n
    <3> QED BY <1>2, <1>4, <2>3, <3>1 DEF Covers
  <2>5. CASE query.country # None
    <3>1. country = query.country
      BY <1>3, <2>2, <2>5
    <3> QED BY <1>7, <2>2, <2>3, <3>1 DEF n
  <2> QED BY <2>4, <2>5
<1> QED BY <1>5, <1>6, <1>8, <1>9, Asked DEF Levels

(* Whatever a session may ask for, every event that the report counts lies       *)
(* within an assignment that is in force, has the permission and came with the   *)
(* second factor if it has to; but for a region or continent without a country.  *)
THEOREM ReportsArePermitted == ReportsPermitted
<1> SUFFICES ASSUME NEW held \in Sessions, NEW mfaVerified \in BOOLEAN, NEW query \in Queries,
                    LET s == resolveHierarchyScope(query)
                    IN  /\ query.level \in {"REGIONAL", "CONTINENT"} => s.countries # {}
                        /\ MayAccess(held, mfaVerified, "VIEW_ANALYTICS", s.resource),
                    NEW tenant \in Tenants, NEW country \in Countries,
                    InScope([tenant |-> tenant, country |-> country], resolveHierarchyScope(query))
             PROVE  \E i \in DOMAIN held :
                        /\ Covers(held[i], tenant, country)
                        /\ isActiveAccessAssignment(held[i])
                        /\ "VIEW_ANALYTICS" \in permissionsByRole(held[i].role)
                        /\ requiresMfa(held[i].role) \/ held[i].mfaRequired => mfaVerified
  BY DEF ReportsPermitted
<1> DEFINE s == resolveHierarchyScope(query)
           mine == platformAssignments(held, "VIEW_ANALYTICS")
<1>1. PICK i \in mine : evaluateAccess(held[i], mfaVerified, "VIEW_ANALYTICS", s.resource) = "ACCESS_GRANTED"
  <2>1. mine # {}
    BY DEF MayAccess, checkPlatformSession
  <2>2. DOMAIN held \in SUBSET Nat
    BY SessionsAssumption
  <2>3. mine \in SUBSET Nat
    BY <2>2 DEF platformAssignments
  <2>4. Min(mine) \in mine
    BY <2>1, <2>3, LeastIn
  <2> HIDE DEF mine
  <2>5. \/ \E i \in mine : evaluateAccess(held[i], mfaVerified, "VIEW_ANALYTICS", s.resource) = "ACCESS_GRANTED"
        \/ evaluateAccess(held[Min(mine)], mfaVerified, "VIEW_ANALYTICS", s.resource) = "ACCESS_GRANTED"
    BY <2>1 DEF MayAccess, evaluatePlatformAccess, mine
  <2> QED BY <2>4, <2>5
<1>2. mfaVerified \/ (~held[i].mfaRequired /\ ~requiresMfa(held[i].role))
  BY <1>1 DEF MayAccess, checkPlatformSession
<1>3. /\ i \in DOMAIN held /\ isActiveAccessAssignment(held[i])
      /\ "VIEW_ANALYTICS" \in permissionsByRole(held[i].role)
  BY <1>1 DEF platformAssignments
<1>4. scopeMatches(held[i], normalizeResourceScope(s.resource))
  BY <1>1 DEF evaluateAccess
<1>5. Covers(held[i], tenant, country)
  BY <1>3, <1>4, MatchCovers, SessionsAssumption
<1> QED BY <1>2, <1>3, <1>5
-----------------------------------------------------------------------------
(* Reports of rows and reports of events: for any tables of any size.  The rows *)
(* of whole days within a scope are the rows of the events within it, and each  *)
(* number that a report sums up of its rows is the size of a set of events that *)
(* the rows divide into parts.                                                  *)

(* Some set has the least elements. *)
LEMMA Smallest ==
    ASSUME NEW Z, Z # {}, \A z \in Z : IsFiniteSet(z)
    PROVE  \E z \in Z : \A y \in Z : Cardinality(z) <= Cardinality(y)
<1> DEFINE I == {Cardinality(z) : z \in Z}
<1>1. I \in SUBSET Nat /\ I # {}
  BY FS_CardinalityType
<1>2. PICK least \in I : \A j \in I : <<j, least>> \notin OpToRel(<, Nat)
  BY <1>1, NatLessThanWellFounded, WFMin
<1>3. PICK z \in Z : least = Cardinality(z)
  BY <1>2
<1>4. ASSUME NEW y \in Z PROVE Cardinality(z) <= Cardinality(y)
  <2>1. Cardinality(y) \in I /\ Cardinality(y) \in Nat /\ Cardinality(z) \in Nat
    BY FS_CardinalityType
  <2>2. ~(Cardinality(y) < Cardinality(z))
    BY <1>2, <1>3, <2>1 DEF OpToRel
  <2> QED BY <2>1, <2>2
<1> QED BY <1>3, <1>4

(* A sum over a finite set is any function that adds as the fold does. *)
Additive(g, f, R) ==
    /\ g \in [SUBSET R -> Int] /\ g[{}] = 0
    /\ \A s \in SUBSET R, x \in R : x \in s => g[s] = f[x] + g[s \ {x}]

LEMMA SumIs ==
    ASSUME NEW R, IsFiniteSet(R), NEW f, NEW g, Additive(g, f, R)
    PROVE  SumFunctionOnSet(f, R) = g[R]
<1> USE DEF Additive
<1> DEFINE Adds(h) == h = [s \in SUBSET R |-> IF s = {} THEN 0
                             ELSE LET x == CHOOSE y \in s : TRUE IN f[x] + h[s \ {x}]]
           sum == CHOOSE h : Adds(h)
<1>1. Adds(g)
  <2>1. ASSUME NEW s \in SUBSET R, s # {}
        PROVE  g[s] = LET x == CHOOSE y \in s : TRUE IN f[x] + g[s \ {x}]
    <3>1. PICK x : x = CHOOSE y \in s : TRUE
      OBVIOUS
    <3>2. x \in s /\ x \in R
      BY <2>1, <3>1
    <3> QED BY <3>1, <3>2
  <2>2. \A s \in SUBSET R : g[s] = IF s = {} THEN 0
                             ELSE LET x == CHOOSE y \in s : TRUE IN f[x] + g[s \ {x}]
    BY <2>1
  <2> QED BY <2>2
<1>2. Adds(sum)
  <2> HIDE DEF Adds
  <2> QED BY <1>1
<1>3. SumFunctionOnSet(f, R) = sum[R]
  BY DEF SumFunctionOnSet, FoldFunctionOnSet, MapThenFoldSet
<1> HIDE DEF sum
<1>4. SUFFICES ASSUME sum[R] # g[R] PROVE FALSE
  BY <1>3
<1> DEFINE Z == {s \in SUBSET R : sum[s] # g[s]}
<1>5. PICK s \in Z : \A y \in Z : Cardinality(s) <= Cardinality(y)
  <2>1. Z # {} /\ \A z \in Z : IsFiniteSet(z)
    BY <1>4, FS_Subset
  <2> HIDE DEF Z
  <2> QED BY <2>1, Smallest
<1>6. s # {}
  BY <1>2
<1>7. PICK x : x = CHOOSE y \in s : TRUE
  OBVIOUS
<1>8. x \in s /\ x \in R /\ s \ {x} \in SUBSET R /\ IsFiniteSet(s)
  BY <1>6, <1>7, FS_Subset
<1>9. sum[s] = f[x] + sum[s \ {x}] /\ g[s] = f[x] + g[s \ {x}]
  BY <1>2, <1>6, <1>7, <1>8
<1>10. s \ {x} \in Z
  BY <1>8, <1>9
<1>11. Cardinality(s \ {x}) = Cardinality(s) - 1 /\ Cardinality(s) \in Nat
  BY <1>8, FS_RemoveElement, FS_CardinalityType
<1> QED BY <1>5, <1>10, <1>11

(* The sum of the sizes of parts that have nothing in common. *)
LEMMA SumOfParts ==
    ASSUME NEW E, IsFiniteSet(E), NEW R, IsFiniteSet(R), NEW Part \in [R -> SUBSET E],
           \A x \in R, y \in R : x # y => Part[x] \cap Part[y] = {},
           NEW f, \A x \in R : f[x] = Cardinality(Part[x])
    PROVE  SumFunctionOnSet(f, R) = Cardinality({e \in E : \E x \in R : e \in Part[x]})
<1> DEFINE Of(s) == {e \in E : \E x \in s : e \in Part[x]}
           g == [s \in SUBSET R |-> Cardinality(Of(s))]
<1>1. \A s \in SUBSET R : IsFiniteSet(Of(s)) /\ Cardinality(Of(s)) \in Nat
  BY FS_Subset, FS_CardinalityType
<1>2. g \in [SUBSET R -> Int]
  BY <1>1
<1>3. g[{}] = 0
  BY FS_EmptySet
<1>4. ASSUME NEW s \in SUBSET R, NEW x \in R, x \in s PROVE g[s] = f[x] + g[s \ {x}]
  <2>1. Of(s) = Part[x] \cup Of(s \ {x}) /\ Part[x] \cap Of(s \ {x}) = {}
    BY <1>4
  <2>2. IsFiniteSet(Part[x]) /\ IsFiniteSet(Of(s \ {x})) /\ s \ {x} \in SUBSET R
    BY <1>1, FS_Subset
  <2>3. f[x] = Cardinality(Part[x]) /\ Cardinality(Part[x]) \in Nat
    BY <2>2, FS_CardinalityType
  <2>4. Cardinality({}) = 0
    BY FS_EmptySet
  <2> HIDE DEF Of
  <2>5. PICK a : a = Part[x]
    OBVIOUS
  <2>6. PICK b : b = Of(s \ {x})
    OBVIOUS
  <2>7. Cardinality(a \cup b) = Cardinality(a) + Cardinality(b) - Cardinality(a \cap b)
    BY <2>2, <2>5, <2>6, FS_Union
  <2>8. Cardinality(b) \in Nat /\ Of(s) = a \cup b /\ a \cap b = {}
    BY <1>1, <2>1, <2>2, <2>5, <2>6
  <2>9. g[s] = Cardinality(Of(s)) /\ g[s \ {x}] = Cardinality(b)
    BY <2>2, <2>6
  <2>10. Cardinality(a \cap b) = 0 /\ Cardinality(Of(s)) = Cardinality(a \cup b) /\ Cardinality(a) = f[x]
    BY <2>3, <2>4, <2>5, <2>8
  <2> HIDE DEF Of, g
  <2>11. f[x] \in Nat
    BY <2>3
  <2>12. g[s] = f[x] + Cardinality(b)
    BY <2>7, <2>8, <2>9, <2>10, <2>11
  <2> QED BY <2>9, <2>12
<1>5. g[R] = Cardinality(Of(R))
  OBVIOUS
<1>6. \A s \in SUBSET R, x \in R : x \in s => g[s] = f[x] + g[s \ {x}]
  BY <1>4
<1> HIDE DEF g
<1>7. Additive(g, f, R)
  BY <1>2, <1>3, <1>6 DEF Additive
<1>8. SumFunctionOnSet(f, R) = g[R]
  BY <1>7, SumIs
<1> QED BY <1>5, <1>8

(* The greatest of finitely many numbers. *)
LEMMA Greatest ==
    ASSUME NEW S \in SUBSET Nat, IsFiniteSet(S), S # {}
    PROVE  MaxOf(S) \in S /\ \A y \in S : y <= MaxOf(S)
<1> DEFINE Above(z) == {y \in S : z <= y}
           Z == {Above(z) : z \in S}
<1>1. Z # {} /\ \A z \in Z : IsFiniteSet(z)
  <2>1. ASSUME NEW y \in S PROVE IsFiniteSet(Above(y))
    <3>1. PICK b : b = Above(y)
      OBVIOUS
    <3>2. b \in SUBSET S
      BY <3>1
    <3> QED BY <3>1, <3>2, FS_Subset
  <2>2. PICK y \in S : TRUE
    OBVIOUS
  <2> HIDE DEF Above
  <2> QED BY <2>1, <2>2
<1>2. PICK a \in Z : \A b \in Z : Cardinality(a) <= Cardinality(b)
  <2> HIDE DEF Z
  <2> QED BY <1>1, Smallest
<1>3. PICK z \in S : a = Above(z)
  OBVIOUS
<1>4. ASSUME NEW y \in S, ~(y <= z) PROVE FALSE
  <2>1. Above(y) \in SUBSET a /\ Above(y) # a /\ IsFiniteSet(a)
    <3>1. z \in Nat /\ y \in Nat /\ \A x \in S : x \in Nat
      OBVIOUS
    <3>2. z \in a /\ z \notin Above(y)
      BY <1>3, <1>4, <3>1
    <3>3. \A x \in S : y <= x => z <= x
      BY <1>4, <3>1
    <3> QED BY <1>1, <1>3, <3>2, <3>3
  <2>2. PICK b : b = Above(y)
    OBVIOUS
  <2>3. b \in Z
    BY <2>2
  <2>4. Cardinality(b) <= Cardinality(a) /\ Cardinality(b) # Cardinality(a) /\ IsFiniteSet(b)
    BY <2>1, <2>2, FS_Subset
  <2>5. Cardinality(a) \in Nat /\ Cardinality(b) \in Nat
    BY <2>1, <2>4, FS_CardinalityType
  <2> QED BY <1>2, <2>3, <2>4, <2>5
<1> QED BY <1>4 DEF MaxOf

LEMMA GreatestIs ==
    ASSUME NEW S \in SUBSET Nat, NEW m \in S, \A y \in S : y <= m
    PROVE  MaxOf(S) = m
<1>1. MaxOf(S) \in S /\ \A y \in S : y <= MaxOf(S)
  BY DEF MaxOf
<1>2. m <= MaxOf(S) /\ MaxOf(S) <= m /\ m \in Nat /\ MaxOf(S) \in Nat
  BY <1>1
<1> QED BY <1>2

(* The rows of a table: one for each key. *)
LEMMA RowsAre ==
    ASSUME NEW evs, IsFiniteSet(evs)
    PROVE  /\ IsFiniteSet(aggregateAnalyticsDailyRollups(evs))
           /\ \A e \in evs : RowOf(KeyOf(e), evs) \in aggregateAnalyticsDailyRollups(evs)
           /\ \A row \in aggregateAnalyticsDailyRollups(evs) :
                 row = RowOf(row.key, evs) /\ \E e \in evs : row.key = KeyOf(e)
<1> DEFINE rows == aggregateAnalyticsDailyRollups(evs)
           h == [e \in evs |-> RowOf(KeyOf(e), evs)]
<1>1. \A e \in evs : RowOf(KeyOf(e), evs) \in rows
  BY DEF aggregateAnalyticsDailyRollups
<1>2. ASSUME NEW row \in rows
      PROVE  /\ row = RowOf(row.key, evs)
             /\ \E e \in evs : row.key = KeyOf(e) /\ row = RowOf(KeyOf(e), evs)
  <2>1. PICK e \in evs : row = RowOf(KeyOf(e), evs)
    BY DEF aggregateAnalyticsDailyRollups
  <2>2. RowOf(KeyOf(e), evs).key = KeyOf(e)
    BY DEF RowOf
  <2> QED BY <2>1, <2>2
<1> HIDE DEF rows
<1>3. h \in Surjection(evs, rows)
  BY <1>1, <1>2 DEF Surjection
<1>4. IsFiniteSet(rows)
  <2> HIDE DEF h
  <2> QED BY <1>3, FS_Surjection
<1> QED BY <1>1, <1>2, <1>4 DEF rows

(* Rows that count parts of a set of events count the set. *)
LEMMA RowsCount ==
    ASSUME NEW evs, IsFiniteSet(evs),
           NEW rows \in SUBSET aggregateAnalyticsDailyRollups(evs), NEW C \in SUBSET evs,
           \A e \in C : RowOf(KeyOf(e), evs) \in rows,
           NEW f, DOMAIN f = rows,
           \A row \in rows : f[row] = Cardinality({e \in C : KeyOf(e) = row.key})
    PROVE  SumFunction(f) = Cardinality(C)
<1> DEFINE Part == [row \in rows |-> {e \in C : KeyOf(e) = row.key}]
<1>1. IsFiniteSet(C) /\ IsFiniteSet(rows)
  BY RowsAre, FS_Subset
<1>2. Part \in [rows -> SUBSET C] /\ \A row \in rows : f[row] = Cardinality(Part[row])
  OBVIOUS
<1>3. \A x \in rows, y \in rows : x # y => Part[x] \cap Part[y] = {}
  <2>1. \A x \in rows, y \in rows : x.key = y.key => x = y
    BY RowsAre
  <2> QED BY <2>1
<1>4. {e \in C : \E row \in rows : e \in Part[row]} = C
  <2>1. ASSUME NEW e \in C PROVE RowOf(KeyOf(e), evs).key = KeyOf(e)
    BY DEF RowOf
  <2> QED BY <2>1
<1> HIDE DEF Part
<1>5. SumFunctionOnSet(f, rows) = Cardinality({e \in C : \E row \in rows : e \in Part[row]})
  BY <1>1, <1>2, <1>3, SumOfParts
<1> QED BY <1>4, <1>5 DEF SumFunction

(* The types that a report sums up. *)
LEMMA TypesCount ==
    ASSUME NEW counted, IsFiniteSet(counted), \A e \in counted : e.type \in analyticsEventTypes,
           NEW types, IsFiniteSet(types), NEW totals,
           \A t \in analyticsEventTypes : totals[t] = Cardinality({e \in counted : e.type = t})
    PROVE  SumFunctionOnSet(totals, types \cap analyticsEventTypes)
              = Cardinality({e \in counted : e.type \in types})
<1>1. PICK R : R = types \cap analyticsEventTypes
  OBVIOUS
<1> DEFINE Part == [t \in R |-> {e \in counted : e.type = t}]
<1>2. IsFiniteSet(R)
  BY <1>1, FS_Subset
<1>3. /\ Part \in [R -> SUBSET counted]
      /\ \A t \in R : totals[t] = Cardinality(Part[t])
      /\ \A x \in R, y \in R : x # y => Part[x] \cap Part[y] = {}
  BY <1>1
<1>4. {e \in counted : \E t \in R : e \in Part[t]} = {e \in counted : e.type \in types}
  BY <1>1
<1> HIDE DEF Part
<1>5. SumFunctionOnSet(totals, R) = Cardinality({e \in counted : \E t \in R : e \in Part[t]})
  BY <1>2, <1>3, SumOfParts
<1> QED BY <1>1, <1>4, <1>5

(* What a row of a table holds. *)
Counted(evs, key) == {e \in evs : KeyOf(e) = key}
OfType(evs, t) == {e \in evs : e.type = t}
Instants(evs) == {e.at : e \in evs}

LEMMA RowHolds ==
    ASSUME NEW evs, IsFiniteSet(evs), NEW row \in aggregateAnalyticsDailyRollups(evs)
    PROVE  /\ row.eventCount = Cardinality(Counted(evs, row.key))
           /\ \A t \in analyticsEventTypes :
                 row.totals[t] = Cardinality(OfType(Counted(evs, row.key), t))
           /\ row.lastEventAt = MaxOf(Instants(Counted(evs, row.key)))
<1>1. row = RowOf(row.key, evs)
  BY RowsAre
<1>2. PICK key : key = row.key
  OBVIOUS
<1>3. row = RowOf(key, evs)
  BY <1>1, <1>2
<1> QED BY <1>2, <1>3 DEF RowOf, Counted, OfType, Instants

(* The totals of the rows are those of the events. *)
LEMMA TotalsAgree ==
    ASSUME NEW evs, IsTable(evs)
    PROVE  rollupTotals(aggregateAnalyticsDailyRollups(evs)) = eventTotals(evs)
<1>1. PICK rows : rows = aggregateAnalyticsDailyRollups(evs)
  OBVIOUS
<1>2. ASSUME NEW t \in analyticsEventTypes
      PROVE  SumFunction([row \in rows |-> row.totals[t]]) = Cardinality({e \in evs : e.type = t})
  <2>1. PICK C : C = {e \in evs : e.type = t}
    OBVIOUS
  <2>2. PICK f : f = [row \in rows |-> row.totals[t]]
    OBVIOUS
  <2>3. ASSUME NEW row \in rows PROVE f[row] = Cardinality({e \in C : KeyOf(e) = row.key})
    <3>1. row.totals[t] = Cardinality({e \in {x \in evs : KeyOf(x) = row.key} : e.type = t})
      <4>1. row \in aggregateAnalyticsDailyRollups(evs) /\ IsFiniteSet(evs)
        BY <1>1 DEF IsTable
      <4>2. row.totals[t] = Cardinality(OfType(Counted(evs, row.key), t))
        BY <4>1, RowHolds
      <4> QED BY <4>2 DEF Counted, OfType
    <3>2. {e \in {x \in evs : KeyOf(x) = row.key} : e.type = t} = {e \in C : KeyOf(e) = row.key}
      BY <2>1
    <3> QED BY <2>2, <3>1, <3>2
  <2>4. SumFunction(f) = Cardinality(C)
    <3>1. DOMAIN f = rows /\ C \in SUBSET evs /\ IsFiniteSet(evs)
      BY <2>1, <2>2 DEF IsTable
    <3>2. \A e \in C : RowOf(KeyOf(e), evs) \in rows
      BY <1>1, <3>1, RowsAre
    <3>3. rows \in SUBSET aggregateAnalyticsDailyRollups(evs)
      BY <1>1
    <3> QED BY <2>3, <3>1, <3>2, <3>3, RowsCount
  <2> QED BY <2>1, <2>2, <2>4
<1> QED BY <1>1, <1>2 DEF rollupTotals, eventTotals

(* So are their numbers, for any part of the keys. *)
LEMMA NumbersAgree ==
    ASSUME NEW evs, IsTable(evs), NEW K
    PROVE  LET rows == {r \in aggregateAnalyticsDailyRollups(evs) : r.key \in K}
           IN  SumFunction([row \in rows |-> row.eventCount]) = Cardinality({e \in evs : KeyOf(e) \in K})
<1>1. PICK rows : rows = {r \in aggregateAnalyticsDailyRollups(evs) : r.key \in K}
  OBVIOUS
<1>2. PICK C : C = {e \in evs : KeyOf(e) \in K}
  OBVIOUS
<1>3. PICK f : f = [row \in rows |-> row.eventCount]
  OBVIOUS
<1>4. ASSUME NEW row \in rows PROVE f[row] = Cardinality({e \in C : KeyOf(e) = row.key})
  <2>1. row.eventCount = Cardinality({e \in evs : KeyOf(e) = row.key})
    <3>1. row \in aggregateAnalyticsDailyRollups(evs) /\ IsFiniteSet(evs)
      BY <1>1 DEF IsTable
    <3>2. row.eventCount = Cardinality(Counted(evs, row.key))
      BY <3>1, RowHolds
    <3> QED BY <3>2 DEF Counted
  <2>2. {e \in evs : KeyOf(e) = row.key} = {e \in C : KeyOf(e) = row.key}
    BY <1>1, <1>2
  <2> QED BY <1>3, <2>1, <2>2
<1>5. DOMAIN f = rows /\ C \in SUBSET evs /\ IsFiniteSet(evs)
  BY <1>2, <1>3 DEF IsTable
<1>6. \A e \in C : RowOf(KeyOf(e), evs) \in rows
  <2>1. ASSUME NEW e \in C PROVE RowOf(KeyOf(e), evs).key \in K
    BY <1>2 DEF RowOf
  <2> QED BY <1>1, <1>5, <2>1, RowsAre
<1>7. rows \in SUBSET aggregateAnalyticsDailyRollups(evs)
  BY <1>1
<1>8. SumFunction(f) = Cardinality(C)
  BY <1>4, <1>5, <1>6, <1>7, RowsCount
<1> QED BY <1>1, <1>2, <1>3, <1>8

LEMMA AllAgree ==
    ASSUME NEW evs, IsTable(evs)
    PROVE  SumFunction([row \in aggregateAnalyticsDailyRollups(evs) |-> row.eventCount]) = Cardinality(evs)
<1>1. PICK K : K = {KeyOf(e) : e \in evs}
  OBVIOUS
<1>2. {r \in aggregateAnalyticsDailyRollups(evs) : r.key \in K} = aggregateAnalyticsDailyRollups(evs)
  BY <1>1, RowsAre DEF IsTable
<1>3. {e \in evs : KeyOf(e) \in K} = evs
  BY <1>1
<1> QED BY <1>2, <1>3, NumbersAgree

(* Breakdowns. *)
LEMMA BreakdownsAgree ==
    ASSUME NEW evs, IsTable(evs), NEW label, \A e \in evs : KeyOf(e)[label] = e[label]
    PROVE  rollupBreakdown(aggregateAnalyticsDailyRollups(evs), label) = breakdown(evs, label)
<1>1. PICK rows : rows = aggregateAnalyticsDailyRollups(evs)
  OBVIOUS
<1>2. {row.key[label] : row \in rows} = {e[label] : e \in evs}
  <2>1. ASSUME NEW e \in evs PROVE RowOf(KeyOf(e), evs) \in rows /\ RowOf(KeyOf(e), evs).key = KeyOf(e)
    BY <1>1, RowsAre DEF RowOf, IsTable
  <2>2. \A row \in rows : \E e \in evs : row.key = KeyOf(e)
    BY <1>1, RowsAre DEF IsTable
  <2>3. \A row \in rows : \E e \in evs : row.key[label] = e[label]
    BY <2>2
  <2>4. \A e \in evs : \E row \in rows : row.key[label] = e[label]
    BY <2>1
  <2> QED BY <2>3, <2>4
<1>3. ASSUME NEW x
      PROVE  SumFunction([row \in {r \in rows : r.key[label] = x} |-> row.eventCount])
                = Cardinality({e \in evs : e[label] = x})
  <2>1. PICK K : K = {KeyOf(e) : e \in {e \in evs : e[label] = x}}
    OBVIOUS
  <2>2. {r \in rows : r.key \in K} = {r \in rows : r.key[label] = x}
    <3>1. \A r \in rows : \E e \in evs : r.key = KeyOf(e)
      BY <1>1, RowsAre DEF IsTable
    <3> QED BY <2>1, <3>1
  <2>3. {e \in evs : KeyOf(e) \in K} = {e \in evs : e[label] = x}
    BY <2>1
  <2>4. SumFunction([row \in {r \in rows : r.key \in K} |-> row.eventCount])
           = Cardinality({e \in evs : KeyOf(e) \in K})
    BY <1>1, NumbersAgree
  <2> QED BY <2>2, <2>3, <2>4
<1> QED BY <1>1, <1>2, <1>3 DEF rollupBreakdown, breakdown

LEMMA LastOf ==
    ASSUME NEW evs, IsTable(evs), evs # {}
    PROVE  /\ \E e \in evs : MaxOf(Instants(evs)) = e.at
           /\ \A e \in evs : e.at <= MaxOf(Instants(evs))
<1> DEFINE h == [e \in evs |-> e.at]
<1>1. PICK I : I = Instants(evs)
  OBVIOUS
<1>2. I \in SUBSET Nat /\ I # {} /\ h \in Surjection(evs, I) /\ IsFiniteSet(evs)
  BY <1>1 DEF Surjection, Instants, IsTable
<1>3. IsFiniteSet(I)
  <2> HIDE DEF h
  <2> QED BY <1>2, FS_Surjection
<1>4. MaxOf(I) \in I /\ \A y \in I : y <= MaxOf(I)
  BY <1>2, <1>3, Greatest
<1>5. \A e \in evs : e.at \in I
  BY <1>1 DEF Instants
<1>6. \E e \in evs : MaxOf(I) = e.at
  BY <1>1, <1>4 DEF Instants
<1> QED BY <1>1, <1>4, <1>5, <1>6

(* The summary of an entity. *)
RowKinds(types, rows) ==
    SumFunction([row \in rows |-> SumFunctionOnSet(row.totals, types \cap analyticsEventTypes)])
EventKinds(types, n, evs) == Cardinality({e \in evs : e.entity = n /\ e.type \in types})
RowsOf(n, evs) == {r \in aggregateAnalyticsDailyRollups(evs) : r.key.entity = n}

LEMMA KindsAgree ==
    ASSUME NEW evs, IsTable(evs), NEW n, NEW types, IsFiniteSet(types),
           NEW mine, mine = RowsOf(n, evs)
    PROVE  RowKinds(types, mine) = EventKinds(types, n, evs)
<1> USE DEF RowsOf
<1>1. PICK C : C = {e \in evs : e.entity = n /\ e.type \in types}
  OBVIOUS
<1>2. PICK f : f = [row \in mine |-> SumFunctionOnSet(row.totals, types \cap analyticsEventTypes)]
  OBVIOUS
<1>3. ASSUME NEW row \in mine PROVE f[row] = Cardinality({e \in C : KeyOf(e) = row.key})
  <2>1. row \in aggregateAnalyticsDailyRollups(evs) /\ IsFiniteSet(evs) /\ row.key.entity = n
    BY DEF IsTable
  <2>2. \A t \in analyticsEventTypes : row.totals[t] = Cardinality(OfType(Counted(evs, row.key), t))
    BY <2>1, RowHolds
  <2>3. PICK counted : counted = Counted(evs, row.key)
    OBVIOUS
  <2>4. IsFiniteSet(counted) /\ \A e \in counted : e.type \in analyticsEventTypes
    <3>1. counted \in SUBSET evs
      BY <2>3 DEF Counted
    <3> QED BY <2>1, <3>1, FS_Subset DEF IsTable
  <2>5. PICK totals : totals = row.totals
    OBVIOUS
  <2>6. \A t \in analyticsEventTypes : totals[t] = Cardinality({e \in counted : e.type = t})
    BY <2>2, <2>3, <2>5 DEF OfType
  <2>7. SumFunctionOnSet(totals, types \cap analyticsEventTypes)
           = Cardinality({e \in counted : e.type \in types})
    BY <2>4, <2>6, TypesCount
  <2>8. {e \in counted : e.type \in types} = {e \in C : KeyOf(e) = row.key}
    <3>1. \A e : KeyOf(e).entity = e.entity
      BY DEF KeyOf
    <3>2. \A e \in evs : KeyOf(e) = row.key => e.entity = n
      BY <2>1, <3>1
    <3> QED BY <1>1, <2>3, <3>2 DEF Counted
  <2> QED BY <1>2, <2>5, <2>7, <2>8
<1>4. DOMAIN f = mine /\ C \in SUBSET evs /\ IsFiniteSet(evs)
  BY <1>1, <1>2 DEF IsTable
<1>5. \A e \in C : RowOf(KeyOf(e), evs) \in mine
  <2>1. ASSUME NEW e \in C PROVE RowOf(KeyOf(e), evs).key.entity = n
    <3>1. RowOf(KeyOf(e), evs).key = KeyOf(e)
      BY DEF RowOf
    <3>2. KeyOf(e).entity = e.entity
      BY DEF KeyOf
    <3> QED BY <1>1, <3>1, <3>2
  <2> QED BY <1>4, <2>1, RowsAre
<1>6. mine \in SUBSET aggregateAnalyticsDailyRollups(evs)
  OBVIOUS
<1>7. SumFunction(f) = Cardinality(C)
  BY <1>3, <1>4, <1>5, <1>6, RowsCount
<1> QED BY <1>1, <1>2, <1>7 DEF RowKinds, EventKinds

LEMMA LastAgrees ==
    ASSUME NEW evs, IsTable(evs), NEW n \in {e.entity : e \in evs},
           NEW mine, mine = RowsOf(n, evs)
    PROVE  MaxOf({row.lastEventAt : row \in mine}) = MaxOf({e.at : e \in {x \in evs : x.entity = n}})
<1> USE DEF RowsOf
<1>1. PICK X : X = {x \in evs : x.entity = n}
  OBVIOUS
<1>2. X # {} /\ IsTable(X) /\ X \in SUBSET evs
  <2>1. X # {} /\ X \in SUBSET evs
    BY <1>1
  <2> QED BY <2>1, FS_Subset DEF IsTable
<1>3. PICK m : m = MaxOf(Instants(X))
  OBVIOUS
<1>4. PICK last \in X : m = last.at
  BY <1>2, <1>3, LastOf
<1>5. \A e \in X : e.at <= m
  BY <1>2, <1>3, LastOf
<1>6. ASSUME NEW row \in mine
      PROVE  /\ \E e \in X : row.lastEventAt = e.at
             /\ \A e \in evs : KeyOf(e) = row.key => e.at <= row.lastEventAt
  <2>1. row \in aggregateAnalyticsDailyRollups(evs) /\ IsFiniteSet(evs) /\ row.key.entity = n
    BY DEF IsTable
  <2>2. row.lastEventAt = MaxOf(Instants(Counted(evs, row.key)))
    BY <2>1, RowHolds
  <2>3. PICK e \in evs : row.key = KeyOf(e)
    BY <2>1, RowsAre
  <2>4. PICK counted : counted = Counted(evs, row.key)
    OBVIOUS
  <2>5. counted # {} /\ counted \in SUBSET evs
    BY <2>3, <2>4 DEF Counted
  <2>6. IsTable(counted)
    BY <2>5, FS_Subset DEF IsTable
  <2>7. counted \in SUBSET X
    <3>1. \A x : KeyOf(x).entity = x.entity
      BY DEF KeyOf
    <3>2. \A x \in evs : KeyOf(x) = row.key => x.entity = n
      BY <2>1, <3>1
    <3> QED BY <1>1, <2>4, <3>2 DEF Counted
  <2>8. /\ \E x \in counted : row.lastEventAt = x.at
        /\ \A x \in counted : x.at <= row.lastEventAt
    BY <2>2, <2>4, <2>5, <2>6, LastOf
  <2> QED BY <2>4, <2>7, <2>8 DEF Counted
<1>7. PICK S : S = {row.lastEventAt : row \in mine}
  OBVIOUS
<1>8. S \in SUBSET Nat /\ \A y \in S : y <= m
  <2>1. \A y \in S : \E e \in X : y = e.at
    BY <1>6, <1>7
  <2> QED BY <1>2, <1>5, <2>1 DEF IsTable
<1>9. m \in S
  <2>1. last \in evs /\ last.entity = n
    BY <1>1, <1>4
  <2>2. PICK row : row = RowOf(KeyOf(last), evs)
    OBVIOUS
  <2>3. row.key = KeyOf(last) /\ row.key.entity = n
    <3>1. row.key = KeyOf(last)
      BY <2>2 DEF RowOf
    <3> QED BY <2>1, <3>1 DEF KeyOf
  <2>4. row \in mine
    BY <2>1, <2>2, <2>3, RowsAre DEF IsTable
  <2>5. row.lastEventAt \in S
    BY <1>7, <2>4
  <2>6. m <= row.lastEventAt
    BY <1>4, <1>6, <2>1, <2>3, <2>4
  <2>7. m \in Nat /\ row.lastEventAt \in Nat /\ row.lastEventAt <= m
    BY <1>2, <1>4, <1>8, <2>5 DEF IsTable
  <2> QED BY <2>5, <2>6, <2>7
<1>10. MaxOf(S) = m
  BY <1>8, <1>9, GreatestIs
<1> QED BY <1>1, <1>3, <1>7, <1>10 DEF Instants

LEMMA SummariesAgree ==
    ASSUME NEW evs, IsTable(evs), NEW n \in {e.entity : e \in evs}
    PROVE  topEntityFromRows(n, aggregateAnalyticsDailyRollups(evs)) = topEntitySummary(n, evs)
<1>1. PICK mine : mine = RowsOf(n, evs)
  OBVIOUS
<1>2. /\ IsFiniteSet(Views) /\ IsFiniteSet({"CLICK"})
      /\ IsFiniteSet({"INQUIRY"}) /\ IsFiniteSet({"SHARE", "DOWNLOAD"})
  <2>1. \A x, y : {x, y} = {x} \cup {y}
    OBVIOUS
  <2>2. \A x, y : IsFiniteSet({x} \cup {y})
    BY FS_Singleton, FS_Union
  <2>3. ASSUME NEW x, NEW y PROVE IsFiniteSet({x, y})
    <3>1. {x, y} = {x} \cup {y} /\ IsFiniteSet({x} \cup {y})
      BY <2>1, <2>2
    <3> QED BY <3>1
  <2>4. IsFiniteSet({"VIEW", "IMPRESSION"}) /\ IsFiniteSet({"SHARE", "DOWNLOAD"})
    BY <2>3
  <2> QED BY <2>4, FS_Singleton DEF Views
<1>3. ASSUME NEW types, IsFiniteSet(types) PROVE RowKinds(types, mine) = EventKinds(types, n, evs)
  BY <1>1, <1>3, KindsAgree
<1>4. MaxOf({row.lastEventAt : row \in mine}) = MaxOf({e.at : e \in {x \in evs : x.entity = n}})
  BY <1>1, LastAgrees
<1>5. topEntityFromRows(n, aggregateAnalyticsDailyRollups(evs))
        = [entity |-> n, views |-> RowKinds(Views, mine), clicks |-> RowKinds({"CLICK"}, mine),
           inquiries |-> RowKinds({"INQUIRY"}, mine), others |-> RowKinds({"SHARE", "DOWNLOAD"}, mine),
           lastEventAt |-> MaxOf({row.lastEventAt : row \in mine})]
  BY <1>1 DEF topEntityFromRows, RowsOf, RowKinds
<1>6. topEntitySummary(n, evs)
        = [entity |-> n, views |-> EventKinds(Views, n, evs), clicks |-> EventKinds({"CLICK"}, n, evs),
           inquiries |-> EventKinds({"INQUIRY"}, n, evs), others |-> EventKinds({"SHARE", "DOWNLOAD"}, n, evs),
           lastEventAt |-> MaxOf({e.at : e \in {x \in evs : x.entity = n}})]
  BY DEF topEntitySummary, EventKinds
<1> QED BY <1>2, <1>3, <1>4, <1>5, <1>6

(* The report of the rows of a table is the report of the table. *)
LEMMA RowsReport ==
    ASSUME NEW evs, IsTable(evs)
    PROVE  RowReport(aggregateAnalyticsDailyRollups(evs)) = EventReport(evs)
<1>1. PICK rows : rows = aggregateAnalyticsDailyRollups(evs)
  OBVIOUS
<1>2. /\ rollupTotals(rows) = eventTotals(evs)
      /\ SumFunction([row \in rows |-> row.eventCount]) = Cardinality(evs)
  BY <1>1, TotalsAgree, AllAgree
<1>3. /\ rollupBreakdown(rows, "country") = breakdown(evs, "country")
      /\ rollupBreakdown(rows, "tenant") = breakdown(evs, "tenant")
      /\ rollupBreakdown(rows, "entity") = breakdown(evs, "entity")
  <2>1. \A e \in evs : KeyOf(e)["country"] = e["country"]
    BY DEF KeyOf
  <2>2. \A e \in evs : KeyOf(e)["tenant"] = e["tenant"]
    BY DEF KeyOf
  <2>3. \A e \in evs : KeyOf(e)["entity"] = e["entity"]
    BY DEF KeyOf
  <2> QED BY <1>1, <2>1, <2>2, <2>3, BreakdownsAgree
<1>4. {topEntityFromRows(n, rows) : n \in {row.key.entity : row \in rows}}
         = {topEntitySummary(n, evs) : n \in {e.entity : e \in evs}}
  <2>1. ASSUME NEW e \in evs
        PROVE  RowOf(KeyOf(e), evs) \in rows /\ RowOf(KeyOf(e), evs).key.entity = e.entity
    <3>1. RowOf(KeyOf(e), evs).key = KeyOf(e)
      BY DEF RowOf
    <3>2. KeyOf(e).entity = e.entity
      BY DEF KeyOf
    <3> QED BY <1>1, <3>1, <3>2, RowsAre DEF IsTable
  <2>2. ASSUME NEW row \in rows PROVE \E e \in evs : row.key.entity = e.entity
    <3>1. PICK e \in evs : row.key = KeyOf(e)
      BY <1>1, RowsAre DEF IsTable
    <3> QED BY <3>1 DEF KeyOf
  <2>3. {row.key.entity : row \in rows} = {e.entity : e \in evs}
    BY <2>1, <2>2
  <2>4. \A n \in {e.entity : e \in evs} : topEntityFromRows(n, rows) = topEntitySummary(n, evs)
    BY <1>1, SummariesAgree
  <2> QED BY <2>3, <2>4
<1>5. PICK summaries : summaries = {topEntitySummary(n, evs) : n \in {e.entity : e \in evs}}
  OBVIOUS
<1>6. RowReport(rows) = [eventCount |-> SumFunction([row \in rows |-> row.eventCount]),
                         totals |-> rollupTotals(rows), topEntities |-> Tops(summaries),
                         mostVisited |-> {mostVisited(top) : top \in Tops(summaries)},
                         topCountries |-> rollupBreakdown(rows, "country"),
                         topTenants |-> rollupBreakdown(rows, "tenant"),
                         breakdowns |-> rollupBreakdown(rows, "entity")]
  BY <1>4, <1>5 DEF RowReport
<1>7. EventReport(evs) = [eventCount |-> Cardinality(evs), totals |-> eventTotals(evs),
                          topEntities |-> Tops(summaries),
                          mostVisited |-> {mostVisited(top) : top \in Tops(summaries)},
                          topCountries |-> breakdown(evs, "country"),
                          topTenants |-> breakdown(evs, "tenant"),
                          breakdowns |-> breakdown(evs, "entity")]
  BY <1>5 DEF EventReport
<1> QED BY <1>1, <1>2, <1>3, <1>6, <1>7

(* The rows of a scope and of whole days are those of the events in them. *)
RowsListed(evs, s, p) == {row \in aggregateAnalyticsDailyRollups(evs) : RowInScope(row, s, p)}
EventsListed(evs, s, p) == {e \in evs : InScope(e, s) /\ e.at \in p.from..p.to}

LEMMA RowsInScope ==
    ASSUME NEW evs, IsTable(evs), NEW s, NEW p \in Periods, WholeDays(p),
           NEW mine, mine = RowsListed(evs, s, p), NEW scoped, scoped = EventsListed(evs, s, p)
    PROVE  mine = aggregateAnalyticsDailyRollups(scoped) /\ IsTable(scoped)
<1> USE DEF RowsListed, EventsListed
<1>1. p.from \in Nat /\ p.to \in Nat
  BY TimesAssumption DEF Periods
<1>2. ASSUME NEW e \in evs, NEW row, row.key = KeyOf(e)
      PROVE  RowInScope(row, s, p) <=> e \in scoped
  <2>1. e.at \in Nat
    BY DEF IsTable
  <2>2. /\ row.key.day = analyticsRollupDay(e.at) /\ row.key.tenant = e.tenant
        /\ row.key.country = e.country
    BY <1>2 DEF KeyOf
  <2>3. InScope(row.key, s) <=> InScope(e, s)
    BY <2>2 DEF InScope
  <2>4. analyticsRollupDay(e.at) \in analyticsRollupDay(p.from)..analyticsRollupDay(p.to)
           <=> e.at \in p.from..p.to
    <3>1. /\ analyticsRollupDay(e.at) \in Nat
          /\ analyticsRollupDay(p.from) \in Nat /\ analyticsRollupDay(p.to) \in Nat
      BY <1>1, <2>1, DayOf
    <3>2. analyticsRollupDay(p.from) <= analyticsRollupDay(e.at) <=> p.from <= e.at
      BY <1>1, <2>1, DaysGrow, DayAfter DEF WholeDays
    <3>3. analyticsRollupDay(e.at) <= analyticsRollupDay(p.to) <=> e.at <= p.to
      BY <1>1, <2>1, DaysGrow, DayBefore DEF WholeDays
    <3> QED BY <1>1, <2>1, <3>1, <3>2, <3>3
  <2> QED BY <2>2, <2>3, <2>4 DEF RowInScope
<1>3. ASSUME NEW e \in scoped
      PROVE  RowOf(KeyOf(e), evs) = RowOf(KeyOf(e), scoped) /\ RowOf(KeyOf(e), evs).key = KeyOf(e)
  <2>1. ASSUME NEW x \in evs, KeyOf(x) = KeyOf(e) PROVE x \in scoped
    <3>1. PICK row : row = [key |-> KeyOf(e)]
      OBVIOUS
    <3>2. row.key = KeyOf(e) /\ row.key = KeyOf(x) /\ e \in evs
      BY <2>1, <3>1
    <3> QED BY <1>2, <3>2
  <2>2. {x \in evs : KeyOf(x) = KeyOf(e)} = {x \in scoped : KeyOf(x) = KeyOf(e)}
    BY <2>1
  <2> QED BY <2>2 DEF RowOf
<1>4. scoped \in SUBSET evs /\ IsFiniteSet(evs) /\ IsTable(scoped)
  <2>1. scoped \in SUBSET evs
    OBVIOUS
  <2> QED BY <2>1, FS_Subset DEF IsTable
<1>5. ASSUME NEW row \in mine PROVE row \in aggregateAnalyticsDailyRollups(scoped)
  <2>1. row \in aggregateAnalyticsDailyRollups(evs) /\ RowInScope(row, s, p)
    OBVIOUS
  <2>2. PICK e \in evs : row.key = KeyOf(e) /\ row = RowOf(KeyOf(e), evs)
    BY <1>4, <2>1, RowsAre
  <2>3. e \in scoped
    BY <1>2, <2>1, <2>2
  <2> QED BY <1>3, <2>2, <2>3 DEF aggregateAnalyticsDailyRollups
<1>6. ASSUME NEW row \in aggregateAnalyticsDailyRollups(scoped) PROVE row \in mine
  <2>1. PICK e \in scoped : row = RowOf(KeyOf(e), scoped)
    BY DEF aggregateAnalyticsDailyRollups
  <2>2. row = RowOf(KeyOf(e), evs) /\ row.key = KeyOf(e) /\ e \in evs
    BY <1>3, <2>1
  <2>3. row \in aggregateAnalyticsDailyRollups(evs)
    BY <1>4, <2>2, RowsAre
  <2> QED BY <1>2, <2>2, <2>3
<1> HIDE DEF RowInScope
<1> QED BY <1>4, <1>5, <1>6

(* A report is the same whether it comes of rows just refreshed or of events. *)
LEMMA ScopeReports ==
    ASSUME NEW evs, IsTable(evs), NEW s, NEW p \in Periods, WholeDays(p)
    PROVE  LET rows == aggregateAnalyticsDailyRollups(evs)
               raw == buildHierarchyReport(evs, {}, s, p, "RAW")
           IN  /\ buildHierarchyReport(evs, rows, s, p, "ROLLUP") = raw
               /\ buildHierarchyReport(evs, rows, s, p, "AUTO") = raw
<1>1. PICK rows : rows = aggregateAnalyticsDailyRollups(evs)
  OBVIOUS
<1>2. PICK mine : mine = RowsListed(evs, s, p)
  OBVIOUS
<1>3. PICK scoped : scoped = EventsListed(evs, s, p)
  OBVIOUS
<1>4. mine = aggregateAnalyticsDailyRollups(scoped) /\ IsTable(scoped)
  BY <1>1, <1>2, <1>3, RowsInScope
<1>5. RowReport(mine) = EventReport(scoped)
  BY <1>4, RowsReport
<1>6. buildHierarchyReport(evs, {}, s, p, "RAW") = EventReport(scoped)
  BY <1>3 DEF buildHierarchyReport, listHierarchyAnalyticsForQuery, RowsListed, EventsListed
<1>7. buildHierarchyReport(evs, rows, s, p, "ROLLUP") = RowReport(mine)
  BY <1>1, <1>2 DEF buildHierarchyReport, listHierarchyAnalyticsForQuery, RowsListed, EventsListed
<1>8. buildHierarchyReport(evs, rows, s, p, "AUTO") \in {RowReport(mine), EventReport(scoped)}
  BY <1>1, <1>2, <1>3 DEF buildHierarchyReport, listHierarchyAnalyticsForQuery, RowsListed, EventsListed
<1> QED BY <1>1, <1>5, <1>6, <1>7, <1>8

(* For any tables, queries and periods of whole days. *)
THEOREM ReportsAreRaw == ReportsAgree
<1> SUFFICES ASSUME NEW evs \in Samples, NEW query \in Queries, NEW p \in Periods, WholeDays(p)
             PROVE  LET s == resolveHierarchyScope(query)
                        rows == aggregateAnalyticsDailyRollups(evs)
                        raw == buildHierarchyReport(evs, {}, s, p, "RAW")
                    IN  /\ buildHierarchyReport(evs, rows, s, p, "ROLLUP") = raw
                        /\ buildHierarchyReport(evs, rows, s, p, "AUTO").eventCount = raw.eventCount
                        /\ query.level = "TENANT" =>
                              buildTenantReport(query.code, query.country, evs, rows, p, "ROLLUP") = raw
  BY DEF ReportsAgree
<1>1. IsTable(evs)
  BY SamplesAssumption
<1>2. PICK s : s = resolveHierarchyScope(query)
  OBVIOUS
<1>3. PICK own : own = [tenant |-> query.code,
                        countries |-> IF query.country = None THEN {} ELSE {query.country}]
  OBVIOUS
<1>4. query.level = "TENANT" =>
        buildHierarchyReport(evs, {}, own, p, "RAW") = buildHierarchyReport(evs, {}, s, p, "RAW")
  <2>1. query.level = "TENANT" => own.tenant = s.tenant /\ own.countries = s.countries
    BY <1>2, <1>3 DEF resolveHierarchyScope
  <2>2. query.level = "TENANT" => \A e : InScope(e, own) <=> InScope(e, s)
    BY <2>1 DEF InScope
  <2>3. query.level = "TENANT" => EventsListed(evs, own, p) = EventsListed(evs, s, p)
    BY <2>2 DEF EventsListed
  <2> QED BY <2>3 DEF buildHierarchyReport, listHierarchyAnalyticsForQuery, EventsListed
<1>5. PICK rows : rows = aggregateAnalyticsDailyRollups(evs)
  OBVIOUS
<1>6. /\ buildHierarchyReport(evs, rows, s, p, "ROLLUP") = buildHierarchyReport(evs, {}, s, p, "RAW")
      /\ buildHierarchyReport(evs, rows, s, p, "AUTO") = buildHierarchyReport(evs, {}, s, p, "RAW")
      /\ buildHierarchyReport(evs, rows, own, p, "ROLLUP") = buildHierarchyReport(evs, {}, own, p, "RAW")
  BY <1>1, <1>5, ScopeReports
<1>7. buildTenantReport(query.code, query.country, evs, rows, p, "ROLLUP")
         = buildHierarchyReport(evs, rows, own, p, "ROLLUP")
  BY <1>3 DEF buildTenantReport
<1> QED BY <1>2, <1>4, <1>5, <1>6, <1>7

(* What the runs check of the reports: they agree, and show what is permitted. *)
THEOREM ReportsAreSound == RollupsSpec => []ReportsHold
<1>1. ReportsHold
  BY ReportsAreRaw, ReportsArePermitted DEF ReportsHold
<1> QED BY <1>1, PTL
=============================================================================
