---------------------------- MODULE TenantInvoices ----------------------------
(* The other invoices of the finance service (FinanceInvoiceRecord): a tenant  *)
(* records receipts of what was paid elsewhere, refunds and chargebacks, and   *)
(* the dunning of what is overdue.  A behaviour follows one invoice, which is  *)
(* in one of the two books of the service: a payment invoice goes through the  *)
(* actions of PaymentInvoices, a tenant invoice through those of this module.  *)
(* The requests are the same handlers under the same bounds, the variables inv *)
(* and receipts hold the records of the book, and each operation again writes  *)
(* the whole copy of the invoice that it read.                                 *)
EXTENDS PaymentInvoices

CONSTANTS
    Books,         \* the books an invoice may be in: "payment", "tenant"
    References,    \* the references under which payments come
    Days,          \* how many days overdue dunning may find the invoice
    MaxDocuments   \* bound on receipts, adjustments and notices together

VARIABLES
    book,
    adjustments,  \* the FinanceAdjustmentRecords, with the ledger entries of each
    notices,      \* the DunningNoticeRecords, oldest first
    alerts,       \* the dedupe keys of the FinanceAlertRecords
    numbers,      \* the last number given to a receipt and to a credit note
    day           \* days since the invoice was due

tenantVars == <<book, adjustments, notices, alerts, numbers, day>>
allVars == <<vars, tenantVars>>

Tenant == book = "tenant"

Net(i) == i.paid - i.refunded - i.chargeback

calculatePaymentBalance(i, paid) ==
    [i EXCEPT !.due = IF paid < Total THEN Total - paid ELSE 0,
              !.payment = CASE paid > Total -> "OVERPAID" [] paid = Total -> "PAID"
                            [] paid \in 1..(Total - 1) -> "PARTIALLY_PAID" [] OTHER -> "UNPAID"]

Settled(i) == i.payment \in {"PAID", "OVERPAID"}

(* The invoice after a receipt: the balance is that of everything paid, what   *)
(* was returned included.                                                      *)
Received(i, amount) ==
    LET new == calculatePaymentBalance([i EXCEPT !.paid = @ + amount], i.paid + amount)
    IN  [new EXCEPT !.status = IF Settled(new) THEN "PAID" ELSE "ISSUED"]

(* applyAdjustmentToInvoice: the balance is that of what is left.              *)
Adjusted(i, kind, amount) ==
    LET new == IF kind = "REFUND"
               THEN [i EXCEPT !.refunded = @ + amount,
                              !.status = IF i.refunded + amount >= i.paid THEN "REFUNDED" ELSE @]
               ELSE [i EXCEPT !.chargeback = @ + amount, !.status = "DISPUTED"]
    IN  calculatePaymentBalance(new, Net(new))

getDunningNoticeDecision(overdue) ==
    CASE overdue < 1 -> "none" [] overdue \in 1..3 -> "GRACE_PERIOD"
      [] overdue \in 4..14 -> "FIRST_NOTICE" [] OTHER -> "FINAL_NOTICE"

(* createInvoiceRecord *)
NewInvoice == [status |-> "ISSUED", payment |-> "UNPAID", due |-> Total,
               paid |-> 0, refunded |-> 0, chargeback |-> 0]
-----------------------------------------------------------------------------
TenantInit ==
    /\ book \in Books
    /\ adjustments = <<>> /\ notices = <<>> /\ alerts = {} /\ day = 0
    /\ numbers = [RECEIPT |-> 0, CREDIT_NOTE |-> 0]
    /\ IF Tenant
       THEN /\ inv = NewInvoice /\ payments = <<>> /\ receipts = <<>>
            /\ charges = <<>> /\ returned = <<>> /\ adapter = "none"
            /\ overlaps = 0 /\ aborts = 0 /\ misled = FALSE
            /\ hs = [h \in Handlers |-> Resting]
       ELSE Init

Unchanged == UNCHANGED <<payments, charges, returned, adapter, book>>

Tick ==
    /\ Tenant
    /\ \E d \in Days : d > day /\ day' = d
    /\ UNCHANGED <<vars, book, adjustments, notices, alerts, numbers>>

(* Room for one more document (bound). *)
Room == Len(receipts) + Len(adjustments) + Len(notices) < MaxDocuments

(* A handler's task, in the place of its payment. *)
Task(h) == hs[h].pay
Enter(h, pc, task) == /\ Tenant
                      /\ Begin(h, [Resting EXCEPT !.pc = pc, !.inv = inv, !.pay = task])
-----------------------------------------------------------------------------
(* issueReceipt, createReceiptForInvoice. *)

IssueLoad(h) ==
    /\ Room
    /\ Tenant /\ ~Settled(inv)
    /\ \E r \in References, amount \in 1..Total :
          Enter(h, "issue.check", [kind |-> "RECEIPT", reference |-> r, amount |-> amount])
    /\ UNCHANGED <<inv, receipts, adjustments, notices, alerts, numbers, day>> /\ Unchanged

(* Mutant: a reference that has a receipt gets another. *)
IssueCheckMutant(h) ==
    /\ hs[h].pc = "issue.check"
    /\ Move(h, "number.read")
    /\ UNCHANGED <<inv, receipts, adjustments, notices, alerts, numbers, day, counters>> /\ Unchanged

IssueCheck(h) ==
    /\ hs[h].pc = "issue.check"
    /\ IF \E i \in DOMAIN receipts : receipts[i].reference = Task(h).reference
       THEN Stop(h) ELSE Move(h, "number.read")
    /\ UNCHANGED <<inv, receipts, adjustments, notices, alerts, numbers, day, counters>> /\ Unchanged

(* nextSequence reads the last number and stores the next one, in one          *)
(* transaction that keeps no other from reading the same.                      *)
Document(h) == IF Task(h).kind = "RECEIPT" THEN "RECEIPT" ELSE "CREDIT_NOTE"

NumberRead(h) ==
    /\ hs[h].pc = "number.read"
    /\ Update(h, [hs[h] EXCEPT !.pc = "number.write", !.n = numbers[Document(h)] + 1])
    /\ UNCHANGED <<inv, receipts, adjustments, notices, alerts, numbers, day, counters>> /\ Unchanged

NumberWrite(h) ==
    /\ hs[h].pc = "number.write"
    /\ numbers' = [numbers EXCEPT ![Document(h)] = hs[h].n]
    /\ Move(h, IF Task(h).kind = "RECEIPT" THEN "issue.invoice" ELSE "adjust.save")
    /\ UNCHANGED <<inv, receipts, adjustments, notices, alerts, day, counters>> /\ Unchanged

IssueInvoice(h) ==
    /\ hs[h].pc = "issue.invoice"
    /\ inv' = Received(hs[h].inv, Task(h).amount)
    /\ Move(h, "issue.save")
    /\ UNCHANGED <<receipts, adjustments, notices, alerts, numbers, day, counters>> /\ Unchanged

IssueSave(h) ==
    /\ hs[h].pc = "issue.save"
    /\ receipts' = Append(receipts, [reference |-> Task(h).reference, number |-> hs[h].n,
                                     amount |-> Task(h).amount])
    /\ Stop(h)
    /\ UNCHANGED <<inv, adjustments, notices, alerts, numbers, day, counters>> /\ Unchanged
-----------------------------------------------------------------------------
(* requestRefund, openChargeback: of what is left of the payments, and of no   *)
(* more than the invoice was made out for; a refund gets a credit note.        *)

(* Mutant: what was charged back may be refunded as well. *)
availableAdjustmentAmountMutant(i) == i.paid - i.refunded

availableAdjustmentAmount(i) == Net(i)

AdjustLoad(h) ==
    /\ Room
    /\ Tenant
    /\ \E kind \in {"REFUND", "CHARGEBACK"}, amount \in 1..Total :
          /\ amount <= availableAdjustmentAmount(inv)
          /\ Enter(h, IF kind = "REFUND" THEN "number.read" ELSE "adjust.save",
                   [kind |-> kind, amount |-> amount])
    /\ UNCHANGED <<inv, receipts, adjustments, notices, alerts, numbers, day>> /\ Unchanged

AdjustSave(h) ==
    /\ hs[h].pc = "adjust.save"
    /\ adjustments' = Append(adjustments,
          [kind |-> Task(h).kind, amount |-> Task(h).amount, number |-> hs[h].n, entries |-> 0])
    /\ Update(h, [hs[h] EXCEPT !.pc = "ledger", !.id = Len(adjustments) + 1])
    /\ UNCHANGED <<inv, receipts, notices, alerts, numbers, day, counters>> /\ Unchanged

(* Two ledger entries, one for the tax and one for the revenue. *)
LedgerSave(h) ==
    /\ hs[h].pc = "ledger"
    /\ adjustments' = [adjustments EXCEPT ![hs[h].id].entries = @ + 1]
    /\ Move(h, IF adjustments'[hs[h].id].entries = 2 THEN "adjust.invoice" ELSE "ledger")
    /\ UNCHANGED <<inv, receipts, notices, alerts, numbers, day, counters>> /\ Unchanged

AdjustInvoice(h) ==
    /\ hs[h].pc = "adjust.invoice"
    /\ inv' = Adjusted(hs[h].inv, Task(h).kind, Task(h).amount)
    /\ Move(h, "alert")
    /\ UNCHANGED <<receipts, adjustments, notices, alerts, numbers, day, counters>> /\ Unchanged
-----------------------------------------------------------------------------
(* runDunning, of this invoice. *)

DunningLoad(h) ==
    /\ Room
    /\ Tenant
    /\ inv.due > 0 /\ inv.status # "REFUNDED" /\ getDunningNoticeDecision(day) # "none"
    /\ Enter(h, "dunning.check", [kind |-> "DUNNING", stage |-> getDunningNoticeDecision(day)])
    /\ UNCHANGED <<inv, receipts, adjustments, notices, alerts, numbers, day>> /\ Unchanged

(* hasDunningNoticeDedupeKey *)
DunningCheck(h) ==
    /\ hs[h].pc = "dunning.check"
    /\ IF \E i \in DOMAIN notices : notices[i].stage = Task(h).stage
       THEN Stop(h) ELSE Move(h, "dunning.invoice")
    /\ UNCHANGED <<inv, receipts, adjustments, notices, alerts, numbers, day, counters>> /\ Unchanged

DunningInvoice(h) ==
    /\ hs[h].pc = "dunning.invoice"
    /\ inv' = [hs[h].inv EXCEPT !.status = "OVERDUE"]
    /\ Move(h, "dunning.notice")
    /\ UNCHANGED <<receipts, adjustments, notices, alerts, numbers, day, counters>> /\ Unchanged

DunningNotice(h) ==
    /\ hs[h].pc = "dunning.notice"
    /\ notices' = Append(notices, [stage |-> Task(h).stage, amount |-> hs[h].inv.due])
    /\ Move(h, "alert")
    /\ UNCHANGED <<inv, receipts, adjustments, alerts, numbers, day, counters>> /\ Unchanged

(* createFinanceAlert, under the key of the adjustment or of the notice. *)
AlertSave(h) ==
    /\ hs[h].pc = "alert"
    /\ alerts' = alerts \cup {IF Task(h).kind = "DUNNING" THEN <<"DUNNING", Task(h).stage>>
                              ELSE <<"ADJUSTMENT", hs[h].id>>}
    /\ Stop(h)
    /\ UNCHANGED <<inv, receipts, adjustments, notices, numbers, day, counters>> /\ Unchanged
-----------------------------------------------------------------------------
Payment == book = "payment" /\ UNCHANGED tenantVars

PaymentStep(h) ==
    \/ (Payment /\ PayLoad(h))    \/ (Payment /\ PayKey(h))       \/ (Payment /\ PayLookup(h))
    \/ (Payment /\ PayPending(h)) \/ (Payment /\ PayCapture(h))   \/ (Payment /\ PaySave(h))
    \/ (Payment /\ Credit(h))     \/ (Payment /\ ReceiptCount(h)) \/ (Payment /\ ReceiptSave(h))
    \/ (Payment /\ SettleFind(h)) \/ (Payment /\ SettleLoad(h))   \/ (Payment /\ SettleSave(h))
    \/ (Payment /\ RefundLoad(h)) \/ (Payment /\ RefundSource(h)) \/ (Payment /\ RefundCall(h))
    \/ (Payment /\ RefundSave(h)) \/ (Payment /\ Debit(h))

TenantStep(h) ==
    \/ IssueLoad(h) \/ IssueCheck(h) \/ IssueInvoice(h) \/ IssueSave(h)
    \/ NumberRead(h) \/ NumberWrite(h)
    \/ AdjustLoad(h) \/ AdjustSave(h) \/ LedgerSave(h) \/ AdjustInvoice(h)
    \/ DunningLoad(h) \/ DunningCheck(h) \/ DunningInvoice(h) \/ DunningNotice(h)
    \/ AlertSave(h)

InvoicesNext ==
    \/ Tick
    \/ \E h \in Handlers : PaymentStep(h) \/ TenantStep(h)
    \/ \E h \in Handlers : Abort(h) /\ UNCHANGED tenantVars
    \/ \E c \in DOMAIN charges : Payment /\ Resolve(c)

InvoicesSpec == TenantInit /\ [][InvoicesNext]_allVars
-----------------------------------------------------------------------------
(* Properties.                                                             *)

TenantTypeOK ==
    Tenant =>
    /\ inv.status \in {"ISSUED", "PAID", "OVERDUE", "REFUNDED", "DISPUTED"}
    /\ inv.due \in Nat /\ inv.paid \in Nat /\ inv.refunded \in Nat /\ inv.chargeback \in Nat
    /\ \A i \in DOMAIN adjustments : adjustments[i].entries \in 0..2

IsKind(kind) == {i \in DOMAIN adjustments : adjustments[i].kind = kind}
IsRefund(a) == a.kind = "REFUND"
IsChargeback(a) == a.kind = "CHARGEBACK"

(* The stored invoice is sound in itself, however requests overwrite each      *)
(* other: no more is returned than was paid, nobody is asked for more than is  *)
(* owed, what is overdue is owed, and what is refunded is refunded in full.    *)
TenantInvoiceCoherent ==
    /\ Net(inv) >= 0
    /\ inv.due <= (IF Net(inv) < Total THEN Total - Net(inv) ELSE 0)
    /\ inv.status = "OVERDUE" => inv.due > 0
    /\ inv.status = "REFUNDED" => inv.refunded = inv.paid

(* Of requests that come one at a time, whatever dies: every receipt is        *)
(* credited on the invoice, and every refund and chargeback on the invoice has *)
(* its record and its two entries in the ledger (the invoice is saved before   *)
(* the receipt and after the adjustment).                                      *)
TenantCreditIsBacked ==
    overlaps = 0 =>
        /\ SumOf(receipts, Every, Amount) <= inv.paid
        /\ inv.refunded <= SumOf(adjustments, IsRefund, Amount)
        /\ inv.chargeback <= SumOf(adjustments, IsChargeback, Amount)

(* If none of them dies either, invoice, receipts, adjustments, ledger and     *)
(* alerts agree.                                                               *)
TenantBooksBalance ==
    Quiet /\ Undisturbed =>
        /\ inv.paid = SumOf(receipts, Every, Amount)
        /\ inv.refunded = SumOf(adjustments, IsRefund, Amount)
        /\ inv.chargeback = SumOf(adjustments, IsChargeback, Amount)
        /\ \A i \in DOMAIN adjustments :
              adjustments[i].entries = 2 /\ <<"ADJUSTMENT", i>> \in alerts
        /\ \A i \in DOMAIN notices : <<"DUNNING", notices[i].stage>> \in alerts

(* The money of a tenant invoice is accounted for, as that of a payment        *)
(* invoice is by MoneyAccounted.                                               *)
TenantMoneyAccounted ==
    Tenant => TenantInvoiceCoherent /\ TenantCreditIsBacked /\ TenantBooksBalance

(* Of requests that come one at a time, whatever dies, nothing is done twice:  *)
(* no number is given to two receipts or two credit notes, no reference has    *)
(* two receipts, and nobody is dunned twice for one stage.                     *)
TenantNothingTwice ==
    Tenant /\ overlaps = 0 =>
        /\ \A i, j \in DOMAIN receipts : i # j =>
              /\ receipts[i].number # receipts[j].number
              /\ receipts[i].reference # receipts[j].reference
        /\ \A i, j \in IsKind("REFUND") : i # j => adjustments[i].number # adjustments[j].number
        /\ \A i, j \in DOMAIN notices : i # j => notices[i].stage # notices[j].stage

(* The same of the payment invoice. *)
PaymentMoneyAccounted == book = "payment" => MoneyAccounted
PaymentNothingTwice == book = "payment" => NothingTwice

(* In either book the money is accounted for, and nothing is done twice.       *)
InvoiceMoneyAccounted == PaymentMoneyAccounted /\ TenantMoneyAccounted
NothingDoneTwice == PaymentNothingTwice /\ TenantNothingTwice
=============================================================================
