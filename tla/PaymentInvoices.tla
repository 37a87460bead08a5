--------------------------- MODULE PaymentInvoices ---------------------------
(***************************************************************************)
(* Collecting one payment invoice through a payment provider: payInvoice,  *)
(* settleProviderCapture and refundInvoice of the finance service, with    *)
(* the idempotency keys of its adapters.  A handler holds the copies it    *)
(* read and runs from await to await; handlers interleave, a process may   *)
(* die between two awaits, and a settlement may be delivered any number of *)
(* times, by a client who says what he likes: nobody asks the provider.    *)
(*                                                                         *)
(* The provider is external: it keeps the charges it accepted, recognises  *)
(* a repeated idempotency key if it is sent one (Stripe), and decides when *)
(* a pending charge is captured or fails.  Its answer may be an error      *)
(* although it did what was asked (the adapters take every answer that is  *)
(* not ok for a failure).                                                  *)
(***************************************************************************)
EXTENDS Integers, Sequences, FiniteSets, SequencesExt

CONSTANTS
    Handlers,           \* requests that may be in flight together
    Total,              \* invoice.total, in whole units
    ClientKeys,         \* idempotency keys callers send themselves
    Adapters,           \* payment adapters the invoice may be collected by
    Stated,             \* the captured amounts a settlement's body may name
    MaxDisturbances,    \* bound on the requests that begin while another runs
                        \* or die between two awaits, together
    MaxPayments,        \* bound on the payment records of the invoice
    MaxCharges,         \* bound on the charges of the provider
    MaxRefunds          \* bound on the refunds of the provider

ASSUME TotalAssumption == Total \in Nat \ {0}
ASSUME StatedAssumption == Stated \subseteq Nat \ {0}
ASSUME AdapterAssumption == Adapters \subseteq {"stripe", "africastalking"}

VARIABLES
    inv,       \* the stored InvoiceRecord: status, paid, refunded
    payments,  \* the PaymentRecords of the invoice, oldest first
    receipts,  \* the ReceiptRecords, oldest first
    charges,   \* the provider's charges; an index is a providerPaymentId
    returned,  \* the provider's refunds: charge and amount
    adapter,   \* the adapter of this invoice's provider
    hs,        \* the handlers
    overlaps,  \* requests begun so far while another was in progress
    aborts,    \* requests that died so far
    misled     \* were the books ever told otherwise than the provider did?

vars == <<inv, payments, receipts, charges, returned, adapter, hs, overlaps, aborts, misled>>
stored == <<inv, payments, receipts>>
provider == <<charges, returned, adapter>>
counters == <<overlaps, aborts, misled>>

(* The Stripe adapter sends an idempotency key, Africa's Talking has none. *)
RecognisesKeys == adapter = "stripe"

PaymentStatuses == {"REQUIRES_CAPTURE", "CAPTURED", "REFUNDED", "FAILED"}
InvoiceStatuses == {"ISSUED", "PAID", "PARTIALLY_REFUNDED", "REFUNDED"}

None == [none |-> TRUE]  \* a local that is not set yet

Resting == [pc |-> "idle", inv |-> None, pay |-> None, id |-> 0, n |-> 0]

Update(h, k) == hs' = [hs EXCEPT ![h] = k]
Move(h, pc) == Update(h, [hs[h] EXCEPT !.pc = pc])
Stop(h) == Update(h, Resting)

Begin(h, k) ==
    /\ hs[h].pc = "idle"
    /\ IF \A g \in Handlers \ {h} : hs[g].pc = "idle" THEN UNCHANGED overlaps
       ELSE overlaps + aborts < MaxDisturbances /\ overlaps' = overlaps + 1
    /\ Update(h, k)
    /\ UNCHANGED <<aborts, misled>>
-----------------------------------------------------------------------------
(* What the amounts add up to (a recursive function, for the proofs). *)
SumSeq(amounts) ==
    LET sum[n \in 0..Len(amounts)] == IF n = 0 THEN 0 ELSE sum[n - 1] + amounts[n]
    IN  sum[Len(amounts)]

(* What F is of the elements with P, summed up. *)
SumOf(seq, P(_), F(_)) == SumSeq([i \in DOMAIN seq |-> IF P(seq[i]) THEN F(seq[i]) ELSE 0])

Captured(p) == p.status = "CAPTURED"

(* countInvoicePayments and countInvoiceRefunds tell payments from refunds *)
(* by the sign of the amount.                                              *)
countInvoicePayments ==
    Cardinality({i \in DOMAIN payments : payments[i].amount > 0})

(* buildPaymentIdempotencyKey: tenant and invoice are fixed here, so the   *)
(* derived key is the attempt number.                                      *)
buildPaymentIdempotencyKey(attempt) == <<"attempt", attempt>>

OpenStatus(i) == i.status \notin {"PAID", "REFUNDED"}

(* Mutant: a second capture replaces the first one on the invoice. *)
CreditedMutant(i, amount) ==
    [i EXCEPT !.paid = amount, !.status = IF amount >= Total THEN "PAID" ELSE @]

(* The invoice after a capture of amount, from the copy i. *)
Credited(i, amount) ==
    [i EXCEPT !.paid = i.paid + amount,
              !.status = IF i.paid + amount >= Total THEN "PAID" ELSE @]

(* The invoice after a refund of amount, from the copy i. *)
Debited(i, amount) ==
    [i EXCEPT !.refunded = i.refunded + amount,
              !.status = IF i.refunded + amount >= i.paid
                         THEN "REFUNDED" ELSE "PARTIALLY_REFUNDED"]
-----------------------------------------------------------------------------
Init ==
    /\ inv = [status |-> "ISSUED", paid |-> 0, refunded |-> 0]
    /\ payments = <<>> /\ receipts = <<>>
    /\ charges = <<>> /\ returned = <<>>
    /\ adapter \in Adapters
    /\ overlaps = 0 /\ aborts = 0 /\ misled = FALSE
    /\ hs = [h \in Handlers |-> Resting]

(* payInvoice.  The caller's key is used as it is; without one the key is  *)
(* derived from the number of payments read after the invoice.             *)
PayLoad(h) ==
    /\ Len(payments) < MaxPayments
    /\ Begin(h, [Resting EXCEPT !.pc = "pay.key", !.inv = inv])
    /\ UNCHANGED <<stored, provider>>

PayKey(h) ==
    /\ hs[h].pc = "pay.key"
    /\ \E key \in ClientKeys
                  \cup {buildPaymentIdempotencyKey(countInvoicePayments + 1)} :
          Update(h, [hs[h] EXCEPT !.pc = "pay.lookup",
                                  !.pay = [key |-> key, status |-> "FAILED",
                                           amount |-> 0, charge |-> 0]])
    /\ UNCHANGED <<stored, provider, counters>>

(* Mutant: a used key is not looked up. *)
PayLookupMutant(h) ==
    /\ hs[h].pc = "pay.lookup"
    /\ IF ~OpenStatus(hs[h].inv) THEN Stop(h) ELSE Move(h, "pay.pending")
    /\ UNCHANGED <<stored, provider, counters>>

(* A key that was used replays the first result; then the status guards. *)
PayLookup(h) ==
    /\ hs[h].pc = "pay.lookup"
    /\ IF \/ \E i \in DOMAIN payments : payments[i].key = hs[h].pay.key
          \/ ~OpenStatus(hs[h].inv)
       THEN Stop(h) ELSE Move(h, "pay.pending")
    /\ UNCHANGED <<stored, provider, counters>>

PayPending(h) ==
    /\ hs[h].pc = "pay.pending"
    /\ IF \E i \in DOMAIN payments : payments[i].status = "REQUIRES_CAPTURE"
       THEN Stop(h) ELSE Move(h, "pay.capture")
    /\ UNCHANGED <<stored, provider, counters>>

Outstanding(i) == Total - i.paid

(* What a capture answered is what payInvoice goes on to save. *)
Replied(h, status, c) ==
    Update(h, [hs[h] EXCEPT !.pc = "pay.save",
                 !.pay = [hs[h].pay EXCEPT !.status = status, !.charge = c,
                                           !.amount = Outstanding(hs[h].inv)]])

(* The charges the provider made for a key that it recognises. *)
Known(key) == {c \in DOMAIN charges : RecognisesKeys /\ charges[c].key = key}

(* paymentAdapter.capture.  An error books FAILED: nothing was due, the    *)
(* provider refused, or its answer to a charge it made was not ok.  A key  *)
(* the provider knows gets its first reply again, or an error.             *)
PayCapture(h) ==
    LET pay == hs[h].pay
        due == Outstanding(hs[h].inv)
    IN  /\ hs[h].pc = "pay.capture"
        /\ \/ Replied(h, "FAILED", 0) /\ UNCHANGED <<charges, misled>>
           \/ \E c \in Known(pay.key) :
              /\ due > 0 /\ charges[c].asked = due
              /\ Replied(h, charges[c].reply, c)
              /\ UNCHANGED <<charges, misled>>
           \/ \E status \in {"CAPTURED", "REQUIRES_CAPTURE"} :
              /\ due > 0 /\ Known(pay.key) = {}
              /\ Len(charges) < MaxCharges
              /\ charges' = Append(charges,
                    [key |-> pay.key, asked |-> due, reply |-> status,
                     status |-> status, amount |-> due])
              /\ \/ Replied(h, status, Len(charges) + 1) /\ UNCHANGED misled
                 \/ Replied(h, "FAILED", 0) /\ misled' = TRUE
        /\ UNCHANGED <<stored, returned, adapter, overlaps, aborts>>

PaySave(h) ==
    /\ hs[h].pc = "pay.save"
    /\ Len(payments) < MaxPayments
    /\ payments' = Append(payments, hs[h].pay)
    /\ IF Captured(hs[h].pay)
       THEN Update(h, [hs[h] EXCEPT !.pc = "credit",
                                    !.id = Len(payments) + 1])
       ELSE Stop(h)
    /\ UNCHANGED <<inv, receipts, provider, counters>>

(* The credit of payInvoice and settleProviderCapture: the whole copy of   *)
(* the invoice is written with the captured amount, then the receipts are  *)
(* counted, then the receipt is stored.                                    *)
Credit(h) ==
    /\ hs[h].pc = "credit"
    /\ inv' = Credited(hs[h].inv, hs[h].pay.amount)
    /\ Move(h, "receipt.count")
    /\ UNCHANGED <<payments, receipts, provider, counters>>

ReceiptCount(h) ==
    /\ hs[h].pc = "receipt.count"
    /\ Update(h, [hs[h] EXCEPT !.pc = "receipt.save", !.n = Len(receipts) + 1])
    /\ UNCHANGED <<stored, provider, counters>>

ReceiptSave(h) ==
    /\ hs[h].pc = "receipt.save"
    /\ receipts' = Append(receipts, [payment |-> hs[h].id, number |-> hs[h].n,
                                     amount |-> hs[h].pay.amount])
    /\ Stop(h)
    /\ UNCHANGED <<inv, payments, provider, counters>>
-----------------------------------------------------------------------------
(* settleProviderCapture.  The payment is found by the provider's id, the  *)
(* invoice read afterwards.                                                *)
SettleFind(h) ==
    /\ \E i \in DOMAIN payments :
          /\ payments[i].charge # 0
          /\ \A j \in 1..(i - 1) : payments[j].charge # payments[i].charge
          /\ Begin(h, [Resting EXCEPT !.pc = "settle.load",
                                       !.pay = payments[i], !.id = i])
    /\ UNCHANGED <<stored, provider>>

(* Only a pending payment goes on; a captured one is a replay. *)
SettleLoad(h) ==
    /\ hs[h].pc = "settle.load"
    /\ IF hs[h].pay.status = "REQUIRES_CAPTURE"
       THEN Update(h, [hs[h] EXCEPT !.pc = "settle.save", !.inv = inv])
       ELSE Stop(h)
    /\ UNCHANGED <<stored, provider, counters>>

(* A payment says what the provider has for it. *)
Agrees(p) ==
    /\ p.status = charges[p.charge].status
    /\ Captured(p) => p.amount = charges[p.charge].amount

(* The verdict is the body's: FAILED, or CAPTURED with an amount, or with  *)
(* none, which stands for the payment's own.                               *)
Denied(pay) == [pay EXCEPT !.status = "FAILED"]
Affirmed(pay, amount) == [pay EXCEPT !.status = "CAPTURED", !.amount = amount]
Verdicts(pay) ==
    {Denied(pay)} \cup {Affirmed(pay, amount) : amount \in Stated \cup {pay.amount}}

SettleSave(h) ==
    /\ hs[h].pc = "settle.save"
    /\ \E settled \in Verdicts(hs[h].pay) :
          /\ payments' = [payments EXCEPT ![hs[h].id] = settled]
          /\ IF Captured(settled)
             THEN Update(h, [hs[h] EXCEPT !.pc = "credit", !.pay = settled])
             ELSE Stop(h)
          /\ misled' = IF Agrees(settled) THEN misled ELSE TRUE
    /\ UNCHANGED <<inv, receipts, provider, overlaps, aborts>>
-----------------------------------------------------------------------------
(* refundInvoice: against the newest captured payment, at most what the    *)
(* copy of the invoice shows as paid and not refunded.                     *)
RefundLoad(h) ==
    /\ Len(payments) < MaxPayments
    /\ Begin(h, [Resting EXCEPT !.pc = "refund.source", !.inv = inv])
    /\ UNCHANGED <<stored, provider>>

Refundable(i) == i.paid - i.refunded

(* The source is the last captured payment. *)
RefundSource(h) ==
    LET source == {i \in DOMAIN payments : Captured(payments[i])}
    IN  /\ hs[h].pc = "refund.source"
        /\ \/ source = {} /\ Stop(h)
           \/ Refundable(hs[h].inv) <= 0 /\ Stop(h)
           \/ /\ source # {}
              /\ \E amount \in 1..Refundable(hs[h].inv) :
                    Update(h, [hs[h] EXCEPT !.pc = "refund.call",
                                            !.pay = payments[Max(source)],
                                            !.n = amount])
        /\ UNCHANGED <<stored, provider, counters>>

(* paymentAdapter.refund: done by the provider, or refused, or done with   *)
(* an answer that is an error.  Its key is the charge and the amount, so a *)
(* provider that recognises keys takes a second refund of the same amount  *)
(* for a repetition of the first.                                          *)
RefundCall(h) ==
    LET refund == [charge |-> hs[h].pay.charge, amount |-> hs[h].n]
        known == RecognisesKeys /\ \E i \in DOMAIN returned : returned[i] = refund
    IN
    /\ hs[h].pc = "refund.call"
    /\ Len(returned) < MaxRefunds
    /\ \/ /\ returned' = IF known THEN returned ELSE Append(returned, refund)
          /\ \/ Move(h, "refund.save") /\ UNCHANGED misled
             \/ Move(h, "refund.fail") /\ misled' = TRUE
       \/ Move(h, "refund.fail") /\ UNCHANGED <<returned, misled>>
    /\ UNCHANGED <<stored, charges, adapter, overlaps, aborts>>

RefundSave(h) ==
    /\ hs[h].pc \in {"refund.save", "refund.fail"}
    /\ Len(payments) < MaxPayments
    /\ payments' = Append(payments,
          [key |-> <<"refund", hs[h].pay.key>>, charge |-> 0,
           status |-> IF hs[h].pc = "refund.fail" THEN "FAILED" ELSE "REFUNDED",
           amount |-> -hs[h].n])
    /\ IF hs[h].pc = "refund.fail" THEN Stop(h) ELSE Move(h, "refund.debit")
    /\ UNCHANGED <<inv, receipts, provider, counters>>

Debit(h) ==
    /\ hs[h].pc = "refund.debit"
    /\ inv' = Debited(hs[h].inv, hs[h].n)
    /\ Stop(h)
    /\ UNCHANGED <<payments, receipts, provider, counters>>
-----------------------------------------------------------------------------
(* The provider resolves a pending charge, possibly for less. *)
Resolve(c) ==
    /\ charges[c].status = "REQUIRES_CAPTURE"
    /\ \/ charges' = [charges EXCEPT ![c].status = "FAILED"]
       \/ \E amount \in 1..charges[c].amount :
             charges' = [charges EXCEPT ![c].status = "CAPTURED",
                                        ![c].amount = amount]
    /\ UNCHANGED <<stored, returned, adapter, hs, counters>>

Abort(h) ==
    /\ hs[h].pc # "idle"
    /\ overlaps + aborts < MaxDisturbances
    /\ aborts' = aborts + 1
    /\ Stop(h)
    /\ UNCHANGED <<stored, provider, overlaps, misled>>

Next ==
    \/ \E h \in Handlers :
          \/ PayLoad(h) \/ PayKey(h) \/ PayLookup(h) \/ PayPending(h)
          \/ PayCapture(h) \/ PaySave(h)
          \/ Credit(h) \/ ReceiptCount(h) \/ ReceiptSave(h)
          \/ SettleFind(h) \/ SettleLoad(h) \/ SettleSave(h)
          \/ RefundLoad(h) \/ RefundSource(h) \/ RefundCall(h)
          \/ RefundSave(h) \/ Debit(h)
          \/ Abort(h)
    \/ \E c \in DOMAIN charges : Resolve(c)

Spec == Init /\ [][Next]_vars
-----------------------------------------------------------------------------
(* Properties.                                                             *)

Quiet == \A h \in Handlers : hs[h].pc = "idle"

Amount(x) == x.amount
Negated(x) == -x.amount
Every(x) == TRUE
RefundDone(p) == p.status = "REFUNDED"
NotFailed(c) == c.status # "FAILED"

(* The stored record and the lists of payments and receipts have their     *)
(* types; the locals of a handler are typed where it uses them.            *)
TypeOK ==
    /\ inv \in [status : InvoiceStatuses, paid : Nat, refunded : Nat]
    /\ \A i \in DOMAIN payments :
          /\ payments[i].status \in PaymentStatuses
          /\ payments[i].amount \in Int
          /\ payments[i].charge \in 0..Len(charges)
    /\ \A i \in DOMAIN receipts : receipts[i].payment \in DOMAIN payments
    /\ misled \in BOOLEAN

(* The stored invoice is coherent in itself, even when handlers overwrite  *)
(* each other: no more is refunded than was paid, and PAID means the total *)
(* was credited (payInvoice, settleProviderCapture, refundInvoice).        *)
InvoiceCoherent ==
    /\ inv.refunded <= inv.paid
    /\ inv.status = "PAID" => inv.paid >= Total
    /\ inv.status \in {"REFUNDED", "PARTIALLY_REFUNDED"} => inv.refunded > 0

(* Of requests that come one at a time, every receipt is for a payment of  *)
(* the invoice that is captured, and for its amount, whatever a settlement *)
(* says and whatever dies in between (settleProviderCapture writes the     *)
(* payment before the receipt, and settles only what is pending).          *)
ReceiptBacked ==
    overlaps = 0 =>
    \A i \in DOMAIN receipts :
        LET p == payments[receipts[i].payment] IN
        p.status = "CAPTURED" /\ p.amount = receipts[i].amount

(* One payment has at most one receipt, however often a settlement is      *)
(* delivered (the idempotent replay of settleProviderCapture), also after  *)
(* a request that died; two deliveries that overlap may issue two.         *)
OneReceiptAlone ==
    overlaps = 0 => \A i, j \in DOMAIN receipts :
        i # j => receipts[i].payment # receipts[j].payment

(* Of requests that come one at a time, one with a used idempotency key    *)
(* replays the first payment instead of making another (payInvoice).       *)
OnePaymentPerKey ==
    overlaps = 0 =>
    \A i, j \in DOMAIN payments :
        i # j /\ payments[i].amount > 0 /\ payments[j].amount > 0
            => payments[i].key # payments[j].key

Undisturbed == overlaps = 0 /\ aborts = 0

(* Between requests the invoice shows exactly what its payments add up to, *)
(* and every captured payment has its receipt, numbered in order, as long  *)
(* as no request overlapped another or died, whatever settlements said.    *)
(* As long as they said what the provider did, and no error hid what it    *)
(* did, every captured payment is a capture of the provider, and it has    *)
(* returned no more than the invoice shows as refunded.                    *)
BooksBalance ==
    Quiet /\ Undisturbed =>
        /\ inv.paid = SumOf(payments, Captured, Amount)
        /\ inv.refunded = SumOf(payments, RefundDone, Negated)
        /\ \A i \in DOMAIN payments : Captured(payments[i]) =>
              \E j \in DOMAIN receipts : receipts[j].payment = i
        /\ \A j \in DOMAIN receipts : receipts[j].number = j
        /\ ~misled =>
              /\ \A i \in DOMAIN payments : Captured(payments[i]) => Agrees(payments[i])
              /\ SumOf(returned, Every, Amount) <= inv.refunded

(* The customer is never charged more than the invoice: what the provider  *)
(* captured or may still capture stays within the total (payInvoice's key, *)
(* status and pending guards, and the outstanding amount).                 *)
NeverOvercharged == SumOf(charges, NotFailed, Amount) <= Total

(* A credit or a refund on the invoice is always backed by the payments,   *)
(* also when a request died half way, as long as none overlapped another.  *)
CreditIsBacked ==
    overlaps = 0 =>
        /\ inv.paid <= SumOf(payments, Captured, Amount)
        /\ inv.refunded <= SumOf(payments, RefundDone, Negated)

(* The money is accounted for: in the books, on the invoice, by receipts.  *)
MoneyAccounted == InvoiceCoherent /\ BooksBalance /\ CreditIsBacked /\ ReceiptBacked

(* Nothing is done twice: no second receipt for a payment, no second       *)
(* payment for a key, and no second charge of what was charged, in any     *)
(* order of payments, settlements and refunds that come one at a time;     *)
(* the charge only if none of them dies before the invoice is saved, and   *)
(* if the books were never told otherwise than the provider did: after an  *)
(* error that hid a charge, or a settlement that denies it, the next       *)
(* attempt has a new key and charges again.                                *)
NothingTwice ==
    /\ OneReceiptAlone /\ OnePaymentPerKey
    /\ Undisturbed /\ ~misled => NeverOvercharged
=============================================================================
