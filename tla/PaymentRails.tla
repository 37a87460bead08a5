---------------------------- MODULE PaymentRails ----------------------------
(* The payment adapters behind payInvoice and refundInvoice: one invoice is    *)
(* collected and paid back over the rails the deployment has (Stripe, Africa's *)
(* Talking, Google Play, or the manual adapter of development).  Amounts are    *)
(* ten-thousandths of the currency, the precision of roundMoney; a provider     *)
(* counts in units of its own.  A call and its answer are one step here: how    *)
(* calls overlap is PaymentInvoices' matter.                                    *)
EXTENDS Integers, Sequences, FiniteSets, FiniteSetsExt

CONSTANTS
    Invoices,            \* [currency, total]: the invoices to collect
    ZeroDecimal, ThreeDecimal,   \* the tables of currencies in the code
    ProviderUnit,        \* [currency -> worth of the provider's unit]
    Deployments,         \* [provider, keys]: PAYMENT_PROVIDER and credentials
    MaxBooked, MaxDeploys, MaxFaults

ASSUME RailsAssumption ==
    \A i \in Invoices : i.total \in Nat /\ ProviderUnit[i.currency] \in Nat \ {0}

VARIABLES
    config,      \* the deployment that runs
    invoice,     \* the invoice: currency, total, paid, refunded
    booked,      \* PaymentRecords in the order of their creation
    taken,       \* external: what the providers took, and of it paid back
    charged,     \* external: the sum of what they charged
    repaid,      \* external: what they were told to pay back
    acked,       \* external: the Play purchase is acknowledged
    deploys, faults

railVars == <<config, invoice, booked, taken, charged, repaid, acked, deploys, faults>>

Methods == {"CARD", "WALLET", "MOBILE_MONEY", "BANK_TRANSFER"}
(* customerReference: a Stripe token, a card number, a phone, a Play purchase. *)
PaymentReferences == {"token", "pan", "phone", "purchase", "none"}

Result(provider, id, status, amount) ==
    [provider |-> provider, id |-> id, status |-> status, amount |-> amount]

failedCapture(provider) == Result(provider, 0, "FAILED", 0)
-----------------------------------------------------------------------------
(* Money. *)

(* Mutant: every currency has cents. *)
ExponentMutant(currency) == 2

paymentProviderMinorUnitExponent(currency) ==
    IF currency \in ZeroDecimal THEN 0 ELSE IF currency \in ThreeDecimal THEN 3 ELSE 2

MinorUnit(currency) == 10 ^ (4 - paymentProviderMinorUnitExponent(currency))

(* Math.round: halves go up. *)
toPaymentProviderMinorUnits(amount, currency) ==
    (2 * amount + MinorUnit(currency)) \div (2 * MinorUnit(currency))

fromPaymentProviderMinorUnits(units, currency) == units * MinorUnit(currency)

(* validateMoney *)
ValidMoney(amount) == amount > 0
-----------------------------------------------------------------------------
(* Which rail is used. *)

africasTalkingPaymentsReady(keys) == "at" \in keys

(* createConfiguredPaymentAdapter: a deployment without its credentials does *)
(* not start.                                                                *)
createConfiguredPaymentAdapter(c) ==
    /\ c.provider = "stripe" => "stripe" \in c.keys
    /\ c.provider = "africastalking" => africasTalkingPaymentsReady(c.keys)
    /\ c.provider = "play" => "play" \in c.keys
    /\ c.provider = "live" => "stripe" \in c.keys \/ africasTalkingPaymentsReady(c.keys)

Rails(c, key) == IF key \in c.keys THEN key ELSE "unavailable"

OnlyRail(c) == CASE c.provider = "manual" -> "manual"
                 [] c.provider = "stripe" -> "stripe"
                 [] c.provider = "africastalking" -> "at"
                 [] OTHER -> "many"

route(c, method) ==
    IF OnlyRail(c) # "many" THEN OnlyRail(c)
    ELSE IF c.provider = "play" /\ method = "WALLET" THEN "play"
    ELSE CASE method \in {"CARD", "WALLET"} -> Rails(c, "stripe")
           [] method = "MOBILE_MONEY" -> Rails(c, "at")
           [] OTHER -> "unavailable"

(* A deployment with one rail sends every refund to it. *)
adapterForProvider(c, provider) ==
    IF OnlyRail(c) # "many" THEN OnlyRail(c)
    ELSE CASE provider = "play" -> IF c.provider = "play" THEN "play" ELSE "unavailable"
           [] provider \in {"stripe", "at"} -> Rails(c, provider)
           [] OTHER -> "unavailable"
-----------------------------------------------------------------------------
(* The invoice. *)

ToCollect == invoice.total - invoice.paid
StillRefundable == invoice.paid - invoice.refunded
CapturedPayments ==
    {i \in DOMAIN booked : booked[i].kind = "capture" /\ booked[i].status = "CAPTURED"}

Collectable ==
    /\ invoice.status \notin {"PAID", "REFUNDED"}
    /\ \A i \in DOMAIN booked : booked[i].status # "REQUIRES_CAPTURE"
    /\ Len(booked) < MaxBooked

(* The key of an attempt counts the payments on record. *)
Attempt == Cardinality({i \in DOMAIN booked : booked[i].kind = "capture"}) + 1

(* payInvoice writes down what the adapter answered; a capture is credited.  *)
(* The customerReference is kept of captured payments, where a refund reads it. *)
BookCapture(ref, r) ==
    /\ booked' = Append(booked,
          [kind |-> "capture", provider |-> r.provider, id |-> r.id, status |-> r.status,
           ref |-> IF r.status = "CAPTURED" THEN ref ELSE "none",
           amount |-> IF r.status = "CAPTURED" THEN r.amount ELSE ToCollect])
    /\ invoice' = IF r.status # "CAPTURED" THEN invoice
                  ELSE [invoice EXCEPT !.paid = @ + r.amount,
                           !.status = IF invoice.paid + r.amount >= invoice.total
                                      THEN "PAID" ELSE @]

(* refundInvoice does the same with a refund of amount. *)
BookRefund(amount, r) ==
    /\ booked' = Append(booked,
          [kind |-> "refund", provider |-> r.provider, id |-> r.id, status |-> r.status,
           ref |-> "none",
           amount |-> IF r.amount # 0 THEN r.amount ELSE amount])
    /\ invoice' = IF r.status = "FAILED" THEN invoice
                  ELSE [invoice EXCEPT !.refunded = @ + r.amount,
                           !.status = IF invoice.refunded + r.amount >= invoice.paid
                                      THEN "REFUNDED" ELSE "PARTIALLY_REFUNDED"]

(* The phone of a mobile money payment is the payer's verified one. *)
ReferenceOf(method, ref) == IF method = "MOBILE_MONEY" THEN "phone" ELSE ref
-----------------------------------------------------------------------------
(* Captures.  The provider may refuse, or answer nobody: the request throws *)
(* and nothing is booked.                                                   *)
Unanswered == faults < MaxFaults /\ faults' = faults + 1 /\ UNCHANGED <<booked, invoice>>

Take(rail, key, ref, units, worth, status) ==
    /\ taken' = Append(taken, [rail |-> rail, key |-> key, ref |-> ref, units |-> units,
                               worth |-> worth, status |-> status, back |-> 0])
    /\ charged' = charged + IF status \in {"succeeded", "success"} THEN worth ELSE 0

(* Nobody is asked: the manual adapter agrees to anything, a rail that is not *)
(* there to nothing.                                                         *)
CaptureWithoutRail(method, ref) ==
    /\ \/ /\ route(config, method) = "manual"
          /\ BookCapture(ref,
                IF ValidMoney(ToCollect) THEN Result("manual", 0, "CAPTURED", ToCollect)
                ELSE failedCapture("manual"))
       \/ /\ route(config, method) = "unavailable"
          /\ BookCapture(ref, failedCapture("unavailable"))
    /\ UNCHANGED <<taken, charged, acked, faults>>

looksLikeCardPan(ref) == ref = "pan"
readProviderToken(ref) == ref # "none" /\ ~looksLikeCardPan(ref)

(* mapStripePaymentIntentStatus: "open" stands for the states that wait for *)
(* something.                                                               *)
mapStripePaymentIntentStatus(status) ==
    CASE status = "succeeded" -> "CAPTURED"
      [] status = "open" -> "REQUIRES_CAPTURE"
      [] OTHER -> "FAILED"

(* Stripe answers a key it knows as it did the first time, or with an error *)
(* when the request is another one.                                          *)
StripeCapture(method, ref) ==
    LET units == toPaymentProviderMinorUnits(ToCollect, invoice.currency)
        worth == units * ProviderUnit[invoice.currency]
        known == {i \in DOMAIN taken : taken[i].rail = "stripe" /\ taken[i].key = Attempt}
        Answer(id, t) ==
            LET status == mapStripePaymentIntentStatus(t)
            IN  Result("stripe", id, status,
                    IF status = "CAPTURED"
                    THEN fromPaymentProviderMinorUnits(units, invoice.currency) ELSE 0)
    IN  /\ route(config, method) = "stripe"
        /\ IF ~ValidMoney(ToCollect) \/ ~readProviderToken(ref)
           THEN /\ BookCapture(ref, failedCapture("stripe"))
                /\ UNCHANGED <<taken, charged, faults>>
           ELSE \/ /\ BookCapture(ref, failedCapture("stripe"))
                   /\ \A i \in known : taken[i].units # units \/ taken[i].ref # ref
                   /\ UNCHANGED <<taken, charged, faults>>
                \/ \E i \in known :
                      /\ taken[i].units = units /\ taken[i].ref = ref
                      /\ BookCapture(ref, Answer(i, taken[i].status))
                      /\ UNCHANGED <<taken, charged, faults>>
                \/ /\ known = {} /\ units > 0 /\ ref = "token"
                   /\ \E status \in {"succeeded", "open"} :
                         /\ Take("stripe", Attempt, ref, units, worth, status)
                         /\ \/ /\ BookCapture(ref, Answer(Len(taken) + 1, status))
                               /\ UNCHANGED faults
                            \/ Unanswered
        /\ UNCHANGED acked

mapAfricasTalkingCheckoutToFinanceStatus(status) ==
    CASE status = "success" -> "CAPTURED"
      [] status = "pending" -> "REQUIRES_CAPTURE"
      [] OTHER -> "FAILED"

(* The checkout carries no key: asked again, it charges again. *)
AfricasTalkingCapture(method, ref) ==
    /\ route(config, method) = "at"
    /\ \/ BookCapture(ref, failedCapture("at")) /\ UNCHANGED <<taken, charged, faults>>
       \/ /\ ValidMoney(ToCollect) /\ ref = "phone"
          /\ \E status \in {"success", "pending"} :
                LET s == mapAfricasTalkingCheckoutToFinanceStatus(status)
                IN  /\ Take("at", Attempt, ref, ToCollect, ToCollect, status)
                    /\ \/ /\ BookCapture(ref,
                                Result("at", Len(taken) + 1, s,
                                       IF s = "CAPTURED" THEN ToCollect ELSE 0))
                          /\ UNCHANGED faults
                       \/ Unanswered
    /\ UNCHANGED acked

mapPlaySubscriptionState(state) ==
    CASE state \in {"active", "grace"} -> "CAPTURED"
      [] state \in {"pending", "hold"} -> "REQUIRES_CAPTURE"
      [] OTHER -> "FAILED"

(* Play is asked whether the purchase is good; its money was taken by the    *)
(* store.  A good one is acknowledged, and nobody looks at how that went.    *)
PlayCapture(method, ref) ==
    /\ route(config, method) = "play"
    /\ \/ /\ BookCapture(ref, failedCapture("play"))
          /\ UNCHANGED <<taken, charged, acked, faults>>
       \/ /\ ValidMoney(ToCollect) /\ method = "WALLET" /\ ref # "none"
          /\ ref = "purchase"
          /\ \E state \in {"active", "grace", "pending", "hold"} :
                LET s == mapPlaySubscriptionState(state)
                IN  /\ Take("play", 0, ref, 0, 0, state)
                    /\ BookCapture(ref,
                          Result("play", Len(taken) + 1, s,
                                 IF s = "CAPTURED" THEN ToCollect ELSE 0))
                    /\ \/ acked' = (acked \/ s = "CAPTURED") /\ UNCHANGED faults
                       \/ /\ s = "CAPTURED" /\ ~acked
                          /\ faults < MaxFaults /\ faults' = faults + 1
                          /\ UNCHANGED acked

payInvoice(method, given) ==
    LET ref == ReferenceOf(method, given)
    IN  /\ Collectable
        /\ \/ CaptureWithoutRail(method, ref) \/ StripeCapture(method, ref)
           \/ AfricasTalkingCapture(method, ref) \/ PlayCapture(method, ref)
        /\ UNCHANGED <<config, repaid, deploys>>
-----------------------------------------------------------------------------
(* Refunds go back by the provider of the newest captured payment. *)
LastCapture == Max(CapturedPayments)

RefundResult(provider, id, status, amount) ==
    [provider |-> provider, id |-> id, status |-> status, amount |-> amount]

Return(rail, charge, worth, good) ==
    /\ repaid' = Append(repaid,
          [rail |-> rail, charge |-> charge, worth |-> worth, good |-> good])
    /\ taken' = IF good /\ charge \in DOMAIN taken
                THEN [taken EXCEPT ![charge].back = @ + worth] ELSE taken

RefundWithoutRail(amount, rail) ==
    /\ \/ /\ rail = "manual"
          /\ BookRefund(amount, RefundResult("manual", 0, "REFUNDED", amount))
       \/ /\ rail \in {"play", "unavailable"}
          /\ BookRefund(amount, RefundResult(rail, 0, "FAILED", 0))
    /\ UNCHANGED <<taken, repaid>>

(* Stripe pays back what it took, or refuses: an id that is not its own, too *)
(* much, nothing.  Its key is the charge and the amount: the same again is    *)
(* answered as before.  What it calls pending may still fail.                 *)
StripeRefund(amount, rail) ==
    LET id == booked[LastCapture].id
        units == toPaymentProviderMinorUnits(amount, invoice.currency)
        worth == units * ProviderUnit[invoice.currency]
        own == booked[LastCapture].provider = "stripe"
        Answer == RefundResult("stripe", id, "REFUNDED",
                       fromPaymentProviderMinorUnits(units, invoice.currency))
        known == \E i \in DOMAIN repaid :
                    repaid[i].charge = id /\ repaid[i].worth = worth
    IN  /\ rail = "stripe"
        /\ \/ /\ BookRefund(amount, RefundResult("stripe", 0, "FAILED", 0))
              /\ UNCHANGED <<taken, repaid>>
           \/ /\ own /\ known /\ BookRefund(amount, Answer)
              /\ UNCHANGED <<taken, repaid>>
           \/ /\ own /\ ~known /\ units > 0
              /\ taken[id].back + worth <= taken[id].worth
              /\ BookRefund(amount, Answer)
              /\ \E good \in BOOLEAN : Return("stripe", id, worth, good)

(* Africa's Talking is sent a new payment to the payer's phone.  The status  *)
(* of the request is read, that of the recipient in it is not.               *)
AfricasTalkingRefund(amount, rail) ==
    /\ rail = "at"
    /\ \/ /\ BookRefund(amount, RefundResult("at", 0, "FAILED", 0))
          /\ UNCHANGED <<taken, repaid>>
       \/ /\ booked[LastCapture].ref = "phone"
          /\ BookRefund(amount, RefundResult("at", booked[LastCapture].id, "REFUNDED", amount))
          /\ \E good \in BOOLEAN : Return("at", booked[LastCapture].id, amount, good)

refundInvoice(amount) ==
    LET rail == adapterForProvider(config, booked[LastCapture].provider)
    IN  /\ CapturedPayments # {} /\ Len(booked) < MaxBooked
        /\ amount > 0 /\ amount <= StillRefundable
        /\ \/ RefundWithoutRail(amount, rail) \/ StripeRefund(amount, rail)
           \/ AfricasTalkingRefund(amount, rail)
        /\ UNCHANGED <<config, charged, acked, deploys, faults>>

(* The program is started again with another configuration. *)
Redeploy ==
    /\ deploys < MaxDeploys /\ deploys' = deploys + 1
    /\ \E c \in Deployments \ {config} :
          createConfiguredPaymentAdapter(c) /\ config' = c
    /\ UNCHANGED <<invoice, booked, taken, charged, repaid, acked, faults>>

RailsInit ==
    /\ config \in {c \in Deployments : createConfiguredPaymentAdapter(c)}
    /\ \E i \in Invoices :
          invoice = [currency |-> i.currency, total |-> i.total, paid |-> 0,
                     refunded |-> 0, status |-> "ISSUED"]
    /\ booked = <<>> /\ taken = <<>> /\ charged = 0 /\ repaid = <<>>
    /\ acked = FALSE /\ deploys = 0 /\ faults = 0

(* A refund of everything, of one provider's unit, or of half of one. *)
RefundAmounts ==
    {StillRefundable, ProviderUnit[invoice.currency], ProviderUnit[invoice.currency] \div 2}

RailsNext ==
    \/ \E method \in Methods, ref \in PaymentReferences : payInvoice(method, ref)
    \/ \E amount \in RefundAmounts : refundInvoice(amount)
    \/ Redeploy

RailsSpec == RailsInit /\ [][RailsNext]_railVars
-----------------------------------------------------------------------------
(* Properties. *)

(* A captured payment was taken by the rail it names, for the amount it      *)
(* carries, in the provider's own units (what Play charged nobody looks at). *)
BookedIsTaken ==
    \A i \in CapturedPayments :
        LET p == booked[i]
        IN  p.provider # "manual" =>
            /\ p.id \in DOMAIN taken
            /\ taken[p.id].rail = p.provider
            /\ taken[p.id].status \in {"succeeded", "success", "active", "grace"}
            /\ p.provider # "play" => taken[p.id].worth = p.amount

(* A payer is charged once, and for the total to the nearest unit of the     *)
(* provider, as long as every answer arrives.                                *)
TakenOnce ==
    faults = 0 => 2 * charged <= 2 * invoice.total + ProviderUnit[invoice.currency]

(* What is left after a capture is less than a unit of the provider, and     *)
(* nothing when the total is whole in units: such a rest is never collected  *)
(* by card, as it rounds to nothing.                                         *)
RestIsLessThanAUnit ==
    CapturedPayments # {} =>
    /\ 2 * ToCollect <= ProviderUnit[invoice.currency]
    /\ invoice.total % ProviderUnit[invoice.currency] = 0 => ToCollect <= 0

(* A refund on record was paid back by the rail that had taken the money,    *)
(* unless it was booked by the manual adapter, and the rail pays back no     *)
(* more than it took while the invoice was paid at once (a refund of several *)
(* payments all goes to the newest one).                                     *)
RefundIsReturned ==
    /\ \A i \in DOMAIN booked :
          (booked[i].kind = "refund" /\ booked[i].status = "REFUNDED"
             /\ booked[i].provider # "manual") =>
          \E j \in DOMAIN repaid :
             /\ repaid[j].rail = booked[i].provider
             /\ repaid[j].worth = booked[i].amount
             /\ repaid[j].rail = "stripe" => repaid[j].charge = booked[i].id
    /\ Cardinality(CapturedPayments) = 1 =>
          \A c \in DOMAIN taken : taken[c].back <= taken[c].worth

(* A purchase that paid is acknowledged to the store, unless that call got   *)
(* lost: the store pays an unacknowledged purchase back.                     *)
PaidIsAcknowledged ==
    (faults = 0 /\ \E i \in CapturedPayments : booked[i].provider = "play") => acked

RailsHold ==
    BookedIsTaken /\ TakenOnce /\ RestIsLessThanAUnit /\ RefundIsReturned /\ PaidIsAcknowledged
=============================================================================
