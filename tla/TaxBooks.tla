------------------------------ MODULE TaxBooks ------------------------------
(* The tax books of one country: its tax profile and rules, the snapshots that *)
(* calculateTax takes of a sale, the ledger entries it writes for each, and the *)
(* returns that add the snapshots of a period up.  Every read and write of the  *)
(* repository is a step of its own.  Amounts are ten-thousandths, rates per     *)
(* cents, times days.  Tenant, currencies and evidence are left out.            *)
EXTENDS Integers, Sequences, FiniteSets, FiniteSetsExt

CONSTANTS
    Clerks,       \* requests that may be in progress together
    Rates, Sales, \* the rates of rules; the gross amounts of sales
    Days,         \* 0 .. the last day
    Period,       \* the days a return is about
    MinorUnit,    \* the currency's minor unit, in ten-thousandths
    MaxConfigured, MaxRules, MaxSnapshots, MaxReturns,
    MaxOverlaps, MaxFaults

VARIABLES
    stripeTax,    \* is a tax rate adapter configured
    profile,      \* the country's profile, or none
    rules,        \* TaxRuleRecords, in the order listTaxRules gives them
    snapshots, ledger, returns,
    clerk,        \* per request: where it is, and its locals
    lost,         \* history: an approval was overwritten
    configured,   \* requests to configure the profile so far
    overlaps, faults

bookVars == <<stripeTax, profile, rules, snapshots, ledger, returns, clerk, lost, configured,
              overlaps, faults>>
stored == <<profile, rules, snapshots, ledger, returns>>
counted == <<stripeTax, lost, configured, overlaps, faults>>

NoProfile == [status |-> "NONE", inclusive |-> FALSE]
Free == [pc |-> "free", profile |-> NoProfile, sale |-> 0, at |-> 0, rule |-> 0,
         split |-> <<>>, snap |-> 0, due |-> 0, seen |-> 0]
-----------------------------------------------------------------------------
(* Arithmetic: Math.round of a quotient. *)
Rounded(a, b) == (2 * a + b) \div (2 * b)

(* Mutant: tax comes on top of an inclusive price, too. *)
SplitMutant(amount, rate, inclusive) ==
    LET tax == Rounded(amount * rate, 100)
    IN  [gross |-> IF inclusive THEN amount ELSE amount + tax, taxable |-> amount, tax |-> tax,
         net |-> amount]

calculateTaxSnapshotAmounts(amount, rate, inclusive) ==
    IF inclusive
    THEN LET base == 100 + rate
             taxable == Rounded(100 * amount, base)
         IN  [gross |-> amount, taxable |-> taxable,
              tax |-> Rounded(amount * rate, base), net |-> taxable]
    ELSE LET tax == Rounded(amount * rate, 100)
         IN  [gross |-> amount + tax, taxable |-> amount, tax |-> tax, net |-> amount]

(* Whether the quote of Stripe Tax agrees with the rule's tax. *)
reconcileFinanceAndStripeTax(tax, quote) ==
    /\ tax > 0 => quote > 0
    /\ tax - quote \in -MinorUnit..MinorUnit

(* What Stripe may answer: the tax in its units, none, or that of another *)
(* rate; stripeTaxQuoteFromCalculation reads the amount.                  *)
Quotes(tax) ==
    {Rounded(tax, MinorUnit) * MinorUnit, 0, (Rounded(tax, MinorUnit) + 2) * MinorUnit}
-----------------------------------------------------------------------------
Begin(c, k) ==
    /\ clerk[c].pc = "free"
    /\ IF \A d \in Clerks \ {c} : clerk[d].pc = "free" THEN UNCHANGED overlaps
       ELSE overlaps < MaxOverlaps /\ overlaps' = overlaps + 1
    /\ clerk' = [clerk EXCEPT ![c] = k]
    /\ UNCHANGED <<stripeTax, faults>>
At(c, pc) == clerk[c].pc = pc
Go(c, k) == clerk' = [clerk EXCEPT ![c] = k] /\ UNCHANGED counted

(* configureCountryTaxProfile: reads the profile, writes the whole of it. *)
getCountryProfile(c) ==
    /\ configured < MaxConfigured /\ configured' = configured + 1
    /\ Begin(c, [Free EXCEPT !.pc = "configure", !.profile = profile])
    /\ UNCHANGED <<stored, lost>>

(* Once it is approved a profile stays so, whoever changes it. *)
ConfiguredProfile(existing, approver, inclusive) ==
    [status |-> IF approver \/ existing.status = "APPROVED" THEN "APPROVED" ELSE "DRAFT",
     inclusive |-> inclusive]

saveCountryProfile(c) ==
    /\ At(c, "configure")
    /\ \E approver, inclusive \in BOOLEAN :
          profile' = ConfiguredProfile(clerk[c].profile, approver, inclusive)
    /\ lost' = (lost \/ (profile.status = "APPROVED" /\ profile'.status # "APPROVED"))
    /\ clerk' = [clerk EXCEPT ![c] = Free]
    /\ UNCHANGED <<rules, snapshots, ledger, returns, stripeTax, configured, overlaps, faults>>

createTaxRule ==
    /\ profile # NoProfile /\ Len(rules) < MaxRules
    /\ \E rate \in Rates, from, to \in Days :
          rules' = Append(rules, [rate |-> rate, from |-> from, to |-> to])
    /\ UNCHANGED <<profile, snapshots, ledger, returns, clerk, counted>>
-----------------------------------------------------------------------------
(* calculateTax *)

requireApprovedProfile(c) ==
    /\ profile.status = "APPROVED"
    /\ Len(snapshots) < MaxSnapshots
    /\ \E sale \in Sales, at \in Days :
          Begin(c, [Free EXCEPT !.pc = "rule", !.profile = profile, !.sale = sale, !.at = at])
    /\ UNCHANGED <<stored, lost, configured>>

(* Mutant: a rule that has ended is still found. *)
ActiveMutant(at) == {i \in DOMAIN rules : rules[i].from <= at}

Active(at) == {i \in DOMAIN rules : rules[i].from <= at /\ at <= rules[i].to}

(* The youngest of the active rules, the first on record of those. *)
findActiveRule(c) ==
    LET active == Active(clerk[c].at)
        youngest == {i \in active : \A j \in active : rules[j].from <= rules[i].from}
        i == Min(youngest)
    IN  /\ At(c, "rule")
        /\ Go(c, IF active = {} THEN Free
                 ELSE [clerk[c] EXCEPT !.pc = "quote", !.rule = i,
                          !.split = calculateTaxSnapshotAmounts(clerk[c].sale, rules[i].rate,
                                                                clerk[c].profile.inclusive)])
        /\ UNCHANGED stored

(* A quote that does not come or does not agree ends the calculation. *)
Quote(c) ==
    /\ At(c, "quote")
    /\ \/ ~stripeTax /\ Go(c, [clerk[c] EXCEPT !.pc = "snapshot"])
       \/ stripeTax /\ Go(c, Free)
       \/ /\ stripeTax
          /\ \E quote \in Quotes(clerk[c].split.tax) :
                /\ reconcileFinanceAndStripeTax(clerk[c].split.tax, quote)
                /\ Go(c, [clerk[c] EXCEPT !.pc = "snapshot", !.due = quote])
    /\ UNCHANGED stored

saveSnapshot(c) ==
    /\ At(c, "snapshot") /\ Len(snapshots) < MaxSnapshots
    /\ snapshots' = Append(snapshots,
          [sale |-> clerk[c].sale, rule |-> clerk[c].rule, at |-> clerk[c].at,
           split |-> clerk[c].split, quote |-> clerk[c].due,
           inclusive |-> clerk[c].profile.inclusive])
    /\ Go(c, [clerk[c] EXCEPT !.pc = "liability", !.snap = Len(snapshots) + 1])
    /\ UNCHANGED <<profile, rules, ledger, returns>>

Entry(type, c) ==
    [snapshot |-> clerk[c].snap, type |-> type, at |-> clerk[c].at,
     amount |-> IF type = "TAX_LIABILITY" THEN clerk[c].split.tax ELSE clerk[c].split.net]

(* createLedgerEntries, stored one after the other. *)
saveLedgerEntry(c) ==
    /\ clerk[c].pc \in {"liability", "revenue"}
    /\ IF At(c, "liability")
       THEN /\ ledger' = ledger \cup {Entry("TAX_LIABILITY", c)}
            /\ Go(c, [clerk[c] EXCEPT !.pc = "revenue"])
       ELSE /\ ledger' = ledger \cup {Entry("PLATFORM_REVENUE", c)}
            /\ Go(c, Free)
    /\ UNCHANGED <<profile, rules, snapshots, returns>>
-----------------------------------------------------------------------------
(* generateTaxReturn: the profile, the snapshots, the return. *)

InPeriod == {i \in DOMAIN snapshots : snapshots[i].at \in Period}

listSnapshots(c) ==
    /\ profile.status = "APPROVED" /\ Len(returns) < MaxReturns
    /\ Begin(c, [Free EXCEPT !.pc = "return", !.seen = Len(snapshots),
                    !.due = MapThenSumSet(LAMBDA i : snapshots[i].split.tax, InPeriod)])
    /\ UNCHANGED <<stored, lost, configured>>

saveTaxReturn(c) ==
    /\ At(c, "return") /\ Len(returns) < MaxReturns
    /\ returns' = Append(returns, [due |-> clerk[c].due, seen |-> clerk[c].seen])
    /\ Go(c, Free)
    /\ UNCHANGED <<profile, rules, snapshots, ledger>>

Crash(c) ==
    /\ ~At(c, "free")
    /\ faults < MaxFaults /\ faults' = faults + 1
    /\ clerk' = [clerk EXCEPT ![c] = Free]
    /\ UNCHANGED <<stored, stripeTax, lost, configured, overlaps>>

BooksInit ==
    /\ stripeTax \in BOOLEAN
    /\ profile = NoProfile /\ rules = <<>>
    /\ snapshots = <<>> /\ ledger = {} /\ returns = <<>>
    /\ clerk = [c \in Clerks |-> Free]
    /\ lost = FALSE /\ configured = 0 /\ overlaps = 0 /\ faults = 0

BooksNext ==
    \/ createTaxRule
    \/ \E c \in Clerks :
          \/ getCountryProfile(c) \/ saveCountryProfile(c)
          \/ requireApprovedProfile(c) \/ findActiveRule(c) \/ Quote(c)
          \/ saveSnapshot(c) \/ saveLedgerEntry(c)
          \/ listSnapshots(c) \/ saveTaxReturn(c)
          \/ Crash(c)
-----------------------------------------------------------------------------
(* Properties. *)

Quiet == \A c \in Clerks : At(c, "free")
LedgerOf(type, S) ==
    MapThenSumSet(LAMBDA e : e.amount, {e \in ledger : e.type = type /\ e.snapshot \in S})

(* A sale falls apart into tax and revenue, to the last ten-thousandth but   *)
(* one (both halves of an inclusive price may be rounded up); what the payer *)
(* pays is the price when it includes the tax.                               *)
SalesAreSplit ==
    \A i \in DOMAIN snapshots :
        LET s == snapshots[i].split
        IN  /\ s.tax + s.net - s.gross \in 0..1
            /\ snapshots[i].inclusive => s.gross = snapshots[i].sale
            /\ s.tax + s.net # s.gross => snapshots[i].inclusive

(* The rule of a snapshot was in force on the day of the sale, and no rule   *)
(* older than another that was on record by then was preferred.              *)
RuleWasInForce ==
    \A i \in DOMAIN snapshots :
        LET r == rules[snapshots[i].rule]
        IN  /\ snapshots[i].at \in r.from..r.to
            /\ \A j \in 1..(snapshots[i].rule - 1) :
                  snapshots[i].at \in rules[j].from..rules[j].to => rules[j].from < r.from

(* With Stripe Tax configured no tax is on record that it did not confirm.   *)
QuoteConfirms ==
    stripeTax => \A i \in DOMAIN snapshots :
        LET tax == snapshots[i].split.tax
        IN  tax - snapshots[i].quote \in -MinorUnit..MinorUnit /\ (tax > 0 => snapshots[i].quote > 0)

(* The ledger has the tax and the revenue of every snapshot, once the        *)
(* requests are done and unless one died; it never has an entry without one. *)
LedgerFollows ==
    /\ \A e \in ledger : e.snapshot \in DOMAIN snapshots
    /\ Quiet /\ faults = 0 =>
          \A i \in DOMAIN snapshots :
              /\ LedgerOf("TAX_LIABILITY", {i}) = snapshots[i].split.tax
              /\ LedgerOf("PLATFORM_REVENUE", {i}) = snapshots[i].split.net

(* What a return asks for is what the ledger holds for the sales it had      *)
(* seen: those that came later are in no return.                             *)
ReturnIsInLedger ==
    Quiet /\ faults = 0 =>
        \A i \in DOMAIN returns :
            returns[i].due = LedgerOf("TAX_LIABILITY", {s \in InPeriod : s <= returns[i].seen})

(* An approval is only ever lost to requests that overlap.                   *)
ApprovalIsKept == lost => overlaps > 0

BooksHold ==
    /\ SalesAreSplit /\ RuleWasInForce /\ QuoteConfirms
    /\ LedgerFollows /\ ReturnIsInLedger /\ ApprovalIsKept
=============================================================================
