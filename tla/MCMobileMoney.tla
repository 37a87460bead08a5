----------------------------- MODULE MCMobileMoney -----------------------------
(* Small instances of the payments: a behaviour is about the mobile money      *)
(* ledger, with two orderly requests beside an unruly one, or about the rails   *)
(* that one invoice is collected over (focus).  No symmetry: the run checks    *)
(* liveness.                                                                   *)
EXTENDS MobileMoney, PaymentRails

VARIABLE focus

(* Whole units, halves and less than a half of the provider's. *)
Bill(c, n) == [currency |-> c, total |-> n]
MCInvoices ==
    {Bill("UGX", 20000), Bill("UGX", 15000), Bill("UGX", 12000), Bill("USD", 150),
     Bill("KWD", 14)}
MCUnit == [UGX |-> 10000, USD |-> 100, KWD |-> 10]
Deployed(p, k) == [provider |-> p, keys |-> k]
MCDeployments ==
    {Deployed("manual", {}), Deployed("stripe", {"stripe"}), Deployed("africastalking", {"at"}),
     Deployed("play", {"play"}), Deployed("play", {"play", "stripe"}),
     Deployed("live", {"stripe", "at"}), Deployed("live", {"at"}), Deployed("live", {"play"})}

PaymentsInit ==
    /\ focus \in {"mobile money", "rails"}
    /\ MoneyInit /\ RailsInit
    /\ focus # "rails" => config = Deployed("manual", {}) /\ invoice.currency = "USD"

PaymentsNext ==
    /\ UNCHANGED focus
    /\ \/ focus = "mobile money" /\ MoneyNext /\ UNCHANGED railVars
       \/ focus = "rails" /\ RailsNext /\ UNCHANGED moneyVars

(* In the focus "rails" none of the fair actions is ever enabled. *)
PaymentsSpec == PaymentsInit /\ [][PaymentsNext]_<<focus, moneyVars, railVars>> /\ Fairness
=============================================================================
