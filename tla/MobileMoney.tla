----------------------------- MODULE MobileMoney -----------------------------
(***************************************************************************)
(* The mobile money ledger: requestCheckout and requestPayout write a row, *)
(* ask Africa's Talking and store its answer; the provider's result comes  *)
(* back by reconcileCallback, which finds the row by the provider's        *)
(* transaction id.                                                         *)
(*                                                                         *)
(* The provider is external.  An orderly request is answered with the      *)
(* transaction id and called back once, with the result, after the answer  *)
(* was stored.  An unruly one may be accepted and its answer lost, it is   *)
(* called back early, repeatedly and in any order, and its process may die *)
(* between two awaits.                                                     *)
(***************************************************************************)
CONSTANTS
    Txns,      \* ids of ledger rows, one per accepted request
    Unruly     \* those whose request is an unruly one

ASSUME UnrulyAssumption == Unruly \subseteq Txns

VARIABLES
    ledger,    \* the PaymentTxnRecords: kind, status, knows providerTxnId
    request,   \* the request that owns a row: where it is, the answer it got
    telco,     \* what the provider made of the row's request
    called,    \* orderly rows whose result was delivered
    handled    \* the callbacks that found their row and still have to write it

moneyVars == <<ledger, request, telco, called, handled>>

Kinds == {"CHECKOUT", "B2C"}
Statuses == {"REQUESTED", "PENDING", "SUCCESS", "FAILED"}
Results == {"Success", "Failed"}
NoRow == [kind |-> "NONE", status |-> "NO_ROW", id |-> FALSE]
Callback == [txn : Txns, status : Results \cup {"PendingConfirmation"}]

(* Mutant: everything that is no failure is a success. *)
mapAtPaymentStatusMutant(s) == IF s = "Failed" THEN "FAILED" ELSE "SUCCESS"

(* Everything that is no result is still pending. *)
mapAtPaymentStatus(s) ==
    CASE s = "Success" -> "SUCCESS"
      [] s = "Failed"  -> "FAILED"
      [] OTHER         -> "PENDING"

MoneyInit ==
    /\ ledger = [t \in Txns |-> NoRow]
    /\ request = [t \in Txns |-> [pc |-> "new", ok |-> FALSE, id |-> FALSE]]
    /\ telco = [t \in Txns |-> "none"]
    /\ called = {}
    /\ handled = {}

At(t, pc) == request[t].pc = pc
Goto(t, pc) == request' = [request EXCEPT ![t].pc = pc]

(* The row is written before the provider is asked.  The checks in front   *)
(* of it (phone, amount, tax profile, terms, role) refuse without a row.   *)
Create(t) ==
    /\ At(t, "new")
    /\ \E kind \in Kinds :
          ledger' = [ledger EXCEPT
                        ![t] = [kind |-> kind, status |-> "REQUESTED", id |-> FALSE]]
    /\ Goto(t, "ask")
    /\ UNCHANGED <<telco, called, handled>>

(* Mutant: the provider is asked before the row is written. *)
AskMutant(t) ==
    /\ request[t].pc \in {"new", "ask"}
    /\ telco[t] = "none"
    /\ telco' = [telco EXCEPT ![t] = "accepted"]
    /\ request' = [request EXCEPT ![t].ok = TRUE]
    /\ UNCHANGED <<ledger, called, handled>>

(* mobileCheckout and mobileB2C.  The provider accepts the request or not; *)
(* of an unruly one the answer may be lost.  A payout's answer has no id.       *)
Ask(t) ==
    /\ At(t, "ask")
    /\ \E accepted, ok, id \in BOOLEAN :
          /\ ok => accepted
          /\ id => accepted
          /\ t \in Unruly \/ (ok = accepted /\ id = accepted)
          /\ telco' = [telco EXCEPT ![t] = IF accepted THEN "accepted" ELSE @]
          /\ request' = [request EXCEPT ![t] =
                [pc |-> "answer", ok |-> ok,
                 id |-> id /\ ledger[t].kind = "CHECKOUT"]]
    /\ UNCHANGED <<ledger, called, handled>>

(* Mutant: an accepted request is taken for a success. *)
AnswerMutant(t) ==
    /\ At(t, "answer")
    /\ ledger' = [ledger EXCEPT
          ![t].status = IF request[t].ok THEN "SUCCESS" ELSE "FAILED",
          ![t].id = request[t].id]
    /\ Goto(t, "done")
    /\ UNCHANGED <<telco, called, handled>>

(* Mutant: the transaction id of a checkout is not stored. *)
AnswerNoIdMutant(t) ==
    /\ At(t, "answer")
    /\ ledger' = [ledger EXCEPT
          ![t].status = IF request[t].ok THEN "PENDING" ELSE "FAILED"]
    /\ Goto(t, "done")
    /\ UNCHANGED <<telco, called, handled>>

(* The answer is stored over the row as the request created it. *)
Answer(t) ==
    /\ At(t, "answer")
    /\ ledger' = [ledger EXCEPT
          ![t] = [kind |-> @.kind, id |-> request[t].id,
                  status |-> IF request[t].ok THEN "PENDING" ELSE "FAILED"]]
    /\ Goto(t, "done")
    /\ UNCHANGED <<telco, called, handled>>

(* The process dies, or the provider call or the update throws. *)
Die(t) ==
    /\ t \in Unruly
    /\ At(t, "ask") \/ At(t, "answer")
    /\ Goto(t, "done")
    /\ UNCHANGED <<ledger, telco, called, handled>>

(* The payer confirms, refuses or lets it expire. *)
Decide(t) ==
    /\ telco[t] = "accepted"
    /\ \E result \in Results : telco' = [telco EXCEPT ![t] = result]
    /\ UNCHANGED <<ledger, request, called, handled>>

(* What the provider may tell about a request now. *)
Told(t) ==
    IF t \in Unruly THEN {s \in {"PendingConfirmation", telco[t]} :
                        telco[t] # "none" /\ s # "accepted"}
    ELSE {s \in Results : telco[t] = s /\ t \notin called /\ At(t, "done")}

(* reconcileCallback: a callback for which no row is found is answered     *)
(* with Success and forgotten.                                             *)
CallbackFind(t) ==
    /\ \E status \in Told(t) :
          handled' = IF ledger[t].id
                     THEN handled \cup {[txn |-> t, status |-> status]}
                     ELSE handled
    /\ called' = IF t \in Unruly THEN called ELSE called \cup {t}
    /\ UNCHANGED <<ledger, request, telco>>

CallbackUpdate(c) ==
    /\ ledger' = [ledger EXCEPT ![c.txn].status = mapAtPaymentStatus(c.status)]
    /\ handled' = handled \ {c}
    /\ UNCHANGED <<request, telco, called>>

Requests == \E t \in Txns : Create(t) \/ Ask(t) \/ Answer(t) \/ Die(t)
Provider == \E t \in Txns : Decide(t)
Callbacks == (\E t \in Txns : CallbackFind(t))
             \/ (\E c \in handled : CallbackUpdate(c))

MoneyNext == Requests \/ Provider \/ Callbacks

(* A running process goes on; the orderly provider calls back in the end. *)
(* Nothing makes a payer confirm.                                         *)
Fairness ==
    /\ \A t \in Txns : /\ WF_moneyVars(Ask(t)) /\ WF_moneyVars(Answer(t))
                       /\ WF_moneyVars(CallbackFind(t))
    /\ \A c \in Callback : WF_moneyVars(c \in handled /\ CallbackUpdate(c))

MoneySpec == MoneyInit /\ [][MoneyNext]_moneyVars
FairMoneySpec == MoneySpec /\ Fairness
-----------------------------------------------------------------------------
(* Properties.                                                             *)

MoneyTypeOK ==
    /\ ledger \in [Txns -> [kind : Kinds \cup {"NONE"}, id : BOOLEAN,
                            status : Statuses \cup {"NO_ROW"}]]
    /\ request \in [Txns -> [pc : {"new", "ask", "answer", "done"},
                             ok : BOOLEAN, id : BOOLEAN]]
    /\ telco \in [Txns -> {"none", "accepted"} \cup Results]
    /\ called \in SUBSET Txns
    /\ handled \in SUBSET Callback

(* A row that says SUCCESS stands for money the provider really moved,     *)
(* whatever callbacks were lost, repeated or overtaken (reconcileCallback  *)
(* and mapAtPaymentStatus).                                                *)
SuccessIsReal ==
    \A t \in Txns : ledger[t].status = "SUCCESS" => telco[t] = "Success"

(* The provider never holds a request the ledger has no row for, also when *)
(* a process dies (requestCheckout writes the row before it asks).         *)
AskedIsRecorded ==
    \A t \in Txns : telco[t] # "none" => ledger[t].status # "NO_ROW"

(* The rows of orderly requests follow the payment status machine of the   *)
(* domain package, which no code enforces.                                 *)
OrderlyTxns == Txns \ Unruly

FSM == INSTANCE PaymentStatusFSM
          WITH Txns <- OrderlyTxns,
               status <- [t \in OrderlyTxns |-> ledger[t].status]
FollowsFSM == FSM!Spec

(* A confirmed checkout is SUCCESS in the ledger in the end, if its request *)
(* is orderly (requestCheckout's stored id, reconcileCallback).            *)
CheckoutSettles ==
    \A t \in OrderlyTxns : (ledger[t].kind = "CHECKOUT" /\ telco[t] = "Success")
                               ~> ledger[t].status = "SUCCESS"
=============================================================================
