--------------------------- MODULE PaymentStatusFSM ---------------------------
(***************************************************************************)
(* The payment status machine of packages/domain: what the status of a     *)
(* ledger row may do, row by row.  The API service is meant to follow it.  *)
(***************************************************************************)
CONSTANT Txns       \* the rows of the payment ledger

VARIABLE status     \* the status of every row; NoRow before it exists

NoRow == "NO_ROW"
PAYMENT_STATUSES == {"REQUESTED", "PENDING", "SUCCESS", "FAILED"}

NEXT == [REQUESTED |-> {"PENDING", "FAILED"},
         PENDING   |-> {"SUCCESS", "FAILED"},
         SUCCESS   |-> {},
         FAILED    |-> {}]

canTransitionPayment(from, to) ==
    from \in PAYMENT_STATUSES /\ to \in NEXT[from]

isTerminalPayment(s) == s \in {"SUCCESS", "FAILED"}

Init == status = [t \in Txns |-> NoRow]

Create(t) ==
    /\ status[t] = NoRow
    /\ status' = [status EXCEPT ![t] = "REQUESTED"]

Move(t) ==
    \E to \in PAYMENT_STATUSES :
        /\ canTransitionPayment(status[t], to)
        /\ status' = [status EXCEPT ![t] = to]

Next == \E t \in Txns : Create(t) \/ Move(t)

Spec == Init /\ [][Next]_status
=============================================================================
