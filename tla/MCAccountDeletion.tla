--------------------------- MODULE MCAccountDeletion ---------------------------
(* A small instance of the deletion of accounts: two tenants, the erasure of  *)
(* the second of which throws every time.                                     *)
EXTENDS AccountDeletion

CONSTANTS a1, a2, t1, t2

Tenancy == [a \in Accounts |-> IF a = a2 THEN t2 ELSE t1]
=============================================================================
