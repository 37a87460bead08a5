--------------------------- MODULE MCTenantInvoices ---------------------------
(* Small instances of the finance service's invoices: one of either book. *)
EXTENDS TenantInvoices, TLC

(* A caller's own idempotency key. *)
MCClientKeys == {<<"client", 1>>}

(* Overdue by no day, within the grace period, and beyond the first notice. *)
MCDays == {0, 1, 15}

Symmetry == Permutations(Handlers)
=============================================================================
