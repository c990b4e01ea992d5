--------------------------- MODULE MCInvoiceLedger ---------------------------
(* A small store: three callers, two ledger ids, two milestones.            *)
EXTENDS InvoiceLedger, TLC

CallerSymmetry == Permutations(Requests)
==============================================================================
