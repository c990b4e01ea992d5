--------------------------- MODULE MCInvoiceIssue ---------------------------
EXTENDS InvoiceIssue, TLC

MCLedgers == Estimates \X Kinds
MCAmounts == 1..30
CallerSymmetry == Permutations(Requests)
=============================================================================
