---------------------------- MODULE LiveInvoices ----------------------------
(***************************************************************************)
(* What the invoice ledger promises: the invoices that are live, by ledger *)
(* id, at most one of them for a payment milestone.  It is the in-memory   *)
(* ledger of src/api/lib/invoiceLedgerStore.ts (whose operations contain   *)
(* no await before they write) with its void rows left out: issue treats a *)
(* void row as it treats no row.                                           *)
(***************************************************************************)
EXTENDS Integers

CONSTANTS
    Ledgers,      \* ledger ids
    Milestones,   \* payment milestones: a (basis_id, milestone_id) pair
    Amounts,      \* invoice amounts in cents
    None

VARIABLE live     \* the invoice that is live under a ledger id, or None

Invoice == [milestone : Milestones, amount : Amounts]

Init == live = [l \in Ledgers |-> None]

(* A ledger id takes an invoice only when it carries none and no other id  *)
(* carries the milestone.                                                  *)
Issue(l, invoice) ==
    /\ live[l] = None
    /\ \A other \in Ledgers :
          live[other] # None => live[other].milestone # invoice.milestone
    /\ live' = [live EXCEPT ![l] = invoice]

Void(l) ==
    /\ live[l] # None
    /\ live' = [live EXCEPT ![l] = None]

Next ==
    \E l \in Ledgers :
        \/ \E invoice \in Invoice : Issue(l, invoice)
        \/ Void(l)

Spec == Init /\ [][Next]_live
=============================================================================
