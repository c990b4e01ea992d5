--------------------------- MODULE InvoiceLedger ---------------------------
(***************************************************************************)
(* The Postgres invoice ledger of src/api/lib/invoiceLedgerStore.ts.  A    *)
(* request runs one operation of the store; every SQL statement is a step  *)
(* of its own, and the steps of different requests interleave between      *)
(* them.  A request may also stop after any step: the server process is    *)
(* stopped and started at will (fly.toml auto_stop_machines), a connection *)
(* breaks, or the answer is simply delivered.  Nothing but the table       *)
(* survives that.                                                          *)
(*                                                                         *)
(* A row of right_hand_invoice_ledger keeps each fact twice: in columns,   *)
(* which the unique indexes and the WHERE clauses read, and in the jsonb   *)
(* ledger_row, which every reader and every sum is computed from.          *)
(***************************************************************************)
EXTENDS Integers

CONSTANTS
    Requests,     \* concurrent callers of the store
    Ledgers,      \* ledger ids, the primary key
    Milestones,   \* (basis_id, milestone_id) pairs, the partial unique index
    Amounts,      \* amount_cents a caller asks for
    None

VARIABLES
    table,        \* right_hand_invoice_ledger
    op            \* the operation each request runs

vars == <<table, op>>

-----------------------------------------------------------------------------
(* The invoice a row describes; a row holds one in its columns and one in  *)
(* its ledger_row.                                                         *)
Doc == [milestone : Milestones, amount : Amounts, status : {"issued", "void"}]

Row == [cols : Doc, ledger_row : Doc]

ASSUME LedgerAssumption ==
    /\ Amounts \subseteq Nat \ {0}
    /\ None \notin Doc \cup Row \cup [milestone : Milestones, amount : Amounts]

(* Where a request stands.  "insert", "read", "reissue": inside issue.     *)
(* "readVoid", "void": inside void.  The others are its answers; "error"   *)
(* is a unique violation (23505) that no catch turned into a conflict.     *)
Steps == {"idle", "insert", "read", "reissue", "readVoid", "void"}
Answers == {"issued", "conflict", "error", "voided", "missing"}

Op == [pc : Steps \cup Answers, ledger : Ledgers \cup {None},
       doc : Doc \cup {None}]

Idle == [pc |-> "idle", ledger |-> None, doc |-> None]

Written(doc) == [cols |-> doc, ledger_row |-> doc]

(* The partial unique index: WHERE status <> 'void', on the columns.       *)
HoldsMilestone(l, m) ==
    /\ table[l] # None
    /\ table[l].cols.milestone = m
    /\ table[l].cols.status # "void"

NeverTaken(l, m) == FALSE

MilestoneTaken(l, m) == \E other \in Ledgers \ {l} : HoldsMilestone(other, m)

(* What sums and reads call active: the status inside ledger_row.          *)
Active(l) == table[l] # None /\ table[l].ledger_row.status = "issued"

ActiveAmount(l) == IF Active(l) THEN table[l].ledger_row.amount ELSE 0

Goto(r, step) == op' = [op EXCEPT ![r].pc = step]

-----------------------------------------------------------------------------
Init ==
    /\ table = [l \in Ledgers |-> None]
    /\ op = [r \in Requests |-> Idle]

CallIssue(r, l, m, amount) ==
    /\ op[r] = Idle
    /\ op' = [op EXCEPT ![r] =
                [pc |-> "insert", ledger |-> l,
                 doc |-> [milestone |-> m, amount |-> amount,
                          status |-> "issued"]]]
    /\ UNCHANGED table

(* INSERT ... ON CONFLICT (tenant_id, ledger_id) DO NOTHING: a row under   *)
(* the same id is left alone and the request goes on to read it; a clash   *)
(* on the milestone index raises 23505, which issue turns into a conflict. *)
InsertRow(r) ==
    /\ op[r].pc = "insert"
    /\ LET l == op[r].ledger IN
       \/ /\ table[l] # None
          /\ Goto(r, "read")
          /\ UNCHANGED table
       \/ /\ table[l] = None
          /\ MilestoneTaken(l, op[r].doc.milestone)
          /\ Goto(r, "conflict")
          /\ UNCHANGED table
       \/ /\ table[l] = None
          /\ ~MilestoneTaken(l, op[r].doc.milestone)
          /\ table' = [table EXCEPT ![l] = Written(op[r].doc)]
          /\ Goto(r, "issued")

ReadExistingBlind(r) ==
    /\ op[r].pc = "read"
    /\ Goto(r, "conflict")
    /\ UNCHANGED table

(* The existing row decides: only a void one may be issued again.          *)
ReadExisting(r) ==
    /\ op[r].pc = "read"
    /\ IF table[op[r].ledger] # None /\ ~Active(op[r].ledger)
       THEN Goto(r, "reissue")
       ELSE Goto(r, "conflict")
    /\ UNCHANGED table

ReissueAnyRow(r) ==
    /\ op[r].pc = "reissue"
    /\ table' = [table EXCEPT ![op[r].ledger] = Written(op[r].doc)]
    /\ Goto(r, "issued")

(* UPDATE ... WHERE status = 'void': no row when another request re-issued *)
(* it first.  A clash on the milestone index is not caught here.           *)
ReissueRow(r) ==
    /\ op[r].pc = "reissue"
    /\ LET l == op[r].ledger IN
       \/ /\ table[l].cols.status # "void"
          /\ Goto(r, "conflict")
          /\ UNCHANGED table
       \/ /\ table[l].cols.status = "void"
          /\ MilestoneTaken(l, op[r].doc.milestone)
          /\ Goto(r, "error")
          /\ UNCHANGED table
       \/ /\ table[l].cols.status = "void"
          /\ ~MilestoneTaken(l, op[r].doc.milestone)
          /\ table' = [table EXCEPT ![l] = Written(op[r].doc)]
          /\ Goto(r, "issued")

CallVoid(r, l) ==
    /\ op[r] = Idle
    /\ op' = [op EXCEPT ![r] = [pc |-> "readVoid", ledger |-> l, doc |-> None]]
    /\ UNCHANGED table

ReadForVoid(r) ==
    /\ op[r].pc = "readVoid"
    /\ op' = IF table[op[r].ledger] = None
             THEN [op EXCEPT ![r].pc = "missing"]
             ELSE [op EXCEPT ![r].pc = "void",
                             ![r].doc = table[op[r].ledger].ledger_row]
    /\ UNCHANGED table

VoidColumnOnly(r) ==
    /\ op[r].pc = "void"
    /\ table' = [table EXCEPT ![op[r].ledger].cols.status = "void"]
    /\ Goto(r, "voided")

VoidAndZero(r) ==
    /\ op[r].pc = "void"
    /\ table' = [table EXCEPT ![op[r].ledger] =
                   [cols |-> [@.cols EXCEPT !.status = "void"],
                    ledger_row |-> [op[r].doc EXCEPT !.status = "void",
                                                     !.amount = 0]]]
    /\ Goto(r, "voided")

(* The UPDATE has no condition on the status: it writes the void column    *)
(* and the ledger_row the request read, whatever the row has become.       *)
VoidRow(r) ==
    /\ op[r].pc = "void"
    /\ table' = [table EXCEPT ![op[r].ledger] =
                   [cols |-> [@.cols EXCEPT !.status = "void"],
                    ledger_row |-> [op[r].doc EXCEPT !.status = "void"]]]
    /\ Goto(r, "voided")

(* The answer reaches the caller, or the request dies where it stands.     *)
End(r) ==
    /\ op[r] # Idle
    /\ op' = [op EXCEPT ![r] = Idle]
    /\ UNCHANGED table

StoreStep(r) ==
    \/ InsertRow(r)
    \/ ReadExisting(r)
    \/ ReissueRow(r)
    \/ ReadForVoid(r)
    \/ VoidRow(r)

Next ==
    \E r \in Requests :
        \/ StoreStep(r)
        \/ End(r)
        \/ \E l \in Ledgers :
              \/ CallVoid(r, l)
              \/ \E m \in Milestones, a \in Amounts : CallIssue(r, l, m, a)

Spec == Init /\ [][Next]_vars

-----------------------------------------------------------------------------
TypeOK ==
    /\ table \in [Ledgers -> Row \cup {None}]
    /\ op \in [Requests -> Op]

(* However issues and voids interleave, a payment milestone never has two  *)
(* invoices that the sums count, under any two ledger ids                  *)
(* (right_hand_invoice_ledger_live_milestone_idx works on the columns, the *)
(* sums on ledger_row).                                                    *)
OneLiveInvoicePerMilestone ==
    \A l1, l2 \in Ledgers :
        /\ Active(l1) /\ Active(l2)
        /\ table[l1].ledger_row.milestone = table[l2].ledger_row.milestone
        => l1 = l2

(* The two copies of a row agree on what matters: on whether it is live,   *)
(* and, while it is, on everything.  A void that overlaps another void and *)
(* a new issue leaves a stale ledger_row behind, so a void row's copies    *)
(* need not agree.                                                         *)
LiveRowsAgree ==
    \A l \in Ledgers : table[l] # None =>
        /\ table[l].cols.status = table[l].ledger_row.status
        /\ Active(l) => table[l].cols = table[l].ledger_row

(* milestone_already_issued is an honest answer: when a request gets it,   *)
(* an invoice is live under its ledger id or for its milestone.            *)
ConflictsAreEarned ==
    [][\A r \in Requests :
          op[r].pc # "conflict" /\ op'[r].pc = "conflict" =>
              \E l \in Ledgers :
                  /\ Active(l)
                  /\ \/ l = op[r].ledger
                     \/ table[l].ledger_row.milestone = op[r].doc.milestone]_vars

(* Every interleaving of the statements is an interleaving of atomic       *)
(* issues and voids: the SQL ledger implements LiveInvoices, the in-memory *)
(* one the tests run against.                                              *)
LiveInvoice(l) ==
    IF Active(l)
    THEN [milestone |-> table[l].ledger_row.milestone,
          amount |-> table[l].ledger_row.amount]
    ELSE None

Promise == INSTANCE LiveInvoices WITH live <- [l \in Ledgers |-> LiveInvoice(l)]

KeepsThePromise == Promise!Spec
=============================================================================
