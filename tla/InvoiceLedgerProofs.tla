------------------------ MODULE InvoiceLedgerProofs ------------------------
(***************************************************************************)
(* Proofs about the invoice ledger, for any number of callers, ledger ids, *)
(* milestones and amounts.                                                 *)
(***************************************************************************)
EXTENDS InvoiceLedger, TLAPS

(* What a request knows of the table between two of its statements: rows   *)
(* are never deleted, so a row once seen is still there.                   *)
OpsReady ==
    \A r \in Requests :
        /\ op[r].pc \in {"insert", "read", "reissue"} =>
              /\ op[r].ledger \in Ledgers
              /\ op[r].doc \in Doc
              /\ op[r].doc.status = "issued"
        /\ op[r].pc = "readVoid" => op[r].ledger \in Ledgers
        /\ op[r].pc = "void" => op[r].ledger \in Ledgers /\ op[r].doc \in Doc
        /\ op[r].pc \in {"read", "reissue", "void"} => table[op[r].ledger] # None

(* The unique index.                                                       *)
IndexUnique ==
    \A l1, l2 \in Ledgers, m \in Milestones :
        HoldsMilestone(l1, m) /\ HoldsMilestone(l2, m) => l1 = l2

(* The inductive invariant.                                                *)
LedgerInv ==
    /\ TypeOK
    /\ OpsReady
    /\ LiveRowsAgree
    /\ IndexUnique

-----------------------------------------------------------------------------
LEMMA InitEstablishes == Init => LedgerInv
  BY DEF Init, LedgerInv, TypeOK, Op, Idle, Steps, OpsReady, LiveRowsAgree,
         IndexUnique, HoldsMilestone

(* Writing an invoice whose milestone no other row holds keeps the rows    *)
(* and the index in order.                                                 *)
LEMMA WritingKeeps ==
  ASSUME LedgerInv, NEW l \in Ledgers, NEW d \in Doc, d.status = "issued",
         ~MilestoneTaken(l, d.milestone),
         table' = [table EXCEPT ![l] = Written(d)]
  PROVE  /\ table' \in [Ledgers -> Row \cup {None}]
         /\ \A k \in Ledgers : table[k] # None => table'[k] # None
         /\ LiveRowsAgree'
         /\ IndexUnique'
  <1> USE DEF LedgerInv, TypeOK
  <1>1. Written(d) \in Row /\ Written(d) # None
    BY LedgerAssumption DEF Written, Row
  <1>2. table'[l] = Written(d) /\ \A k \in Ledgers \ {l} : table'[k] = table[k]
    OBVIOUS
  <1>3. table' \in [Ledgers -> Row \cup {None}]
    BY <1>1
  <1>4. LiveRowsAgree'
    BY <1>1, <1>2 DEF LiveRowsAgree, Active, Written
  <1>5. ASSUME NEW l1 \in Ledgers, NEW l2 \in Ledgers, NEW m \in Milestones,
               HoldsMilestone(l1, m)', HoldsMilestone(l2, m)'
        PROVE  l1 = l2
    <2>1. CASE l1 = l /\ l2 # l
      <3>1. m = d.milestone
        BY <2>1, <1>2, <1>5 DEF HoldsMilestone, Written
      <3>2. HoldsMilestone(l2, d.milestone)
        BY <2>1, <3>1, <1>2, <1>5 DEF HoldsMilestone
      <3>3. QED
        BY <2>1, <3>2 DEF MilestoneTaken, NeverTaken
    <2>2. CASE l2 = l /\ l1 # l
      <3>1. m = d.milestone
        BY <2>2, <1>2, <1>5 DEF HoldsMilestone, Written
      <3>2. HoldsMilestone(l1, d.milestone)
        BY <2>2, <3>1, <1>2, <1>5 DEF HoldsMilestone
      <3>3. QED
        BY <2>2, <3>2 DEF MilestoneTaken
    <2>3. CASE l1 # l /\ l2 # l
      BY <2>3, <1>2, <1>5 DEF HoldsMilestone, IndexUnique
    <2>4. QED
      BY <2>1, <2>2, <2>3
  <1>6. QED
    BY <1>1, <1>2, <1>3, <1>4, <1>5 DEF IndexUnique

(* A step that leaves the table alone and moves one request into a state   *)
(* it is ready for.                                                        *)
LEMMA MovingKeeps ==
  ASSUME LedgerInv, UNCHANGED table, NEW r \in Requests, NEW o \in Op,
         op' = [op EXCEPT ![r] = o],
         o.pc \in {"insert", "read", "reissue"} =>
            o.ledger \in Ledgers /\ o.doc \in Doc /\ o.doc.status = "issued",
         o.pc \in {"readVoid", "void"} => o.ledger \in Ledgers,
         o.pc = "void" => o.doc \in Doc,
         o.pc \in {"read", "reissue", "void"} => table[o.ledger] # None
  PROVE  LedgerInv'
  <1> USE DEF LedgerInv
  <1>1. TypeOK'
    BY DEF TypeOK
  <1>2. OpsReady'
    BY DEF TypeOK, OpsReady
  <1>3. LiveRowsAgree' /\ IndexUnique'
    BY DEF LiveRowsAgree, Active, IndexUnique, HoldsMilestone
  <1>4. QED
    BY <1>1, <1>2, <1>3

(* The statements that write an invoice: INSERT and the re-issuing UPDATE. *)
LEMMA WritersKeep ==
  ASSUME LedgerInv, NEW r \in Requests, op[r].pc \in {"insert", "reissue"},
         ~MilestoneTaken(op[r].ledger, op[r].doc.milestone),
         table' = [table EXCEPT ![op[r].ledger] = Written(op[r].doc)],
         Goto(r, "issued")
  PROVE  LedgerInv'
  <1> USE DEF LedgerInv
  <1>1. op[r].ledger \in Ledgers /\ op[r].doc \in Doc /\ op[r].doc.status = "issued"
    BY DEF OpsReady
  <1>2. /\ table' \in [Ledgers -> Row \cup {None}]
        /\ \A k \in Ledgers : table[k] # None => table'[k] # None
        /\ LiveRowsAgree'
        /\ IndexUnique'
    BY <1>1, WritingKeeps
  <1>3. TypeOK'
    BY <1>2 DEF TypeOK, Goto, Op, Answers
  <1>4. OpsReady'
    BY <1>2 DEF OpsReady, Goto, TypeOK
  <1>5. QED
    BY <1>2, <1>3, <1>4

LEMMA VoidKeeps ==
  ASSUME LedgerInv, NEW r \in Requests, VoidRow(r)
  PROVE  LedgerInv'
  <1> DEFINE l == op[r].ledger
             c == [table[l].cols EXCEPT !.status = "void"]
             v == [op[r].doc EXCEPT !.status = "void"]
             row == [cols |-> c, ledger_row |-> v]
  <1> USE DEF LedgerInv
  <1>1. l \in Ledgers /\ op[r].doc \in Doc /\ table[l] # None /\ table[l] \in Row
    BY DEF VoidRow, OpsReady, TypeOK
  <1>2. /\ c \in Doc /\ c.status = "void"
        /\ v \in Doc /\ v.status = "void"
    BY <1>1 DEF Doc, Row
  <1>3. row \in Row /\ row # None /\ row.cols = c /\ row.ledger_row = v
    BY <1>2, LedgerAssumption DEF Row
  <1>4. table' = [table EXCEPT ![l] = row]
    BY DEF VoidRow
  <1>5. /\ table' \in [Ledgers -> Row \cup {None}]
        /\ table'[l] = row
        /\ \A k \in Ledgers \ {l} : table'[k] = table[k]
    <2> HIDE DEF row
    <2>1. QED
      BY <1>1, <1>3, <1>4 DEF TypeOK
  <1> HIDE DEF row, c, v
  <1>6. TypeOK'
    BY <1>5 DEF TypeOK, VoidRow, Goto, Op, Answers
  <1>7. OpsReady'
    <2>1. \A k \in Ledgers : table[k] # None => table'[k] # None
      BY <1>3, <1>5
    <2>2. op' = [op EXCEPT ![r].pc = "voided"]
      BY DEF VoidRow, Goto
    <2>3. QED
      BY <2>1, <2>2 DEF OpsReady, TypeOK
  <1>8. LiveRowsAgree'
    BY <1>2, <1>3, <1>5 DEF LiveRowsAgree, Active
  <1>9. IndexUnique'
    BY <1>2, <1>3, <1>5 DEF IndexUnique, HoldsMilestone
  <1>10. QED
    BY <1>6, <1>7, <1>8, <1>9

(* The inductive step.                                                     *)
LEMMA StepKeeps == LedgerInv /\ [Next]_vars => LedgerInv'
  <1> SUFFICES ASSUME LedgerInv, [Next]_vars PROVE LedgerInv'
    OBVIOUS
  <1> USE DEF LedgerInv
  <1>1. ASSUME NEW r \in Requests, NEW l \in Ledgers, NEW m \in Milestones,
               NEW a \in Amounts, CallIssue(r, l, m, a)
        PROVE  LedgerInv'
    <2> DEFINE o == [pc |-> "insert", ledger |-> l,
                     doc |-> [milestone |-> m, amount |-> a, status |-> "issued"]]
    <2>1. o \in Op /\ o.doc \in Doc /\ o.doc.status = "issued"
      BY DEF Op, Steps, Doc
    <2>2. QED
      BY <1>1, <2>1, MovingKeeps DEF CallIssue
  <1>2. ASSUME NEW r \in Requests, NEW l \in Ledgers, CallVoid(r, l)
        PROVE  LedgerInv'
    <2> DEFINE o == [pc |-> "readVoid", ledger |-> l, doc |-> None]
    <2>1. o \in Op
      BY DEF Op, Steps
    <2>2. QED
      BY <1>2, <2>1, MovingKeeps DEF CallVoid
  <1>3. ASSUME NEW r \in Requests, InsertRow(r)
        PROVE  LedgerInv'
    <2>1. op[r].ledger \in Ledgers /\ op[r].doc \in Doc /\ op[r].doc.status = "issued"
      BY <1>3 DEF InsertRow, OpsReady
    <2>2. ASSUME NEW s \in {"read", "conflict"}, UNCHANGED table, Goto(r, s),
                 s = "read" => table[op[r].ledger] # None
          PROVE  LedgerInv'
      <3> DEFINE o == [op[r] EXCEPT !.pc = s]
      <3>1. o \in Op /\ op' = [op EXCEPT ![r] = o]
        BY <2>2 DEF TypeOK, Op, Steps, Answers, Goto
      <3>2. o.pc = s /\ o.ledger = op[r].ledger /\ o.doc = op[r].doc
        BY DEF TypeOK, Op
      <3>3. QED
        BY <2>1, <2>2, <3>1, <3>2, MovingKeeps
    <2>3. QED
      BY <1>3, <2>2, WritersKeep DEF InsertRow
  <1>4. ASSUME NEW r \in Requests, ReadExisting(r)
        PROVE  LedgerInv'
    <2> DEFINE s == IF table[op[r].ledger] # None /\ ~Active(op[r].ledger)
                    THEN "reissue" ELSE "conflict"
               o == [op[r] EXCEPT !.pc = s]
    <2>1. /\ op[r].ledger \in Ledgers /\ op[r].doc \in Doc
          /\ op[r].doc.status = "issued" /\ table[op[r].ledger] # None
      BY <1>4 DEF ReadExisting, OpsReady
    <2>2. o \in Op /\ op' = [op EXCEPT ![r] = o]
      BY <1>4 DEF ReadExisting, TypeOK, Op, Steps, Answers, Goto
    <2>3. o.pc = s /\ o.ledger = op[r].ledger /\ o.doc = op[r].doc
      BY DEF TypeOK, Op
    <2>4. QED
      BY <1>4, <2>1, <2>2, <2>3, MovingKeeps DEF ReadExisting
  <1>5. ASSUME NEW r \in Requests, ReissueRow(r)
        PROVE  LedgerInv'
    <2>1. ASSUME NEW s \in {"conflict", "error"}, UNCHANGED table, Goto(r, s)
          PROVE  LedgerInv'
      <3> DEFINE o == [op[r] EXCEPT !.pc = s]
      <3>1. o \in Op /\ op' = [op EXCEPT ![r] = o] /\ o.pc = s
        BY <2>1 DEF TypeOK, Op, Steps, Answers, Goto
      <3>2. QED
        BY <2>1, <3>1, MovingKeeps
    <2>2. QED
      BY <1>5, <2>1, WritersKeep DEF ReissueRow
  <1>6. ASSUME NEW r \in Requests, ReadForVoid(r)
        PROVE  LedgerInv'
    <2>1. op[r].ledger \in Ledgers
      BY <1>6 DEF ReadForVoid, OpsReady
    <2>2. CASE table[op[r].ledger] = None
      <3> DEFINE o == [op[r] EXCEPT !.pc = "missing"]
      <3>1. o \in Op /\ op' = [op EXCEPT ![r] = o] /\ o.pc = "missing"
        BY <1>6, <2>2 DEF ReadForVoid, TypeOK, Op, Steps, Answers
      <3>2. QED
        BY <1>6, <3>1, MovingKeeps DEF ReadForVoid
    <2>3. CASE table[op[r].ledger] # None
      <3> DEFINE o == [op[r] EXCEPT !.pc = "void",
                                    !.doc = table[op[r].ledger].ledger_row]
      <3>1. table[op[r].ledger].ledger_row \in Doc
        BY <2>1, <2>3 DEF TypeOK, Row
      <3>2. o \in Op /\ op' = [op EXCEPT ![r] = o]
        BY <1>6, <2>3, <3>1 DEF ReadForVoid, TypeOK, Op, Steps
      <3>3. /\ o.pc = "void" /\ o.ledger = op[r].ledger
            /\ o.doc = table[op[r].ledger].ledger_row
        BY DEF TypeOK, Op
      <3>4. QED
        BY <1>6, <2>1, <2>3, <3>1, <3>2, <3>3, MovingKeeps DEF ReadForVoid
    <2>4. QED
      BY <2>2, <2>3
  <1>7. ASSUME NEW r \in Requests, VoidRow(r)
        PROVE  LedgerInv'
    BY <1>7, VoidKeeps
  <1>8. ASSUME NEW r \in Requests, End(r)
        PROVE  LedgerInv'
    <2>1. Idle \in Op /\ Idle.pc = "idle"
      BY DEF Idle, Op, Steps
    <2>2. QED
      BY <1>8, <2>1, MovingKeeps DEF End
  <1>9. CASE UNCHANGED vars
    BY <1>9 DEF vars, TypeOK, OpsReady, LiveRowsAgree, Active, IndexUnique,
                HoldsMilestone
  <1>10. QED
    BY <1>1, <1>2, <1>3, <1>4, <1>5, <1>6, <1>7, <1>8, <1>9 DEF Next, StoreStep

-----------------------------------------------------------------------------
THEOREM InvariantHolds == Spec => []LedgerInv
  BY InitEstablishes, StepKeeps, PTL DEF Spec

(* The types of the table and of the requests.                             *)
THEOREM TypesHold == Spec => []TypeOK
  <1>1. LedgerInv => TypeOK
    BY DEF LedgerInv
  <1>2. QED
    BY <1>1, InvariantHolds, PTL

(* The two copies of a live row agree, whatever voids and issues overlap.  *)
THEOREM CopiesAgree == Spec => []LiveRowsAgree
  <1>1. LedgerInv => LiveRowsAgree
    BY DEF LedgerInv
  <1>2. QED
    BY <1>1, InvariantHolds, PTL

LEMMA UniqueInLedgerRows == LedgerInv => OneLiveInvoicePerMilestone
  <1> SUFFICES ASSUME LedgerInv, NEW l1 \in Ledgers, NEW l2 \in Ledgers,
                      Active(l1), Active(l2),
                      table[l1].ledger_row.milestone = table[l2].ledger_row.milestone
               PROVE  l1 = l2
    BY DEF OneLiveInvoicePerMilestone
  <1> DEFINE m == table[l1].ledger_row.milestone
  <1>1. m \in Milestones
    BY DEF LedgerInv, TypeOK, Active, Row, Doc
  <1>2. HoldsMilestone(l1, m) /\ HoldsMilestone(l2, m)
    BY DEF LedgerInv, LiveRowsAgree, HoldsMilestone, Active
  <1>3. QED
    BY <1>1, <1>2 DEF LedgerInv, IndexUnique

(* No payment milestone is ever billed by two live invoices.               *)
THEOREM OneLiveInvoice == Spec => []OneLiveInvoicePerMilestone
  BY UniqueInLedgerRows, InvariantHolds, PTL

-----------------------------------------------------------------------------
(* A request that is answered "conflict" is answered so by its own step.   *)
LEMMA ConflictStep ==
  ASSUME LedgerInv, [Next]_vars, NEW r \in Requests,
         op[r].pc # "conflict", op'[r].pc = "conflict"
  PROVE  InsertRow(r) \/ ReadExisting(r) \/ ReissueRow(r)
  <1> USE DEF LedgerInv, TypeOK
  <1>1. ASSUME NEW q \in Requests, q # r,
               StoreStep(q) \/ End(q)
                 \/ \E l \in Ledgers :
                       \/ CallVoid(q, l)
                       \/ \E m \in Milestones, a \in Amounts : CallIssue(q, l, m, a)
        PROVE  op'[r] = op[r]
    BY <1>1 DEF StoreStep, InsertRow, ReadExisting, ReissueRow, ReadForVoid,
                VoidRow, End, CallVoid, CallIssue, Goto
  <1>2. CASE ReadForVoid(r) \/ VoidRow(r) \/ End(r)
    BY <1>2 DEF ReadForVoid, VoidRow, End, Goto, Idle, Op
  <1>3. ASSUME NEW l \in Ledgers,
               CallVoid(r, l)
                 \/ \E m \in Milestones, a \in Amounts : CallIssue(r, l, m, a)
        PROVE  op'[r].pc # "conflict"
    BY <1>3 DEF CallVoid, CallIssue
  <1>4. CASE UNCHANGED vars
    BY <1>4 DEF vars
  <1>5. QED
    BY <1>1, <1>2, <1>3, <1>4 DEF Next, StoreStep

(* An earned conflict, before the quantifier and the box.                  *)
LEMMA ConflictEarned ==
  ASSUME LedgerInv, [Next]_vars, NEW r \in Requests,
         op[r].pc # "conflict", op'[r].pc = "conflict"
  PROVE  \E l \in Ledgers :
            /\ Active(l)
            /\ \/ l = op[r].ledger
               \/ table[l].ledger_row.milestone = op[r].doc.milestone
  <1> USE DEF LedgerInv
  <1>1. CASE InsertRow(r)
    <2>1. MilestoneTaken(op[r].ledger, op[r].doc.milestone)
      BY <1>1 DEF InsertRow, Goto, TypeOK, Op
    <2>2. PICK l \in Ledgers : HoldsMilestone(l, op[r].doc.milestone)
      BY <2>1 DEF MilestoneTaken
    <2>3. Active(l) /\ table[l].ledger_row.milestone = op[r].doc.milestone
      BY <2>2 DEF HoldsMilestone, LiveRowsAgree, Active, TypeOK, Row, Doc
    <2>4. QED
      BY <2>3
  <1>2. CASE ReadExisting(r)
    <2>1. op'[r].pc # "reissue"
      OBVIOUS
    <2>2. op[r].ledger \in Ledgers /\ Active(op[r].ledger)
      BY <1>2, <2>1 DEF ReadExisting, OpsReady, Goto, TypeOK, Op
    <2>3. QED
      BY <2>2
  <1>3. CASE ReissueRow(r)
    <2>1. /\ op[r].ledger \in Ledgers /\ table[op[r].ledger] # None
          /\ table[op[r].ledger].cols.status # "void"
      BY <1>3 DEF ReissueRow, OpsReady, Goto, TypeOK, Op
    <2>2. Active(op[r].ledger)
      BY <2>1 DEF LiveRowsAgree, Active, TypeOK, Row, Doc
    <2>3. QED
      BY <2>1, <2>2
  <1>4. QED
    BY <1>1, <1>2, <1>3, ConflictStep

(* milestone_already_issued is never answered for a milestone nobody has   *)
(* billed, under an id that carries no live invoice.                       *)
THEOREM ConflictsEarned == Spec => ConflictsAreEarned
  <1>1. LedgerInv /\ [Next]_vars =>
          [\A r \in Requests :
             op[r].pc # "conflict" /\ op'[r].pc = "conflict" =>
               \E l \in Ledgers :
                  /\ Active(l)
                  /\ \/ l = op[r].ledger
                     \/ table[l].ledger_row.milestone = op[r].doc.milestone]_vars
    BY ConflictEarned
  <1>2. QED
    BY <1>1, InvariantHolds, PTL DEF Spec, ConflictsAreEarned

-----------------------------------------------------------------------------
(* The refinement mapping as a function on ledger ids.                     *)
Mapped == [l \in Ledgers |-> LiveInvoice(l)]

(* Writing an issued invoice where none is live is the abstract Issue.     *)
LEMMA WritingIsIssuing ==
  ASSUME LedgerInv, NEW l \in Ledgers, NEW d \in Doc, d.status = "issued",
         ~Active(l), ~MilestoneTaken(l, d.milestone),
         table' = [table EXCEPT ![l] = Written(d)]
  PROVE  Promise!Next
  <1> DEFINE inv == [milestone |-> d.milestone, amount |-> d.amount]
  <1> USE DEF LedgerInv
  <1>1. inv \in Promise!Invoice
    BY DEF Promise!Invoice, Doc
  <1>2. table'[l] = Written(d) /\ \A k \in Ledgers \ {l} : table'[k] = table[k]
    BY DEF TypeOK
  <1>3. Written(d) # None /\ Written(d).ledger_row = d
    BY LedgerAssumption DEF Written, Row
  <1>4. LiveInvoice(l) = None /\ LiveInvoice(l)' = inv
    BY <1>2, <1>3 DEF LiveInvoice, Active
  <1>5. \A k \in Ledgers \ {l} : LiveInvoice(k)' = LiveInvoice(k)
    BY <1>2 DEF LiveInvoice, Active
  <1>6. ASSUME NEW k \in Ledgers, LiveInvoice(k) # None
        PROVE  LiveInvoice(k).milestone # d.milestone
    <2>1. k # l /\ Active(k)
      BY <1>4, <1>6 DEF LiveInvoice
    <2>2. HoldsMilestone(k, table[k].ledger_row.milestone)
      BY <2>1 DEF Active, LiveRowsAgree, HoldsMilestone
    <2>3. LiveInvoice(k).milestone = table[k].ledger_row.milestone
      BY <2>1 DEF LiveInvoice
    <2>4. QED
      BY <2>1, <2>2, <2>3 DEF MilestoneTaken
  <1>7. Mapped' = [Mapped EXCEPT ![l] = inv]
    BY <1>4, <1>5 DEF Mapped
  <1>8. Promise!Issue(l, inv)
    BY <1>4, <1>6, <1>7 DEF Promise!Issue, Mapped
  <1>9. QED
    BY <1>1, <1>8 DEF Promise!Next

(* Voiding a row is the abstract Void, or nothing when it was void already. *)
LEMMA VoidedIsVoid ==
  ASSUME LedgerInv, NEW l \in Ledgers, NEW row, row.ledger_row.status = "void",
         table' = [table EXCEPT ![l] = row]
  PROVE  Promise!Next \/ Mapped' = Mapped
  <1>1. table'[l] = row /\ \A k \in Ledgers \ {l} : table'[k] = table[k]
    BY DEF LedgerInv, TypeOK
  <1>2. LiveInvoice(l)' = None
    BY <1>1 DEF LiveInvoice, Active
  <1>3. \A k \in Ledgers \ {l} : LiveInvoice(k)' = LiveInvoice(k)
    BY <1>1 DEF LiveInvoice, Active
  <1>4. CASE LiveInvoice(l) = None
    BY <1>2, <1>3, <1>4 DEF Mapped
  <1>5. CASE LiveInvoice(l) # None
    <2>1. Mapped' = [Mapped EXCEPT ![l] = None]
      BY <1>2, <1>3 DEF Mapped
    <2>2. Promise!Void(l)
      BY <1>5, <2>1 DEF Promise!Void, Mapped
    <2>3. QED
      BY <2>2 DEF Promise!Next
  <1>6. QED
    BY <1>4, <1>5

LEMMA VoidRefines ==
  ASSUME LedgerInv, NEW r \in Requests, VoidRow(r)
  PROVE  Promise!Next \/ Mapped' = Mapped
  <1> DEFINE row == [cols |-> [table[op[r].ledger].cols EXCEPT !.status = "void"],
                     ledger_row |-> [op[r].doc EXCEPT !.status = "void"]]
  <1>1. op[r].ledger \in Ledgers /\ op[r].doc \in Doc
    BY DEF VoidRow, LedgerInv, OpsReady
  <1>2. row.ledger_row.status = "void"
    BY <1>1 DEF Doc
  <1>3. table' = [table EXCEPT ![op[r].ledger] = row]
    BY DEF VoidRow
  <1> HIDE DEF row
  <1>4. QED
    BY <1>1, <1>2, <1>3, VoidedIsVoid

LEMMA StepRefines ==
  ASSUME LedgerInv, [Next]_vars
  PROVE  Promise!Next \/ Mapped' = Mapped
  <1> USE DEF LedgerInv
  <1>1. ASSUME UNCHANGED table
        PROVE  Mapped' = Mapped
    BY <1>1 DEF Mapped, LiveInvoice, Active
  <1>2. ASSUME NEW r \in Requests, InsertRow(r), table' # table
        PROVE  Promise!Next
    <2>1. /\ op[r].ledger \in Ledgers /\ op[r].doc \in Doc
          /\ op[r].doc.status = "issued"
      BY <1>2 DEF InsertRow, OpsReady
    <2>2. /\ table[op[r].ledger] = None
          /\ ~MilestoneTaken(op[r].ledger, op[r].doc.milestone)
          /\ table' = [table EXCEPT ![op[r].ledger] = Written(op[r].doc)]
      BY <1>2 DEF InsertRow
    <2>3. QED
      BY <2>1, <2>2, WritingIsIssuing DEF Active
  <1>3. ASSUME NEW r \in Requests, ReissueRow(r), table' # table
        PROVE  Promise!Next
    <2>1. /\ op[r].ledger \in Ledgers /\ op[r].doc \in Doc
          /\ op[r].doc.status = "issued" /\ table[op[r].ledger] # None
      BY <1>3 DEF ReissueRow, OpsReady
    <2>2. /\ table[op[r].ledger].cols.status = "void"
          /\ ~MilestoneTaken(op[r].ledger, op[r].doc.milestone)
          /\ table' = [table EXCEPT ![op[r].ledger] = Written(op[r].doc)]
      BY <1>3 DEF ReissueRow
    <2>3. ~Active(op[r].ledger)
      BY <2>1, <2>2 DEF LiveRowsAgree, Active
    <2>4. QED
      BY <2>1, <2>2, <2>3, WritingIsIssuing
  <1>4. CASE UNCHANGED vars
    BY <1>1, <1>4 DEF vars
  <1>5. QED
    BY <1>1, <1>2, <1>3, <1>4, VoidRefines
       DEF Next, StoreStep, ReadExisting, ReadForVoid, End, CallVoid, CallIssue

(* The ledger of SQL statements implements the atomic ledger.              *)
THEOREM LedgerRefines == Spec => KeepsThePromise
  <1>1. Init => Promise!Init
    BY DEF Init, Promise!Init, LiveInvoice, Active
  <1>2. LedgerInv /\ [Next]_vars => [Promise!Next]_Mapped
    BY StepRefines
  <1>3. QED
    BY <1>1, <1>2, InvariantHolds, PTL DEF Spec, KeepsThePromise, Promise!Spec, Mapped
=============================================================================
