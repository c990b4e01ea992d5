-------------------------- MODULE InvoiceIssueProofs --------------------------
(***************************************************************************)
(* Proofs about the billing route, for any number of requests, estimates,  *)
(* contract totals and any down-payment cap.                               *)
(***************************************************************************)
EXTENDS InvoiceIssue, InvoiceLedgerProofs

Writing == {"insert", "read", "reissue"}

(* An amount that may be billed as instalment k of estimate e: no more than *)
(* that instalment of some total the draft had, and exactly the instalment *)
(* when the draft had only one.                                            *)
Fits(e, k, amount) ==
    /\ \E t \in seen[e] : amount <= MilestoneAmount(t, k)
    /\ \A t \in Totals : seen[e] = {t} => amount = MilestoneAmount(t, k)

RowsFit ==
    \A l \in Ledgers : Active(l) => Fits(l[1], l[2], table[l].ledger_row.amount)

OpsFit ==
    \A r \in Requests : op[r].pc \in Writing =>
        Fits(op[r].ledger[1], op[r].ledger[2], op[r].doc.amount)

RoutesFit ==
    \A r \in Requests : route[r] # NoRoute =>
        /\ route[r].total \in seen[route[r].est]
        /\ \A t \in Totals : seen[route[r].est] = {t} =>
              route[r].already \in {None, 0, MilestoneAmount(t, route[r].kind)}

DraftsSeen == \A e \in Estimates : draft[e].total \in seen[e]

(* The inductive invariant.                                                *)
IssueInv ==
    /\ LedgerInv
    /\ IssueTypeOK
    /\ DraftsSeen
    /\ RowsFit
    /\ OpsFit
    /\ RoutesFit

-----------------------------------------------------------------------------
(* An instalment is at most the contract, and it grows with the contract.  *)
LEMMA InstalmentBound ==
  ASSUME NEW t \in Totals, NEW k \in Kinds
  PROVE  MilestoneAmount(t, k) \in Nat /\ MilestoneAmount(t, k) <= t
  BY IssueAssumption DEF MilestoneAmount, DownPayment, MinOf, Kinds

LEMMA InstalmentGrows ==
  ASSUME NEW t \in Totals, NEW u \in Totals, t <= u, NEW k \in Kinds
  PROVE  MilestoneAmount(t, k) <= MilestoneAmount(u, k)
  BY IssueAssumption DEF MilestoneAmount, DownPayment, MinOf, Kinds

LEMMA BilledIsNat ==
  ASSUME TypeOK, NEW e \in Estimates, NEW k \in Kinds
  PROVE  LedgerIdFor(e, k) \in Ledgers /\ BilledFor(e, k) \in Nat
  <1>1. LedgerIdFor(e, k) \in Ledgers
    BY IssueAssumption DEF LedgerIdFor
  <1>2. ActiveAmount(LedgerIdFor(e, k)) \in Nat
    BY <1>1, LedgerAssumption DEF ActiveAmount, Active, TypeOK, Row, Doc
  <1>3. QED
    BY <1>1, <1>2 DEF BilledFor

-----------------------------------------------------------------------------
(* What the route asks the ledger to issue.                                *)
LEMMA AskedAmount ==
  ASSUME IssueTypeOK, NEW r \in Requests, AskLedger(r)
  PROVE  LET b == route[r] IN
         /\ b \in Billing
         /\ LedgerIdFor(b.est, b.kind) \in Ledgers
         /\ MilestoneOf(b.est, b.kind) \in Milestones
         /\ Due(b.total, b.kind, b.already) \in Amounts
         /\ b.already \in Nat
         /\ Due(b.total, b.kind, b.already) > 0
         /\ CallIssue(r, LedgerIdFor(b.est, b.kind), MilestoneOf(b.est, b.kind),
                      Due(b.total, b.kind, b.already))
  <1> DEFINE b == route[r]
             due == Due(b.total, b.kind, b.already)
  <1>1. b \in Billing /\ b.already \in Nat
    BY DEF AskLedger, BothSumsRead, IssueTypeOK, NoRoute, Billing
  <1>2. b.est \in Estimates /\ b.kind \in Kinds /\ b.total \in Totals
    BY <1>1 DEF Billing
  <1>3. /\ LedgerIdFor(b.est, b.kind) \in Ledgers
        /\ MilestoneOf(b.est, b.kind) \in Milestones
    BY <1>2, IssueAssumption DEF LedgerIdFor, MilestoneOf
  <1>4. due > 0
    BY DEF AskLedger
  <1>5. due \in 1..b.total
    <2>1. /\ MilestoneAmount(b.total, b.kind) \in Nat
          /\ MilestoneAmount(b.total, b.kind) <= b.total
      BY <1>2, InstalmentBound
    <2>2. b.total \in Nat
      BY <1>2, IssueAssumption
    <2>3. QED
      BY <1>1, <1>4, <2>1, <2>2 DEF Due
  <1>6. due \in Amounts
    BY <1>2, <1>5, IssueAssumption
  <1>7. QED
    BY <1>1, <1>3, <1>4, <1>6 DEF AskLedger

(* Every step of the route is a step of the ledger, or leaves it alone.    *)
LEMMA RouteUsesLedger ==
  ASSUME IssueTypeOK, [IssueNext]_issueVars
  PROVE  [Next]_vars
  <1>1. ASSUME NEW r \in Requests, AskLedger(r)
        PROVE  Next
    BY <1>1, AskedAmount DEF Next
  <1>2. ASSUME NEW r \in Requests, LedgerStep(r)
        PROVE  Next
    BY <1>2 DEF LedgerStep, Next
  <1>3. ASSUME NEW r \in Requests, EndRequest(r)
        PROVE  [Next]_vars
    <2>1. CASE op[r] # Idle
      BY <1>3, <2>1 DEF EndRequest, Next, End
    <2>2. CASE op[r] = Idle
      BY <1>3, <2>2 DEF EndRequest, vars, IssueTypeOK, TypeOK
    <2>3. QED
      BY <2>1, <2>2
  <1>4. QED
    BY <1>1, <1>2, <1>3
       DEF IssueNext, issueVars, vars, SaveDraft, ReadDraft, ReadMilestoneSum,
           ReadBasisSum, Refuse

LEMMA RouteKeepsLedgerInv ==
  ASSUME IssueInv, [IssueNext]_issueVars
  PROVE  LedgerInv'
  BY RouteUsesLedger, StepKeeps DEF IssueInv

-----------------------------------------------------------------------------
LEMMA IssueInitEstablishes == IssueInit => IssueInv
  <1> SUFFICES ASSUME IssueInit PROVE IssueInv
    OBVIOUS
  <1>1. LedgerInv
    BY InitEstablishes DEF IssueInit
  <1>2. IssueTypeOK /\ DraftsSeen
    BY <1>1 DEF IssueInit, IssueTypeOK, LedgerInv, DraftsSeen, Drafts
  <1>3. RowsFit /\ OpsFit /\ RoutesFit
    BY DEF IssueInit, Init, RowsFit, Active, OpsFit, Idle, Writing, RoutesFit
  <1>4. QED
    BY <1>1, <1>2, <1>3 DEF IssueInv

LEMMA RouteKeepsTypes ==
  ASSUME IssueInv, [IssueNext]_issueVars
  PROVE  IssueTypeOK'
  <1> USE DEF IssueInv
  <1>1. TypeOK'
    BY RouteKeepsLedgerInv DEF LedgerInv
  <1>2. ASSUME NEW e \in Estimates, SaveDraft(e)
        PROVE  IssueTypeOK'
    BY <1>1, <1>2 DEF SaveDraft, IssueTypeOK, Drafts
  <1>3. ASSUME NEW r \in Requests, NEW e \in Estimates, NEW k \in Kinds,
               ReadDraft(r, e, k)
        PROVE  IssueTypeOK'
    BY <1>1, <1>3 DEF ReadDraft, IssueTypeOK, Drafts, Billing
  <1>4. ASSUME NEW r \in Requests, ReadMilestoneSum(r) \/ ReadBasisSum(r)
        PROVE  IssueTypeOK'
    <2>1. route[r] \in Billing
      BY <1>4 DEF ReadMilestoneSum, ReadBasisSum, IssueTypeOK, NoRoute
    <2>2. /\ BilledFor(route[r].est, route[r].kind) \in Nat
          /\ BilledToDate(route[r].est) \in Nat
      BY <2>1, BilledIsNat DEF Billing, BilledToDate, Kinds, IssueTypeOK
    <2>3. QED
      BY <1>1, <1>4, <2>1, <2>2
         DEF ReadMilestoneSum, ReadBasisSum, IssueTypeOK, Billing
  <1>5. ASSUME NEW r \in Requests, AskLedger(r)
        PROVE  IssueTypeOK'
    <2>1. route[r] \in Billing
      BY <1>5, AskedAmount
    <2>2. QED
      BY <1>1, <1>5, <2>1 DEF AskLedger, IssueTypeOK, Billing
  <1>6. ASSUME NEW r \in Requests, Refuse(r) \/ LedgerStep(r) \/ EndRequest(r)
        PROVE  IssueTypeOK'
    BY <1>1, <1>6 DEF Refuse, LedgerStep, EndRequest, IssueTypeOK
  <1>7. CASE UNCHANGED issueVars
    BY <1>1, <1>7 DEF issueVars, IssueTypeOK
  <1>8. QED
    BY <1>2, <1>3, <1>4, <1>5, <1>6, <1>7 DEF IssueNext

-----------------------------------------------------------------------------
(* Saving a draft only adds a total, so what fitted fits.                  *)
LEMMA FitsForGood ==
  ASSUME IssueInv, NEW e \in Estimates, NEW k, NEW a, Fits(e, k, a),
         NEW f \in Estimates, NEW total \in Totals,
         seen' = [seen EXCEPT ![f] = @ \cup {total}]
  PROVE  Fits(e, k, a)'
  <1>1. seen[e] \subseteq seen'[e] /\ seen[e] # {}
    BY DEF IssueInv, IssueTypeOK, DraftsSeen
  <1>2. \A t \in Totals : seen'[e] = {t} => seen[e] = {t}
    BY <1>1
  <1>3. QED
    BY <1>1, <1>2 DEF Fits

LEMMA SaveKeepsFit ==
  ASSUME IssueInv, NEW e \in Estimates, SaveDraft(e)
  PROVE  DraftsSeen' /\ RowsFit' /\ OpsFit' /\ RoutesFit'
  <1> USE DEF IssueInv
  <1>1. PICK d \in Drafts : /\ draft' = [draft EXCEPT ![e] = d]
                            /\ seen' = [seen EXCEPT ![e] = @ \cup {d.total}]
    BY DEF SaveDraft
  <1>2. d.total \in Totals
    BY DEF Drafts
  <1>3. UNCHANGED <<table, op, route>>
    BY DEF SaveDraft
  <1>4. DraftsSeen'
    BY <1>1 DEF DraftsSeen, IssueTypeOK
  <1>5. RowsFit'
    <2> SUFFICES ASSUME NEW l \in Ledgers, Active(l)'
                 PROVE  Fits(l[1], l[2], table[l].ledger_row.amount)'
      BY DEF RowsFit
    <2>1. Fits(l[1], l[2], table[l].ledger_row.amount) /\ l[1] \in Estimates
      BY <1>3, IssueAssumption DEF RowsFit, Active
    <2>2. QED
      BY <1>1, <1>2, <1>3, <2>1, FitsForGood DEF Fits
  <1>6. OpsFit'
    <2> SUFFICES ASSUME NEW r \in Requests, (op[r].pc)' \in Writing
                 PROVE  Fits(op[r].ledger[1], op[r].ledger[2], op[r].doc.amount)'
      BY DEF OpsFit
    <2>1. /\ Fits(op[r].ledger[1], op[r].ledger[2], op[r].doc.amount)
          /\ op[r].ledger[1] \in Estimates
      BY <1>3, IssueAssumption DEF OpsFit, LedgerInv, OpsReady, Writing
    <2>2. QED
      BY <1>1, <1>2, <1>3, <2>1, FitsForGood DEF Fits
  <1>7. RoutesFit'
    <2> SUFFICES ASSUME NEW r \in Requests, route[r] # NoRoute
                 PROVE  /\ route[r].total \in seen'[route[r].est]
                        /\ \A t \in Totals : seen'[route[r].est] = {t} =>
                              route[r].already
                                \in {None, 0, MilestoneAmount(t, route[r].kind)}
      BY <1>3 DEF RoutesFit
    <2>1. route[r] \in Billing /\ route[r].est \in Estimates
      BY DEF IssueTypeOK, Billing
    <2>2. seen[route[r].est] \subseteq seen'[route[r].est]
      BY <1>1, <2>1 DEF IssueTypeOK
    <2>3. \A t \in Totals : seen'[route[r].est] = {t} => seen[route[r].est] = {t}
      BY <2>2 DEF RoutesFit
    <2>4. QED
      BY <2>2, <2>3 DEF RoutesFit
  <1>8. QED
    BY <1>4, <1>5, <1>6, <1>7

-----------------------------------------------------------------------------
(* A ledger step never brings a request into a writing state with other    *)
(* data than it had there.                                                 *)
LEMMA WritersComeFromWriters ==
  ASSUME LedgerInv, NEW r \in Requests,
         StoreStep(r) \/ End(r) \/ \E l \in Ledgers : CallVoid(r, l),
         NEW q \in Requests, op'[q].pc \in Writing
  PROVE  /\ op[q].pc \in Writing
         /\ op'[q].ledger = op[q].ledger
         /\ op'[q].doc = op[q].doc
  <1> USE DEF LedgerInv, TypeOK, Op, Writing
  <1>1. CASE q # r
    BY <1>1 DEF StoreStep, InsertRow, ReadExisting, ReissueRow, ReadForVoid,
                VoidRow, End, CallVoid, Goto
  <1>2. CASE q = r /\ (InsertRow(r) \/ ReadExisting(r) \/ ReissueRow(r))
    BY <1>2 DEF InsertRow, ReadExisting, ReissueRow, Goto
  <1>3. CASE q = r /\ (ReadForVoid(r) \/ VoidRow(r) \/ End(r))
    BY <1>3 DEF ReadForVoid, VoidRow, End, Goto, Idle
  <1>4. CASE q = r /\ \E l \in Ledgers : CallVoid(r, l)
    BY <1>4 DEF CallVoid
  <1>5. QED
    BY <1>1, <1>2, <1>3, <1>4 DEF StoreStep

(* A row that is live after a ledger step was so before, unchanged, or is  *)
(* what a writing request carried.                                         *)
LEMMA LiveRowsComeFromWriters ==
  ASSUME LedgerInv, NEW r \in Requests,
         StoreStep(r) \/ End(r) \/ \E l \in Ledgers : CallVoid(r, l),
         NEW l \in Ledgers, Active(l)'
  PROVE  \/ Active(l) /\ table'[l] = table[l]
         \/ /\ op[r].pc \in Writing
            /\ op[r].ledger = l
            /\ table'[l].ledger_row = op[r].doc
  <1> USE DEF LedgerInv
  <1>1. CASE UNCHANGED table
    BY <1>1 DEF Active
  <1>2. CASE /\ op[r].pc \in Writing
             /\ table' = [table EXCEPT ![op[r].ledger] = Written(op[r].doc)]
    BY <1>2 DEF Active, Written, TypeOK
  <1>3. CASE VoidRow(r)
    <2> DEFINE row == [cols |-> [table[op[r].ledger].cols EXCEPT !.status = "void"],
                       ledger_row |-> [op[r].doc EXCEPT !.status = "void"]]
    <2>1. op[r].ledger \in Ledgers /\ op[r].doc \in Doc
      BY <1>3 DEF VoidRow, OpsReady
    <2>2. row.ledger_row.status = "void"
      BY <2>1 DEF Doc
    <2>3. table' = [table EXCEPT ![op[r].ledger] = row]
      BY <1>3 DEF VoidRow
    <2> HIDE DEF row
    <2>4. QED
      BY <2>1, <2>2, <2>3 DEF Active, TypeOK
  <1>4. QED
    BY <1>1, <1>2, <1>3 DEF StoreStep, InsertRow, ReadExisting, ReissueRow,
                            ReadForVoid, End, CallVoid, Writing

LEMMA LedgerStepKeepsFit ==
  ASSUME IssueInv, NEW r \in Requests, UNCHANGED seen,
         StoreStep(r) \/ End(r) \/ \E l \in Ledgers : CallVoid(r, l)
  PROVE  RowsFit' /\ OpsFit'
  <1> USE DEF IssueInv
  <1>1. ASSUME NEW l \in Ledgers, Active(l)'
        PROVE  Fits(l[1], l[2], table[l].ledger_row.amount)'
    <2>1. CASE Active(l) /\ table'[l] = table[l]
      BY <2>1 DEF RowsFit, Fits
    <2>2. CASE /\ op[r].pc \in Writing
               /\ op[r].ledger = l
               /\ table'[l].ledger_row = op[r].doc
      BY <2>2 DEF OpsFit, Fits
    <2>3. QED
      BY <1>1, <2>1, <2>2, LiveRowsComeFromWriters
  <1>2. ASSUME NEW q \in Requests, (op[q].pc)' \in Writing
        PROVE  Fits(op[q].ledger[1], op[q].ledger[2], op[q].doc.amount)'
    BY <1>2, WritersComeFromWriters DEF OpsFit, Fits
  <1>3. QED
    BY <1>1, <1>2 DEF RowsFit, OpsFit

(* What the route asks the ledger to issue fits: an instalment of the      *)
(* total it read, and the whole of it when the draft had no other total,   *)
(* because a milestone already billed leaves nothing due.                  *)
LEMMA AskedAmountFits ==
  ASSUME IssueInv, NEW r \in Requests, AskLedger(r)
  PROVE  Fits(route[r].est, route[r].kind,
              Due(route[r].total, route[r].kind, route[r].already))
  <1> DEFINE b == route[r]
  <1> USE DEF IssueInv
  <1>1. /\ b.est \in Estimates /\ b.kind \in Kinds /\ b.total \in Totals
        /\ b.already \in Nat
        /\ Due(b.total, b.kind, b.already) > 0
    BY AskedAmount DEF Billing
  <1>2. MilestoneAmount(b.total, b.kind) \in Nat
    BY <1>1, InstalmentBound
  <1>3. b.total \in seen[b.est]
    BY DEF RoutesFit, AskLedger, BothSumsRead, NoRoute
  <1>4. Due(b.total, b.kind, b.already) <= MilestoneAmount(b.total, b.kind)
    BY <1>1, <1>2 DEF Due
  <1>5. ASSUME NEW t \in Totals, seen[b.est] = {t}
        PROVE  Due(b.total, b.kind, b.already) = MilestoneAmount(t, b.kind)
    <2>1. b.total = t
      BY <1>3, <1>5
    <2>2. b.already \in {None, 0, MilestoneAmount(t, b.kind)} /\ b.already # None
      BY <1>5 DEF RoutesFit, AskLedger, BothSumsRead, NoRoute
    <2>3. QED
      BY <1>1, <1>2, <2>1, <2>2 DEF Due
  <1>6. QED
    BY <1>3, <1>4, <1>5 DEF Fits

LEMMA AskKeepsFit ==
  ASSUME IssueInv, NEW r \in Requests, AskLedger(r)
  PROVE  RowsFit' /\ OpsFit' /\ RoutesFit'
  <1> DEFINE b == route[r]
             due == Due(b.total, b.kind, b.already)
  <1> USE DEF IssueInv
  <1>1. /\ UNCHANGED <<table, seen>>
        /\ op' = [op EXCEPT ![r] =
                    [pc |-> "insert", ledger |-> <<b.est, b.kind>>,
                     doc |-> [milestone |-> MilestoneOf(b.est, b.kind),
                              amount |-> due, status |-> "issued"]]]
        /\ route' = [route EXCEPT ![r].pc = "issuing"]
    BY DEF AskLedger, CallIssue, LedgerIdFor
  <1>2. RowsFit'
    BY <1>1 DEF RowsFit, Active, Fits
  <1>3. Fits(b.est, b.kind, due)
    BY AskedAmountFits
  <1> HIDE DEF due
  <1>4. ASSUME NEW q \in Requests, (op[q].pc)' \in Writing
        PROVE  Fits(op[q].ledger[1], op[q].ledger[2], op[q].doc.amount)'
    <2>1. CASE q = r
      BY <1>1, <1>3, <2>1 DEF Fits, IssueTypeOK, TypeOK
    <2>2. CASE q # r
      BY <1>1, <1>4, <2>2 DEF OpsFit, Fits, IssueTypeOK, TypeOK
    <2>3. QED
      BY <2>1, <2>2
  <1>5. RoutesFit'
    <2>1. b \in Billing /\ b # NoRoute
      BY AskedAmount DEF NoRoute, Billing
    <2>2. QED
      BY <1>1, <2>1 DEF RoutesFit, IssueTypeOK, Billing
  <1>6. QED
    BY <1>2, <1>4, <1>5 DEF OpsFit

(* Reading a sum: while the draft had one total, a milestone is billed in  *)
(* whole or not at all, so that is what the route reads.                   *)
LEMMA ReadKeepsFit ==
  ASSUME IssueInv, NEW r \in Requests, ReadMilestoneSum(r) \/ ReadBasisSum(r)
  PROVE  RoutesFit'
  <1> DEFINE b == route[r]
  <1> USE DEF IssueInv
  <1>1. b \in Billing /\ b # NoRoute /\ UNCHANGED seen
    BY DEF ReadMilestoneSum, ReadBasisSum, IssueTypeOK, NoRoute
  <1>2. b.est \in Estimates /\ b.kind \in Kinds
    BY <1>1 DEF Billing
  <1>3. \A t \in Totals : seen[b.est] = {t} =>
           BilledFor(b.est, b.kind) \in {0, MilestoneAmount(t, b.kind)}
    BY <1>2, BilledIsNat DEF BilledFor, LedgerIdFor, ActiveAmount, RowsFit, Fits,
                             IssueTypeOK
  <1>4. CASE ReadBasisSum(r)
    BY <1>1, <1>4 DEF ReadBasisSum, RoutesFit, IssueTypeOK, Billing
  <1>5. CASE ReadMilestoneSum(r)
    <2>1. /\ \A q \in Requests \ {r} : route'[q] = route[q]
          /\ route'[r].est = b.est
          /\ route'[r].kind = b.kind
          /\ route'[r].total = b.total
          /\ route'[r].already = BilledFor(b.est, b.kind)
      BY <1>1, <1>5 DEF ReadMilestoneSum, IssueTypeOK, Billing
    <2>2. QED
      BY <1>1, <1>3, <2>1 DEF RoutesFit
  <1>6. QED
    BY <1>4, <1>5

LEMMA RouteStepKeeps ==
  ASSUME IssueInv, [IssueNext]_issueVars
  PROVE  IssueInv'
  <1> USE DEF IssueInv
  <1>1. LedgerInv' /\ IssueTypeOK'
    BY RouteKeepsLedgerInv, RouteKeepsTypes
  <1>2. ASSUME UNCHANGED <<table, op, seen>>
        PROVE  RowsFit' /\ OpsFit'
    BY <1>2 DEF RowsFit, OpsFit, Active, Fits
  <1>3. ASSUME UNCHANGED <<draft, seen>>
        PROVE  DraftsSeen'
    BY <1>3 DEF DraftsSeen
  <1>4. ASSUME NEW e \in Estimates, SaveDraft(e)
        PROVE  IssueInv'
    BY <1>1, <1>4, SaveKeepsFit
  <1>5. ASSUME NEW r \in Requests, NEW e \in Estimates, NEW k \in Kinds,
               ReadDraft(r, e, k)
        PROVE  IssueInv'
    <2>1. RoutesFit'
      BY <1>5 DEF ReadDraft, RoutesFit, IssueTypeOK, DraftsSeen
    <2>2. QED
      BY <1>1, <1>2, <1>3, <1>5, <2>1 DEF ReadDraft
  <1>6. ASSUME NEW r \in Requests, ReadMilestoneSum(r) \/ ReadBasisSum(r)
        PROVE  IssueInv'
    <2>1. RoutesFit'
      BY <1>6, ReadKeepsFit
    <2>2. QED
      BY <1>1, <1>2, <1>3, <1>6, <2>1 DEF ReadMilestoneSum, ReadBasisSum
  <1>7. ASSUME NEW r \in Requests, AskLedger(r)
        PROVE  IssueInv'
    BY <1>1, <1>3, <1>7, AskKeepsFit DEF AskLedger
  <1>8. ASSUME NEW r \in Requests, Refuse(r)
        PROVE  IssueInv'
    <2>1. RoutesFit'
      BY <1>8 DEF Refuse, RoutesFit, IssueTypeOK
    <2>2. QED
      BY <1>1, <1>2, <1>3, <1>8, <2>1 DEF Refuse
  <1>9. ASSUME NEW r \in Requests, LedgerStep(r)
        PROVE  IssueInv'
    <2>1. RoutesFit'
      BY <1>9 DEF LedgerStep, RoutesFit
    <2>2. QED
      BY <1>1, <1>3, <1>9, <2>1, LedgerStepKeepsFit DEF LedgerStep
  <1>10. ASSUME NEW r \in Requests, EndRequest(r)
         PROVE  IssueInv'
    <2>1. RoutesFit'
      BY <1>10 DEF EndRequest, RoutesFit, IssueTypeOK
    <2>2. RowsFit' /\ OpsFit'
      BY <1>10 DEF EndRequest, RowsFit, OpsFit, Active, Fits, Idle, Writing,
                   IssueTypeOK, TypeOK
    <2>3. QED
      BY <1>1, <1>3, <1>10, <2>1, <2>2 DEF EndRequest
  <1>11. CASE UNCHANGED issueVars
    BY <1>1, <1>2, <1>3, <1>11 DEF issueVars, RoutesFit
  <1>12. QED
    BY <1>4, <1>5, <1>6, <1>7, <1>8, <1>9, <1>10, <1>11 DEF IssueNext

-----------------------------------------------------------------------------
THEOREM IssueInvariant == IssueSpec => []IssueInv
  BY IssueInitEstablishes, RouteStepKeeps, PTL DEF IssueSpec

(* The types of the drafts and of the billing requests.                    *)
THEOREM IssueTypesHold == IssueSpec => []IssueTypeOK
  <1>1. IssueInv => IssueTypeOK
    BY DEF IssueInv
  <1>2. QED
    BY <1>1, IssueInvariant, PTL

(* The billing route drives the ledger only through its operations, with   *)
(* amounts the ledger accepts: every theorem about the ledger holds of it. *)
THEOREM RouteRefinesLedger == IssueSpec => UsesTheLedger
  <1>1. IssueInit => Init
    BY DEF IssueInit
  <1>2. IssueInv /\ [IssueNext]_issueVars => [Next]_vars
    BY RouteUsesLedger DEF IssueInv
  <1>3. QED
    BY <1>1, <1>2, IssueInvariant, PTL DEF IssueSpec, UsesTheLedger, Spec

(* While its draft had one total, what an estimate billed for a milestone  *)
(* is the whole milestone or nothing.                                      *)
LEMMA FitCloses == IssueInv => BooksClose
  <1> SUFFICES ASSUME IssueInv, NEW e \in Estimates, NEW k \in Kinds,
                      NEW t \in Totals, seen[e] = {t}
               PROVE  BilledFor(e, k) \in {0, MilestoneAmount(t, k)}
    BY DEF BooksClose
  <1>1. LedgerIdFor(e, k) \in Ledgers /\ LedgerIdFor(e, k) = <<e, k>>
    BY IssueAssumption DEF LedgerIdFor
  <1>2. QED
    BY <1>1 DEF IssueInv, RowsFit, Fits, BilledFor, ActiveAmount

THEOREM TheBooksClose == IssueSpec => []BooksClose
  BY FitCloses, IssueInvariant, PTL

(* What is billed for an instalment is within that instalment of a total   *)
(* the draft had, or is nothing.                                           *)
LEMMA BilledWithinInstalment ==
  ASSUME IssueInv, NEW e \in Estimates, NEW k \in Kinds
  PROVE  \E t \in seen[e] : BilledFor(e, k) <= MilestoneAmount(t, k)
  <1>1. LedgerIdFor(e, k) \in Ledgers /\ LedgerIdFor(e, k) = <<e, k>>
    BY IssueAssumption DEF LedgerIdFor
  <1>2. CASE Active(LedgerIdFor(e, k))
    BY <1>1, <1>2 DEF IssueInv, RowsFit, Fits, BilledFor, ActiveAmount
  <1>3. CASE ~Active(LedgerIdFor(e, k))
    <2>1. BilledFor(e, k) = 0
      BY <1>3 DEF BilledFor, ActiveAmount
    <2>2. draft[e].total \in seen[e] /\ draft[e].total \in Totals
      BY DEF IssueInv, DraftsSeen, IssueTypeOK, Drafts
    <2>3. QED
      BY <2>1, <2>2, InstalmentBound
  <1>4. QED
    BY <1>2, <1>3

(* The two instalments of a contract are the contract.                     *)
LEMMA InstalmentsAddUp ==
  ASSUME NEW t \in Totals
  PROVE  MilestoneAmount(t, "down_payment") + MilestoneAmount(t, "final") = t
  BY IssueAssumption DEF MilestoneAmount, DownPayment, MinOf

LEMMA FitStaysWithin == IssueInv => BilledWithinAContract
  <1> SUFFICES ASSUME IssueInv, NEW e \in Estimates
               PROVE  \E t \in seen[e] : BilledToDate(e) <= t
    BY DEF BilledWithinAContract
  <1>1. "down_payment" \in Kinds /\ "final" \in Kinds
    BY DEF Kinds
  <1>2. PICK t1 \in seen[e] :
          BilledFor(e, "down_payment") <= MilestoneAmount(t1, "down_payment")
    BY <1>1, BilledWithinInstalment
  <1>3. PICK t2 \in seen[e] : BilledFor(e, "final") <= MilestoneAmount(t2, "final")
    BY <1>1, BilledWithinInstalment
  <1>4. PICK t \in seen[e] : t1 <= t /\ t2 <= t
    <2>1. t1 \in Nat /\ t2 \in Nat
      BY IssueAssumption DEF IssueInv, IssueTypeOK
    <2>2. QED
      BY <2>1
  <1>5. t1 \in Totals /\ t2 \in Totals /\ t \in Totals
    BY DEF IssueInv, IssueTypeOK
  <1>6. /\ MilestoneAmount(t1, "down_payment") <= MilestoneAmount(t, "down_payment")
        /\ MilestoneAmount(t2, "final") <= MilestoneAmount(t, "final")
    BY <1>1, <1>4, <1>5, InstalmentGrows
  <1>7. /\ MilestoneAmount(t1, "down_payment") \in Nat
        /\ MilestoneAmount(t2, "final") \in Nat
        /\ MilestoneAmount(t, "down_payment") \in Nat
        /\ MilestoneAmount(t, "final") \in Nat
        /\ t \in Nat
    BY <1>1, <1>5, InstalmentBound, IssueAssumption
  <1>8. BilledFor(e, "down_payment") \in Nat /\ BilledFor(e, "final") \in Nat
    BY <1>1, BilledIsNat DEF IssueInv, IssueTypeOK
  <1>9. MilestoneAmount(t, "down_payment") + MilestoneAmount(t, "final") = t
    BY <1>5, InstalmentsAddUp
  <1>10. QED
    BY <1>2, <1>3, <1>6, <1>7, <1>8, <1>9 DEF BilledToDate

(* However the draft is edited while requests bill it, an estimate's live  *)
(* invoices fit into one contract its draft really came to.                *)
THEOREM NeverOverbilled == IssueSpec => []BilledWithinAContract
  BY FitStaysWithin, IssueInvariant, PTL
-----------------------------------------------------------------------------
(* What a billing request has in the ledger: nothing before it asks, then  *)
(* the invoice of its own instalment, which ties out with the sums it read *)
(* and the total it was built from.                                        *)
AsksWithinTheContract ==
    \A r \in Requests : route[r] # NoRoute =>
        /\ route[r].pc = "sums" => op[r] = Idle
        /\ route[r].pc = "issuing" => route[r].billed \in Nat
        /\ op[r].pc \in Writing =>
              /\ route[r].pc = "issuing"
              /\ op[r].ledger = LedgerIdFor(route[r].est, route[r].kind)
              /\ route[r].billed + op[r].doc.amount <= route[r].total

LEMMA AskingKeepsWithin ==
  ASSUME IssueInv, AsksWithinTheContract, NEW r \in Requests, AskLedger(r)
  PROVE  AsksWithinTheContract'
  <1> DEFINE b == route[r]
             due == Due(b.total, b.kind, b.already)
  <1> USE DEF IssueInv
  <1>1. b \in Billing /\ b.billed \in Nat /\ b.billed + due <= b.total
    BY AskedAmount DEF AskLedger, BothSumsRead, Billing, TiesOut
  <1>2. /\ op' = [op EXCEPT ![r] =
                    [pc |-> "insert", ledger |-> LedgerIdFor(b.est, b.kind),
                     doc |-> [milestone |-> MilestoneOf(b.est, b.kind),
                              amount |-> due, status |-> "issued"]]]
        /\ route' = [route EXCEPT ![r].pc = "issuing"]
    BY DEF AskLedger, CallIssue
  <1> HIDE DEF due
  <1>3. ASSUME NEW q \in Requests \ {r}
        PROVE  op'[q] = op[q] /\ route'[q] = route[q]
    BY <1>2 DEF IssueTypeOK, TypeOK
  <1>4. /\ op'[r].ledger = LedgerIdFor(b.est, b.kind)
        /\ op'[r].doc.amount = due
        /\ route'[r].pc = "issuing"
        /\ route'[r].est = b.est
        /\ route'[r].kind = b.kind
        /\ route'[r].total = b.total
        /\ route'[r].billed = b.billed
    BY <1>1, <1>2 DEF IssueTypeOK, TypeOK, Billing
  <1>5. QED
    BY <1>1, <1>3, <1>4 DEF AsksWithinTheContract, LedgerIdFor

LEMMA LedgerKeepsWithin ==
  ASSUME IssueInv, AsksWithinTheContract, NEW r \in Requests, LedgerStep(r)
  PROVE  AsksWithinTheContract'
  <1> USE DEF IssueInv
  <1>1. UNCHANGED route
    BY DEF LedgerStep
  <1>2. ASSUME NEW q \in Requests, route[q] # NoRoute, route[q].pc = "sums"
        PROVE  op'[q] = Idle
    <2>1. op[q] = Idle
      BY <1>2 DEF AsksWithinTheContract
    <2>2. CASE q = r
      BY <1>2, <2>1, <2>2 DEF LedgerStep, StoreStep, InsertRow, ReadExisting,
                               ReissueRow, ReadForVoid, VoidRow, Idle
    <2>3. CASE q # r
      BY <2>1, <2>3 DEF LedgerStep, StoreStep, InsertRow, ReadExisting,
                        ReissueRow, ReadForVoid, VoidRow, CallVoid, Goto,
                        IssueTypeOK, TypeOK
    <2>4. QED
      BY <2>2, <2>3
  <1>3. ASSUME NEW q \in Requests, op'[q].pc \in Writing
        PROVE  /\ op[q].pc \in Writing
               /\ op'[q].ledger = op[q].ledger
               /\ op'[q].doc = op[q].doc
    BY <1>3, WritersComeFromWriters DEF LedgerStep
  <1>4. QED
    BY <1>1, <1>2, <1>3 DEF AsksWithinTheContract, LedgerIdFor

LEMMA RouteStepKeepsWithin ==
  ASSUME IssueInv, AsksWithinTheContract, [IssueNext]_issueVars
  PROVE  AsksWithinTheContract'
  <1> USE DEF IssueInv
  <1>1. ASSUME UNCHANGED <<op, route>>
        PROVE  AsksWithinTheContract'
    BY <1>1 DEF AsksWithinTheContract, LedgerIdFor
  <1>2. ASSUME NEW r \in Requests, NEW e \in Estimates, NEW k \in Kinds,
               ReadDraft(r, e, k)
        PROVE  AsksWithinTheContract'
    BY <1>2 DEF ReadDraft, AsksWithinTheContract, LedgerIdFor, IssueTypeOK,
                Idle, Writing
  <1>3. ASSUME NEW r \in Requests, ReadMilestoneSum(r) \/ ReadBasisSum(r)
        PROVE  AsksWithinTheContract'
    <2>1. route[r] \in Billing /\ route[r] # NoRoute /\ UNCHANGED op
      BY <1>3 DEF ReadMilestoneSum, ReadBasisSum, IssueTypeOK, NoRoute
    <2>2. op[r] = Idle
      BY <1>3, <2>1 DEF ReadMilestoneSum, ReadBasisSum, AsksWithinTheContract
    <2>3. /\ \A q \in Requests \ {r} : route'[q] = route[q]
          /\ route'[r].pc = "sums"
      BY <1>3, <2>1 DEF ReadMilestoneSum, ReadBasisSum, IssueTypeOK, Billing
    <2>4. QED
      BY <2>1, <2>2, <2>3 DEF AsksWithinTheContract, LedgerIdFor, Idle, Writing
  <1>4. ASSUME NEW r \in Requests, Refuse(r)
        PROVE  AsksWithinTheContract'
    BY <1>4 DEF Refuse, AsksWithinTheContract, LedgerIdFor, IssueTypeOK
  <1>5. ASSUME NEW r \in Requests, EndRequest(r)
        PROVE  AsksWithinTheContract'
    BY <1>5 DEF EndRequest, AsksWithinTheContract, LedgerIdFor, IssueTypeOK, TypeOK
  <1>6. QED
    BY <1>1, <1>2, <1>3, <1>4, <1>5, AskingKeepsWithin, LedgerKeepsWithin
       DEF IssueNext, issueVars, SaveDraft

LEMMA AsksStayWithin == IssueSpec => []AsksWithinTheContract
  <1>1. IssueInit => AsksWithinTheContract
    BY DEF IssueInit, AsksWithinTheContract
  <1>2. QED
    BY <1>1, IssueInvariant, RouteStepKeepsWithin, PTL DEF IssueSpec

(* A request that gets its row issued wrote it over a row that was not     *)
(* live.                                                                   *)
LEMMA IssuingWritesOwnRow ==
  ASSUME IssueInv, NEW r \in Requests, [IssueNext]_issueVars, IssuedBy(r)
  PROVE  /\ op[r].pc \in Writing
         /\ op[r].ledger \in Ledgers
         /\ ~Active(op[r].ledger)
         /\ table' = [table EXCEPT ![op[r].ledger] = Written(op[r].doc)]
         /\ UNCHANGED route
  <1> USE DEF IssueInv
  <1>1. PICK q \in Requests : AskLedger(q) \/ LedgerStep(q) \/ EndRequest(q)
    BY DEF IssuedBy, IssueNext, issueVars, SaveDraft, ReadDraft,
           ReadMilestoneSum, ReadBasisSum, Refuse
  <1>2. op[r].pc # "issued" /\ op'[r].pc = "issued"
    BY DEF IssuedBy
  <1>3. ~AskLedger(q)
    <2> SUFFICES ASSUME AskLedger(q) PROVE FALSE
      OBVIOUS
    <2>1. PICK o : o.pc = "insert" /\ op' = [op EXCEPT ![q] = o]
      BY DEF AskLedger, CallIssue
    <2>2. QED
      BY <1>2, <2>1 DEF IssueTypeOK, TypeOK
  <1>4. ~EndRequest(q)
    BY <1>2 DEF EndRequest, Idle, IssueTypeOK, TypeOK
  <1>5. StoreStep(q) /\ q = r /\ UNCHANGED route
    <2>1. StoreStep(q) \/ \E l \in Ledgers : CallVoid(q, l)
      BY <1>1, <1>3, <1>4 DEF LedgerStep
    <2>2. \A l \in Ledgers : ~CallVoid(q, l)
      BY <1>2 DEF CallVoid, IssueTypeOK, TypeOK
    <2>3. q = r
      BY <1>2, <2>1, <2>2 DEF StoreStep, InsertRow, ReadExisting, ReissueRow,
                              ReadForVoid, VoidRow, Goto, IssueTypeOK, TypeOK
    <2>4. QED
      BY <1>1, <1>3, <1>4, <2>1, <2>2, <2>3 DEF LedgerStep
  <1>6. InsertRow(r) \/ ReissueRow(r)
    BY <1>2, <1>5 DEF StoreStep, ReadExisting, ReadForVoid, VoidRow, Goto,
                      IssueTypeOK, TypeOK, Op
  <1>7. op[r].pc \in Writing /\ op[r].ledger \in Ledgers /\ op[r] \in Op
    BY <1>6 DEF InsertRow, ReissueRow, Writing, LedgerInv, OpsReady,
                IssueTypeOK, TypeOK
  <1>8. \A step : Goto(r, step) => op'[r].pc = step
    BY DEF Goto, IssueTypeOK, TypeOK, Op
  <1>9. CASE InsertRow(r)
    <2>1. table[op[r].ledger] = None
      BY <1>2, <1>8, <1>9 DEF InsertRow
    <2>2. QED
      BY <1>2, <1>5, <1>7, <1>8, <1>9, <2>1 DEF InsertRow, Active
  <1>10. CASE ReissueRow(r)
    <2>1. /\ table[op[r].ledger].cols.status = "void"
          /\ table' = [table EXCEPT ![op[r].ledger] = Written(op[r].doc)]
      BY <1>2, <1>8, <1>10 DEF ReissueRow
    <2>2. ~Active(op[r].ledger)
      BY <1>7, <2>1 DEF Active, LedgerInv, LiveRowsAgree
    <2>3. QED
      BY <1>5, <1>7, <2>1, <2>2
  <1>11. QED
    BY <1>6, <1>9, <1>10

(* Writing an instalment that was not live adds its amount to what the     *)
(* estimate has billed.                                                    *)
LEMMA WritingAddsUp ==
  ASSUME TypeOK, NEW e \in Estimates, NEW k \in Kinds, NEW d \in Doc,
         d.status = "issued", ~Active(LedgerIdFor(e, k)),
         table' = [table EXCEPT ![LedgerIdFor(e, k)] = Written(d)]
  PROVE  BilledToDate(e)' = BilledToDate(e) + d.amount
  <1> DEFINE l == LedgerIdFor(e, k)
  <1>1. l \in Ledgers /\ \A j \in Kinds : LedgerIdFor(e, j) = <<e, j>>
    BY IssueAssumption DEF LedgerIdFor
  <1>2. Written(d) # None /\ Written(d).ledger_row = d
    BY LedgerAssumption DEF Written, Row
  <1>3. BilledFor(e, k) = 0 /\ BilledFor(e, k)' = d.amount
    BY <1>1, <1>2 DEF BilledFor, ActiveAmount, Active, TypeOK, LedgerIdFor
  <1>4. \A j \in Kinds \ {k} : BilledFor(e, j)' = BilledFor(e, j)
    BY <1>1 DEF BilledFor, ActiveAmount, Active, TypeOK, LedgerIdFor
  <1>5. /\ BilledFor(e, "down_payment") \in Nat
        /\ BilledFor(e, "final") \in Nat
        /\ d.amount \in Nat
    BY BilledIsNat, LedgerAssumption DEF Kinds, Doc
  <1>6. QED
    BY <1>3, <1>4, <1>5 DEF BilledToDate, Kinds

LEMMA CurrentSumsTieOut ==
  ASSUME IssueInv, AsksWithinTheContract, [IssueNext]_issueVars,
         NEW r \in Requests, IssuedBy(r),
         BilledToDate(route[r].est) <= route[r].billed
  PROVE  BilledToDate(route[r].est)' <= route[r].total
  <1> USE DEF IssueInv
  <1>1. /\ op[r].pc \in Writing
        /\ ~Active(op[r].ledger)
        /\ table' = [table EXCEPT ![op[r].ledger] = Written(op[r].doc)]
        /\ UNCHANGED route
    BY IssuingWritesOwnRow
  <1>2. route[r] \in Billing /\ route[r] # NoRoute
    BY DEF IssuedBy, IssueTypeOK
  <1>3. PICK e \in Estimates, k \in Kinds, total \in Nat :
           e = route[r].est /\ k = route[r].kind /\ total = route[r].total
    BY <1>2, IssueAssumption DEF Billing
  <1>4. PICK d \in Doc : d = op[r].doc /\ d.status = "issued" /\ d.amount \in Nat
    BY <1>1, LedgerAssumption DEF LedgerInv, OpsReady, Writing, Doc
  <1>5. /\ route[r].billed \in Nat
        /\ op[r].ledger = LedgerIdFor(e, k)
        /\ route[r].billed + d.amount <= total
    BY <1>1, <1>2, <1>3, <1>4 DEF AsksWithinTheContract
  <1>6. BilledToDate(e)' = BilledToDate(e) + d.amount
    BY <1>1, <1>4, <1>5, WritingAddsUp DEF IssueTypeOK
  <1>7. BilledToDate(e) \in Nat
    BY BilledIsNat DEF BilledToDate, Kinds, IssueTypeOK
  <1>8. BilledToDate(e) <= route[r].billed
    BY <1>3
  <1>9. BilledToDate(e)' <= total
    BY <1>4, <1>5, <1>6, <1>7, <1>8
  <1>10. BilledToDate(route[r].est)' = BilledToDate(e)'
    BY <1>1, <1>3
  <1>11. QED
    BY <1>3, <1>9, <1>10

(* The projection's assertion holds of the ledger whenever no more is      *)
(* billed at the write than the sum the projection was built from said.    *)
THEOREM CurrentSumsBillWithin == IssueSpec => CurrentSumsKeepTheContract
  <1>1. ASSUME IssueInv, AsksWithinTheContract, [IssueNext]_issueVars
        PROVE  [\A r \in Requests :
                  /\ IssuedBy(r)
                  /\ BilledToDate(route[r].est) <= route[r].billed
                  => BilledToDate(route[r].est)' <= route[r].total]_issueVars
    BY <1>1, CurrentSumsTieOut
  <1>2. QED
    BY <1>1, IssueInvariant, AsksStayWithin, PTL
       DEF IssueSpec, CurrentSumsKeepTheContract
=============================================================================
