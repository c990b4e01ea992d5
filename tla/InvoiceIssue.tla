---------------------------- MODULE InvoiceIssue ----------------------------
(***************************************************************************)
(* POST /right-hand/estimates/:id/invoice/issue                            *)
(* (src/api/routes/rightHandTurn.ts) on top of the ledger: read the        *)
(* estimate draft, check its gate, read two sums from the ledger, rebuild  *)
(* the invoice projection from draft and sums, issue.  Every read is an    *)
(* await, so other issues, voids and saves of the draft run in between.    *)
(*                                                                         *)
(* Of a draft the billing depends on two things: the contract total of its *)
(* proposal projection (0 when no line is renderable) and its gate.  How   *)
(* they come about is EstimateDraft's subject; here a save of the draft    *)
(* sets them to any value.                                                 *)
(***************************************************************************)
EXTENDS InvoiceLedger

CONSTANTS
    Estimates,
    Totals,       \* contract totals in cents a draft may come to
    DownCap       \* the CA 7159 cap on a down payment, 100_000 cents

Kinds == {"down_payment", "final"}

ASSUME IssueAssumption ==
    /\ Totals \subseteq Nat
    /\ DownCap \in Nat
    /\ \A t \in Totals : 1..t \subseteq Amounts
    /\ Ledgers = Estimates \X Kinds
    /\ Milestones = Estimates \X Kinds

VARIABLES
    draft,        \* the stored draft of each estimate
    seen,         \* history: the contract totals each draft has had
    route         \* the billing request each caller runs, before the ledger

issueVars == <<table, op, draft, seen, route>>

-----------------------------------------------------------------------------
(* invoiceLedgerIdFor and the milestone ids of the payment schedule.  Both *)
(* are injective: an estimate id is at most 120 characters of              *)
(* [A-Za-z0-9_-], which cleanSegment leaves alone.                         *)
LedgerIdFor(e, k) == <<e, k>>

MilestoneOf(e, k) == <<e, k>>

MinOf(a, b) == IF a <= b THEN a ELSE b

(* caDownPaymentCents: $1,000 or 10% of the contract, whichever is less.   *)
DownPayment(total) == MinOf(DownCap, total \div 10)

FinalIsWholeContract(total, kind) ==
    IF kind = "down_payment" THEN DownPayment(total) ELSE total

(* The payment schedule of the proposal projection.                        *)
MilestoneAmount(total, kind) ==
    IF kind = "down_payment" THEN DownPayment(total)
    ELSE total - DownPayment(total)

(* sumIssuedForMilestone and sumIssuedForBasis.                            *)
BilledFor(e, k) == ActiveAmount(LedgerIdFor(e, k))

BilledToDate(e) == BilledFor(e, "down_payment") + BilledFor(e, "final")

DueLessRetention(total, kind, already) ==
    (MilestoneAmount(total, kind) - already)
        - ((MilestoneAmount(total, kind) - already) * 10) \div 100

(* buildInvoiceFromRightHandEstimate, with no change orders and no         *)
(* retention: the tie-outs, and the amount due.                            *)
Due(total, kind, already) == MilestoneAmount(total, kind) - already

TiesOutButForTheSum(total, kind, already, billed) ==
    /\ billed <= total
    /\ already <= MilestoneAmount(total, kind)

TiesOut(total, kind, already, billed) ==
    /\ billed <= total
    /\ already <= MilestoneAmount(total, kind)
    /\ billed + Due(total, kind, already) <= total

-----------------------------------------------------------------------------
Drafts == [total : Totals, allowed : BOOLEAN]

NoRoute == [pc |-> "idle", est |-> None, kind |-> None, total |-> None,
            already |-> None, billed |-> None]

Billing == [pc : {"sums", "issuing"}, est : Estimates, kind : Kinds,
            total : Totals, already : Nat \cup {None}, billed : Nat \cup {None}]

IssueInit ==
    /\ Init
    /\ draft \in [Estimates -> Drafts]
    /\ seen = [e \in Estimates |-> {draft[e].total}]
    /\ route = [r \in Requests |-> NoRoute]

(* Any save of the draft: assembly, a line edit, Use here, an import.      *)
SaveDraft(e) ==
    /\ \E d \in Drafts :
          /\ draft' = [draft EXCEPT ![e] = d]
          /\ seen' = [seen EXCEPT ![e] = @ \cup {d.total}]
    /\ UNCHANGED <<table, op, route>>

ReadDraftKeepsNone(r, e, k) ==
    /\ op[r] = Idle
    /\ route[r] = NoRoute
    /\ draft[e].allowed
    /\ draft[e].total > 0
    /\ route' = [route EXCEPT ![r] =
                   [pc |-> "sums", est |-> e, kind |-> k,
                    total |-> None, already |-> 0, billed |-> 0]]
    /\ UNCHANGED <<table, op, draft, seen>>

(* The draft is read and its gate evaluated; a blocked gate or a draft     *)
(* with nothing to bill ends the request with nothing changed.             *)
ReadDraft(r, e, k) ==
    /\ op[r] = Idle
    /\ route[r] = NoRoute
    /\ draft[e].allowed
    /\ draft[e].total > 0
    /\ route' = [route EXCEPT ![r] =
                   [pc |-> "sums", est |-> e, kind |-> k,
                    total |-> draft[e].total,
                    already |-> None, billed |-> None]]
    /\ UNCHANGED <<table, op, draft, seen>>

(* The two sums are read by two statements in flight at once.              *)
ReadMilestoneSum(r) ==
    /\ route[r].pc = "sums"
    /\ route[r].already = None
    /\ route' = [route EXCEPT ![r].already = BilledFor(route[r].est, route[r].kind)]
    /\ UNCHANGED <<table, op, draft, seen>>

ReadBasisSum(r) ==
    /\ route[r].pc = "sums"
    /\ route[r].billed = None
    /\ route' = [route EXCEPT ![r].billed = BilledToDate(route[r].est)]
    /\ UNCHANGED <<table, op, draft, seen>>

BothSumsRead(r) ==
    /\ route[r].pc = "sums"
    /\ route[r].already # None
    /\ route[r].billed # None

(* The projection ties out and something is due: ask the ledger.           *)
AskLedger(r) ==
    /\ BothSumsRead(r)
    /\ LET b == route[r] IN
          /\ TiesOut(b.total, b.kind, b.already, b.billed)
          /\ Due(b.total, b.kind, b.already) > 0
          /\ CallIssue(r, LedgerIdFor(b.est, b.kind), MilestoneOf(b.est, b.kind),
                       Due(b.total, b.kind, b.already))
    /\ route' = [route EXCEPT ![r].pc = "issuing"]
    /\ UNCHANGED <<draft, seen>>

(* It does not (422), or the milestone is already fully billed (409).      *)
Refuse(r) ==
    /\ BothSumsRead(r)
    /\ LET b == route[r] IN
          \/ ~TiesOut(b.total, b.kind, b.already, b.billed)
          \/ Due(b.total, b.kind, b.already) <= 0
    /\ route' = [route EXCEPT ![r] = NoRoute]
    /\ UNCHANGED <<table, op, draft, seen>>

(* The ledger's own steps.  The store's void has no route: any other       *)
(* client of the store may call it.                                        *)
LedgerStep(r) ==
    /\ StoreStep(r) \/ (route[r] = NoRoute /\ \E l \in Ledgers : CallVoid(r, l))
    /\ UNCHANGED <<draft, seen, route>>

(* The answer is delivered, or the request dies before or inside the       *)
(* ledger call.                                                            *)
EndRequest(r) ==
    /\ op[r] # Idle \/ route[r] # NoRoute
    /\ op' = [op EXCEPT ![r] = Idle]
    /\ route' = [route EXCEPT ![r] = NoRoute]
    /\ UNCHANGED <<table, draft, seen>>

IssueNext ==
    \/ \E e \in Estimates : SaveDraft(e)
    \/ \E r \in Requests :
          \/ \E e \in Estimates, k \in Kinds : ReadDraft(r, e, k)
          \/ ReadMilestoneSum(r)
          \/ ReadBasisSum(r)
          \/ AskLedger(r)
          \/ Refuse(r)
          \/ LedgerStep(r)
          \/ EndRequest(r)

IssueSpec == IssueInit /\ [][IssueNext]_issueVars

-----------------------------------------------------------------------------
IssueTypeOK ==
    /\ TypeOK
    /\ draft \in [Estimates -> Drafts]
    /\ seen \in [Estimates -> SUBSET Totals]
    /\ route \in [Requests -> Billing \cup {NoRoute}]

(* Whatever issues, voids and saves of the draft overlap, the live         *)
(* invoices of an estimate fit into one contract its draft really came to: *)
(* stale reads may bill against an older draft, but the instalments of two *)
(* drafts together never exceed the larger one, because both parts of the  *)
(* CA split grow with the total.                                           *)
BilledWithinAContract ==
    \A e \in Estimates : \E t \in seen[e] : BilledToDate(e) <= t

(* As long as the draft has kept its total, the books close to the cent:   *)
(* a live invoice is its whole milestone, never a part, so the down        *)
(* payment and the final invoice together are the contract.                *)
BooksClose ==
    \A e \in Estimates, k \in Kinds, t \in Totals :
        seen[e] = {t} => BilledFor(e, k) \in {0, MilestoneAmount(t, k)}

(* The route drives the ledger only through its operations, with amounts   *)
(* the ledger accepts: what holds of the ledger for any callers holds here.*)
UsesTheLedger == Spec

IssuedBy(r) == op[r].pc # "issued" /\ op'[r].pc = "issued" /\ route[r] # NoRoute

(* The assertion of the invoice projection ("billing past the contract"):  *)
(* when a row is issued, what is billed does not exceed the contract the   *)
(* projection was built from.                                              *)
NoBillingPastTheContract ==
    [][\A r \in Requests : IssuedBy(r) =>
          BilledToDate(route[r].est)' <= route[r].total]_issueVars

(* What that assertion does guarantee: a request on whose estimate no more *)
(* is billed, when its row is issued, than the sum it read said, bills     *)
(* within the contract it was built from.  Only a sum that has grown since *)
(* it was read lets a request past the contract; an older draft does not,  *)
(* nor do voids, conflicts and re-issues in between.                       *)
CurrentSumsKeepTheContract ==
    [][\A r \in Requests :
          /\ IssuedBy(r)
          /\ BilledToDate(route[r].est) <= route[r].billed
          => BilledToDate(route[r].est)' <= route[r].total]_issueVars
=============================================================================
