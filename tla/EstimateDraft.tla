---------------------------- MODULE EstimateDraft ----------------------------
(***************************************************************************)
(* One estimate draft (src/api/lib/rightHandAssemblyStore.ts) and the      *)
(* requests that change it: page and voice edits, Use here, the workbook   *)
(* import (src/api/lib/estimateWorkbook.ts), re-assembly and the carry-over*)
(* of a conversion.  Each reads the whole draft, computes a new one and    *)
(* saves the whole of it; nothing holds the draft in between, so a save    *)
(* replaces whatever was saved since the read.  Two fences stand between a *)
(* draft and the client: its gate, stored in the draft and recomputed by   *)
(* the edits, and the render fence of                                      *)
(* src/api/lib/estimateProposalProjection.ts, computed from the lines when *)
(* a proposal or an invoice is built.                                      *)
(***************************************************************************)
EXTENDS Integers, Sequences

CONSTANTS
    Requests,
    LineIds,      \* ids of assembled lines
    RowIds,       \* ids of lines a workbook import adds
    Cents,        \* amounts a line may come to; 0 is an amount
    Assemblies,   \* the line lists an assembly may produce
    MaxLines,     \* bound: lines of a draft
    None

VARIABLES
    draft,        \* the stored draft, or None before the first assembly
    req           \* the request each caller runs

vars == <<draft, req>>

-----------------------------------------------------------------------------
Basis == "source_basis_required"

(* source: source_type (and tier, which says company exactly when it       *)
(* does).  cents: extended_cents, None while unpriced.  ref: what          *)
(* source_ref names, a line of the rate card, a saved rate standard, or    *)
(* neither; of an unpriced line it is whatever the model wrote.  approved: *)
(* graduated by Use here.  added: a new workbook row.  born: the           *)
(* source_type spelled out in the line's id.                               *)
Ids == LineIds \cup RowIds

Sources == {"company", "model", "allowance"}

Refs == {"card", "standard", "other"}

Line == [id : Ids, source : Sources, born : Sources, cents : Cents \cup {None},
         ref : Refs, suggested : BOOLEAN, added : BOOLEAN,
         removed : BOOLEAN, approved : BOOLEAN]

(* reasons and allowed: the gate.  policy: history, whether the policy     *)
(* gate of the assembly this draft descends from blocked it.               *)
Draft == [lines : Seq(Line), reasons : SUBSET {"policy", Basis},
          allowed : BOOLEAN, policy : BOOLEAN]

(* sourceTypeForLine: an unpriced line is an allowance, HIGH confidence is *)
(* company data, the rest is model knowledge.                              *)
Fresh(line) ==
    /\ line.born = line.source
    /\ line.source = "allowance" <=> line.cents = None
    /\ ~line.removed /\ ~line.approved /\ ~line.added

Kinds == {"edit", "workbook", "use_here", "carry"}

(* A request that has read the draft and holds the one it will save;       *)
(* known: how many lines the draft had when it was read.                   *)
Req == [kind : Kinds, held : Draft, known : Nat]

ASSUME DraftAssumption ==
    /\ Cents \subseteq Nat
    /\ None \notin Nat
    /\ None \notin Draft \cup Req
    /\ MaxLines \in Nat
    /\ \A lines \in Assemblies :
          lines \in Seq(Line) /\ \A i \in DOMAIN lines : Fresh(lines[i])

-----------------------------------------------------------------------------
(* lineAmountCents and isPriced: an unpriced line amounts to 0.            *)
Priced(line) == line.cents # None /\ line.cents # 0

(* isActivePricedLine, sourceBasisBlocked.                                 *)
Active(line) == ~line.removed /\ Priced(line)

BasisBlocked(line) == Active(line) /\ line.source # "company"

AnyBlocked(lines) == \E i \in DOMAIN lines : BasisBlocked(lines[i])

RecomputeForgetsOthers(d, lines) ==
    LET reasons == IF AnyBlocked(lines) THEN {Basis} ELSE {} IN
    [d EXCEPT !.lines = lines, !.reasons = reasons, !.allowed = reasons = {}]

RecomputeAmongPriced(d, lines) ==
    LET others == d.reasons \ {Basis}
        kept   == IF AnyBlocked(d.lines) THEN {Basis} ELSE {}
    IN [d EXCEPT !.lines = lines, !.reasons = others \cup kept,
                 !.allowed = (d.allowed \/ others = {}) /\ others \cup kept = {}]

RecomputeUnderAnotherCode(d, lines) ==
    [d EXCEPT !.lines = lines,
              !.reasons = IF AnyBlocked(lines) THEN @ \cup {"rates_not_graduated"} ELSE @,
              !.allowed = @ /\ ~AnyBlocked(lines)]

(* recomputeEstimateGate on the draft with new lines: other reasons stay,  *)
(* the source-basis reason follows the lines.                              *)
Recompute(d, lines) ==
    LET others  == d.reasons \ {Basis}
        reasons == others \cup
                   (IF AnyBlocked(lines) THEN {Basis} ELSE {})
    IN [lines |-> lines, reasons |-> reasons,
        allowed |-> (d.allowed \/ others = {}) /\ reasons = {},
        policy |-> d.policy]

(* The render fence: classifyLine, without its word filter.                *)
HasPriceBasis(line) ==
    line.approved \/ line.ref \in {"card", "standard"} \/ line.source = "allowance"

CardIsEnoughForClient(line) == TRUE

GraduatedForClient(line) ==
    line.approved \/ line.ref = "standard" \/ line.source \in {"company", "allowance"}

Rendered(line) ==
    /\ Active(line)
    /\ HasPriceBasis(line)
    /\ line.suggested => line.approved
    /\ GraduatedForClient(line)

-----------------------------------------------------------------------------
Init ==
    /\ draft = None
    /\ req = [r \in Requests |-> None]

(* POST assemble-estimate: buildRightHandEstimateArtifact from what the    *)
(* estimator answers and what the policy gate says (blocked), saved over   *)
(* the draft.  Its gate counts a line priced at 0 and knows no removal.    *)
Assemble(lines, blocked) ==
    LET reasons ==
          (IF blocked THEN {"policy"} ELSE {}) \cup
          (IF \E i \in DOMAIN lines : lines[i].cents # None
                                      /\ lines[i].source # "company"
           THEN {Basis} ELSE {})
    IN /\ draft' = [lines |-> lines, reasons |-> reasons,
                    allowed |-> ~blocked /\ reasons = {}, policy |-> blocked]
       /\ UNCHANGED req

(* A request reads the draft and computes on its own copy.  No await comes *)
(* between reading and computing (the import only awaits parsing its       *)
(* file), so the first computation reads as well.                          *)
Ready(r, kind) == IF req[r] = None THEN draft # None ELSE req[r].kind = kind

Copy(r) == IF req[r] = None THEN draft ELSE req[r].held

Known(r) == IF req[r] = None THEN Len(draft.lines) ELSE req[r].known

Compute(r, kind, d) ==
    /\ req' = [req EXCEPT ![r] = [kind |-> kind, held |-> d, known |-> Known(r)]]
    /\ UNCHANGED draft

PriceGraduates(line, cents, removed) ==
    [line EXCEPT !.cents = cents, !.removed = removed,
                 !.source = IF cents = line.cents THEN line.source ELSE "company"]

(* An edit changes the amount and the removed flag, and copies the rest.   *)
EditOf(line, cents, removed) == [line EXCEPT !.cents = cents, !.removed = removed]

(* applyRungZeroLineEdit: the first line with the id gets an amount, is    *)
(* removed or restored; source and approval are copied.  One step per edit *)
(* of the apply-loop or row of the workbook; a workbook row removes a line *)
(* the draft was read with or changes its amount, and restores none.       *)
EditLine(r, kind, i, cents, removed) ==
    /\ Ready(r, kind)
    /\ i \in DOMAIN Copy(r).lines
    /\ LET d == Copy(r)
           old == d.lines[i]
       IN /\ \A j \in 1..(i - 1) : d.lines[j].id # old.id
          /\ cents # None \/ old.cents = None
          /\ kind = "workbook" =>
                /\ i <= Known(r)
                /\ old.removed => removed
                /\ removed # old.removed => cents = old.cents
          /\ Compute(r, kind,
                Recompute(d, [d.lines EXCEPT ![i] = EditOf(old, cents, removed)]))

(* A workbook row without a ref: the library line is appended.  The gate   *)
(* is not recomputed.  Importing the same row again appends a second line  *)
(* with the same id.                                                       *)
AddRow(r, id, cents) ==
    /\ Ready(r, "workbook")
    /\ Len(Copy(r).lines) < MaxLines
    /\ Compute(r, "workbook", [Copy(r) EXCEPT !.lines =
                  Append(@, [id |-> id, source |-> "model", born |-> "model",
                             cents |-> cents, ref |-> "card", suggested |-> FALSE,
                             added |-> TRUE, removed |-> FALSE, approved |-> FALSE])])

Graduate(line) ==
    [line EXCEPT !.approved = TRUE, !.source = "company", !.ref = "other"]

(* applyUseHereGraduation: refused unless every line named is active.      *)
UseHere(r, ids) ==
    /\ req[r] = None /\ draft # None
    /\ LET d == draft
           named(line) == line.id \in ids
       IN /\ ids # {} /\ ids \subseteq {d.lines[i].id : i \in DOMAIN d.lines}
          /\ \A i \in DOMAIN d.lines : named(d.lines[i]) => Active(d.lines[i])
          /\ Compute(r, "use_here",
                Recompute(d, [i \in DOMAIN d.lines |->
                                IF named(d.lines[i]) THEN Graduate(d.lines[i])
                                ELSE d.lines[i]]))

(* convert-to-project: the draft as the search read it, with another       *)
(* anchor, is saved after the project's event and the drafts before it.    *)
CarryOver(r) ==
    /\ req[r] = None /\ draft # None
    /\ Compute(r, "carry", draft)

(* The save replaces the whole row.                                        *)
Save(r) ==
    /\ req[r] # None
    /\ draft' = req[r].held
    /\ req' = [req EXCEPT ![r] = None]

(* Refused, or dead: nothing is saved.                                     *)
End(r) ==
    /\ req[r] # None
    /\ req' = [req EXCEPT ![r] = None]
    /\ UNCHANGED draft

Next ==
    \/ \E lines \in Assemblies, blocked \in BOOLEAN : Assemble(lines, blocked)
    \/ \E r \in Requests :
          \/ \E kind \in {"edit", "workbook"}, i \in 1..MaxLines,
                cents \in Cents \cup {None}, removed \in BOOLEAN :
                   EditLine(r, kind, i, cents, removed)
          \/ \E id \in RowIds, cents \in Cents : AddRow(r, id, cents)
          \/ \E ids \in SUBSET Ids : UseHere(r, ids)
          \/ CarryOver(r)
          \/ Save(r)
          \/ End(r)

Spec == Init /\ [][Next]_vars

-----------------------------------------------------------------------------
TypeOK ==
    /\ draft \in Draft \cup {None}
    /\ req \in [Requests -> Req \cup {None}]

(* With the gate open, every price in the draft is company data, but for   *)
(* rows a workbook import added after the last recomputation.              *)
OpenGateMeansApproved ==
    draft # None => (draft.allowed =>
        \A i \in DOMAIN draft.lines :
            BasisBlocked(draft.lines[i]) => draft.lines[i].added)

(* Gate and render fence together: what a client can be shown, and billed, *)
(* is company data by assembly or by Use here, whatever the workbook added *)
(* and however stale the draft a request saved.                            *)
ClientSeesOnlyCompanyData ==
    draft # None => (draft.allowed =>
        \A i \in DOMAIN draft.lines :
            Rendered(draft.lines[i]) =>
                /\ draft.lines[i].source = "company"
                /\ draft.lines[i].born = "company" \/ draft.lines[i].approved)

(* No sequence of edits, imports and approvals washes a policy block out   *)
(* of the gate, or brings one in: only another assembly decides.           *)
PolicyBlockSticks ==
    draft # None =>
        /\ draft.policy = ("policy" \in draft.reasons)
        /\ draft.allowed = (draft.reasons = {})

(* D-065: a line becomes company data only through Use here, never through *)
(* an edit of its amount (applyRungZeroLineEdit, "an edit can never        *)
(* graduate a line").                                                      *)
OnlyUseHereGraduates ==
    draft # None => \A i \in DOMAIN draft.lines :
        LET line == draft.lines[i] IN
        line.source # line.born <=> line.approved /\ line.born # "company"

(* What the comments promise and the code does not keep.                   *)

(* The gate follows the prices: open only when every price is company data.*)
GateFollowsLines ==
    draft # None => (draft.allowed => ~AnyBlocked(draft.lines))

(* "an edit can never graduate a line", of the stored draft: saving an     *)
(* edit leaves no line approved that was not.                              *)
ApprovedIds ==
    IF draft = None THEN {}
    ELSE {draft.lines[i].id : i \in {j \in DOMAIN draft.lines : draft.lines[j].approved}}

EditsNeverGraduate ==
    [][\A r \in Requests :
          Save(r) /\ req[r].kind \in {"edit", "workbook"} =>
              ApprovedIds' \subseteq ApprovedIds]_vars
=============================================================================
