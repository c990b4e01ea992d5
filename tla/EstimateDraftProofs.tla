------------------------- MODULE EstimateDraftProofs -------------------------
(***************************************************************************)
(* Proofs about the gate and the render fence of an estimate draft, for    *)
(* any number of requests in flight, lines and amounts.                    *)
(***************************************************************************)
EXTENDS EstimateDraft, TLAPS

(* A line is company data by assembly or by approval, and nothing else.    *)
GoodLine(line) ==
    /\ line \in Line
    /\ line.approved => line.source = "company"
    /\ ~line.approved => line.source = line.born
    /\ line.added => line.born = "model" /\ line.ref # "standard"

GateHolds(d) ==
    /\ d.policy = ("policy" \in d.reasons)
    /\ d.allowed = (d.reasons = {})
    /\ d.allowed => \A i \in DOMAIN d.lines :
                       BasisBlocked(d.lines[i]) => d.lines[i].added

GoodDraft(d) ==
    /\ d \in Draft
    /\ \A i \in DOMAIN d.lines : GoodLine(d.lines[i])
    /\ GateHolds(d)

(* The inductive invariant: the stored draft and every copy that a request *)
(* will save are good, so that no stale save can store a bad one.          *)
DraftInv ==
    /\ draft # None => GoodDraft(draft)
    /\ draft \in Draft \cup {None}
    /\ req \in [Requests -> Req \cup {None}]
    /\ \A r \in Requests : req[r] # None => GoodDraft(req[r].held)

-----------------------------------------------------------------------------
(* Recomputing the gate makes a draft of good lines good.                  *)
LEMMA RecomputeGood ==
  ASSUME NEW d, GoodDraft(d), NEW lines \in Seq(Line),
         \A i \in DOMAIN lines : GoodLine(lines[i])
  PROVE  GoodDraft(Recompute(d, lines))
  <1> DEFINE others  == d.reasons \ {Basis}
             reasons == others \cup (IF AnyBlocked(lines) THEN {Basis} ELSE {})
             allowed == (d.allowed \/ others = {}) /\ reasons = {}
             new     == Recompute(d, lines)
  <1>1. /\ d \in Draft
        /\ d.policy = ("policy" \in d.reasons)
        /\ d.allowed = (d.reasons = {})
    BY DEF GoodDraft, GateHolds
  <1>2. reasons \in SUBSET {"policy", Basis} /\ allowed \in BOOLEAN
    BY <1>1 DEF Draft
  <1>3. new = [lines |-> lines, reasons |-> reasons, allowed |-> allowed,
               policy |-> d.policy]
    BY DEF Recompute
  <1>4. new \in Draft
    BY <1>1, <1>2, <1>3 DEF Draft
  <1>5. /\ new.lines = lines /\ new.reasons = reasons
        /\ new.allowed = allowed /\ new.policy = d.policy
    BY <1>3
  <1>6. new.policy = ("policy" \in new.reasons)
    BY <1>1, <1>5 DEF Basis
  <1>7. reasons = {} => others = {}
    OBVIOUS
  <1>8. new.allowed = (new.reasons = {})
    BY <1>5, <1>7
  <1>9. ASSUME new.allowed, NEW i \in DOMAIN new.lines
        PROVE  ~BasisBlocked(new.lines[i])
    BY <1>5, <1>9 DEF AnyBlocked
  <1> HIDE DEF new
  <1>10. GoodDraft(new)
    BY <1>4, <1>5, <1>6, <1>8, <1>9 DEF GoodDraft, GateHolds
  <1>11. QED
    BY <1>10 DEF new

(* What a request works on is good.                                        *)
LEMMA CopyGood ==
  ASSUME DraftInv, NEW r \in Requests, NEW kind \in Kinds, Ready(r, kind)
  PROVE  GoodDraft(Copy(r)) /\ Copy(r) \in Draft /\ Known(r) \in Nat
  <1>1. CASE req[r] = None
    <2>1. draft # None
      BY <1>1 DEF Ready
    <2>2. draft \in Draft /\ GoodDraft(draft)
      BY <2>1 DEF DraftInv
    <2>3. Len(draft.lines) \in Nat
      BY <2>2 DEF Draft
    <2>4. QED
      BY <1>1, <2>2, <2>3 DEF Copy, Known
  <1>2. CASE req[r] # None
    <2>1. req[r] \in Req
      BY <1>2 DEF DraftInv
    <2>2. QED
      BY <1>2, <2>1 DEF DraftInv, Copy, Known, Req
  <1>3. QED
    BY <1>1, <1>2

(* Holding a good draft keeps the invariant.                               *)
LEMMA HoldingKeeps ==
  ASSUME DraftInv, NEW r \in Requests, NEW kind \in Kinds, Ready(r, kind),
         NEW d, GoodDraft(d), Compute(r, kind, d)
  PROVE  DraftInv'
  <1> DEFINE new == [kind |-> kind, held |-> d, known |-> Known(r)]
  <1>1. new \in Req /\ new.held = d
    BY CopyGood DEF Req, GoodDraft
  <1>2. UNCHANGED draft /\ req' = [req EXCEPT ![r] = new]
    BY DEF Compute
  <1> HIDE DEF new
  <1>3. QED
    BY <1>1, <1>2 DEF DraftInv

LEMMA EditKeeps ==
  ASSUME DraftInv, NEW r \in Requests, NEW kind \in {"edit", "workbook"},
         NEW i \in 1..MaxLines, NEW cents \in Cents \cup {None},
         NEW removed \in BOOLEAN, EditLine(r, kind, i, cents, removed)
  PROVE  DraftInv'
  <1> DEFINE d == Copy(r)
             new == EditOf(d.lines[i], cents, removed)
             lines == [d.lines EXCEPT ![i] = new]
  <1>1. GoodDraft(d) /\ d \in Draft /\ kind \in Kinds /\ Ready(r, kind)
    BY CopyGood DEF EditLine, Kinds
  <1>2. i \in DOMAIN d.lines /\ d.lines \in Seq(Line)
    BY <1>1 DEF EditLine, Draft
  <1>3. GoodLine(d.lines[i])
    BY <1>1, <1>2 DEF GoodDraft
  <1>4. GoodLine(new)
    BY <1>3 DEF GoodLine, EditOf, Line
  <1>5. new \in Line
    BY <1>4 DEF GoodLine
  <1> HIDE DEF new
  <1>6. lines \in Seq(Line) /\ DOMAIN lines = DOMAIN d.lines
    BY <1>2, <1>5
  <1>7. \A j \in DOMAIN lines : GoodLine(lines[j])
    BY <1>1, <1>2, <1>4, <1>6 DEF GoodDraft
  <1>8. Compute(r, kind, Recompute(d, lines))
    BY DEF EditLine, new
  <1> HIDE DEF lines, d
  <1>9. GoodDraft(Recompute(d, lines))
    BY <1>1, <1>6, <1>7, RecomputeGood
  <1>10. QED
    BY <1>1, <1>8, <1>9, HoldingKeeps

(* A row appended to a draft is the exception the gate allows.             *)
LEMMA AddKeeps ==
  ASSUME DraftInv, NEW r \in Requests, NEW id \in RowIds, NEW cents \in Cents,
         AddRow(r, id, cents)
  PROVE  DraftInv'
  <1> DEFINE d == Copy(r)
             row == [id |-> id, source |-> "model", born |-> "model",
                     cents |-> cents, ref |-> "card", suggested |-> FALSE,
                     added |-> TRUE, removed |-> FALSE, approved |-> FALSE]
             lines == Append(d.lines, row)
             new == [d EXCEPT !.lines = lines]
  <1>1. "workbook" \in Kinds /\ Ready(r, "workbook")
    BY DEF Kinds, AddRow
  <1>2. GoodDraft(d) /\ d \in Draft
    BY <1>1, CopyGood
  <1>3. d.lines \in Seq(Line)
    BY <1>2 DEF Draft
  <1>4. GoodLine(row) /\ row \in Line /\ row.added
    BY DEF GoodLine, Line, Ids, Sources, Refs
  <1> HIDE DEF row
  <1>5. /\ lines \in Seq(Line)
        /\ DOMAIN lines = (DOMAIN d.lines) \cup {Len(d.lines) + 1}
        /\ \A i \in DOMAIN d.lines : lines[i] = d.lines[i]
        /\ lines[Len(d.lines) + 1] = row
    BY <1>3, <1>4
  <1>6. Compute(r, "workbook", new)
    BY DEF AddRow, row
  <1> HIDE DEF lines
  <1>7. /\ new \in Draft /\ new.lines = lines
        /\ new.reasons = d.reasons /\ new.allowed = d.allowed
        /\ new.policy = d.policy
    BY <1>2, <1>5 DEF Draft
  <1> HIDE DEF new, d
  <1>8. \A i \in DOMAIN lines : GoodLine(lines[i])
    BY <1>2, <1>4, <1>5 DEF GoodDraft
  <1>9. GateHolds(new)
    BY <1>2, <1>4, <1>5, <1>7 DEF GoodDraft, GateHolds
  <1>10. GoodDraft(new)
    BY <1>7, <1>8, <1>9 DEF GoodDraft
  <1>11. QED
    BY <1>1, <1>6, <1>10, HoldingKeeps

LEMMA UseHereKeeps ==
  ASSUME DraftInv, NEW r \in Requests, NEW ids \in SUBSET Ids, UseHere(r, ids)
  PROVE  DraftInv'
  <1> DEFINE new(line) == IF line.id \in ids THEN Graduate(line) ELSE line
             lines == [i \in DOMAIN draft.lines |-> new(draft.lines[i])]
  <1>1. "use_here" \in Kinds /\ Ready(r, "use_here")
    BY DEF Kinds, Ready, UseHere
  <1>2. GoodDraft(draft) /\ draft \in Draft
    BY DEF UseHere, DraftInv
  <1>3. draft.lines \in Seq(Line)
    BY <1>2 DEF Draft
  <1>4. ASSUME NEW i \in DOMAIN draft.lines
        PROVE  GoodLine(new(draft.lines[i])) /\ new(draft.lines[i]) \in Line
    <2>1. GoodLine(draft.lines[i])
      BY <1>2 DEF GoodDraft
    <2>2. QED
      BY <2>1 DEF GoodLine, Graduate, Line, Sources, Refs
  <1>5. Compute(r, "use_here", Recompute(draft, lines))
    BY DEF UseHere
  <1> HIDE DEF new
  <1>6. lines \in Seq(Line) /\ DOMAIN lines = DOMAIN draft.lines
    BY <1>3, <1>4
  <1>7. \A i \in DOMAIN lines : GoodLine(lines[i])
    BY <1>4, <1>6
  <1> HIDE DEF lines
  <1>8. GoodDraft(Recompute(draft, lines))
    BY <1>2, <1>6, <1>7, RecomputeGood
  <1>9. QED
    BY <1>1, <1>5, <1>8, HoldingKeeps

(* A fresh assembly is good: its gate counts every price it cannot back.   *)
LEMMA AssembleKeeps ==
  ASSUME DraftInv, NEW lines \in Assemblies, NEW blocked \in BOOLEAN,
         Assemble(lines, blocked)
  PROVE  DraftInv'
  <1> DEFINE unbacked == \E i \in DOMAIN lines : /\ lines[i].cents # None
                                                /\ lines[i].source # "company"
             reasons == (IF blocked THEN {"policy"} ELSE {}) \cup
                        (IF unbacked THEN {Basis} ELSE {})
  <1>1. lines \in Seq(Line) /\ \A i \in DOMAIN lines : Fresh(lines[i])
    BY DraftAssumption
  <1>2. \A i \in DOMAIN lines : lines[i] \in Line
    BY <1>1
  <1>3. \A i \in DOMAIN lines : GoodLine(lines[i])
    BY <1>1, <1>2 DEF GoodLine, Fresh
  <1>4. draft' = [lines |-> lines, reasons |-> reasons,
                  allowed |-> ~blocked /\ reasons = {}, policy |-> blocked]
    BY DEF Assemble
  <1>5. draft' \in Draft
    BY <1>1, <1>4 DEF Draft
  <1>6. /\ draft'.lines = lines /\ draft'.reasons = reasons
        /\ draft'.allowed = (~blocked /\ reasons = {})
        /\ draft'.policy = blocked
    BY <1>4
  <1>7. draft'.policy = ("policy" \in draft'.reasons)
    BY <1>6 DEF Basis
  <1>8. draft'.allowed = (draft'.reasons = {})
    BY <1>6
  <1>9. ASSUME draft'.allowed, NEW i \in DOMAIN lines
        PROVE  ~BasisBlocked(lines[i])
    BY <1>6, <1>9 DEF BasisBlocked, Active, Priced
  <1>10. GoodDraft(draft')
    BY <1>3, <1>5, <1>6, <1>7, <1>8, <1>9 DEF GoodDraft, GateHolds
  <1>11. UNCHANGED req
    BY DEF Assemble
  <1>12. DraftInv!2' /\ DraftInv!3' /\ DraftInv!4'
    BY <1>5, <1>11 DEF DraftInv
  <1>13. QED
    BY <1>10, <1>12 DEF DraftInv

-----------------------------------------------------------------------------
LEMMA DraftInitEstablishes == Init => DraftInv
  BY DEF Init, DraftInv

LEMMA DraftStepKeeps == DraftInv /\ [Next]_vars => DraftInv'
  <1> SUFFICES ASSUME DraftInv, [Next]_vars PROVE DraftInv'
    OBVIOUS
  <1>1. ASSUME NEW lines \in Assemblies, NEW blocked \in BOOLEAN,
               Assemble(lines, blocked)
        PROVE  DraftInv'
    BY <1>1, AssembleKeeps
  <1>2. ASSUME NEW r \in Requests, NEW kind \in {"edit", "workbook"},
               NEW i \in 1..MaxLines, NEW cents \in Cents \cup {None},
               NEW removed \in BOOLEAN, EditLine(r, kind, i, cents, removed)
        PROVE  DraftInv'
    BY <1>2, EditKeeps
  <1>3. ASSUME NEW r \in Requests, NEW id \in RowIds, NEW cents \in Cents,
               AddRow(r, id, cents)
        PROVE  DraftInv'
    BY <1>3, AddKeeps
  <1>4. ASSUME NEW r \in Requests, NEW ids \in SUBSET Ids, UseHere(r, ids)
        PROVE  DraftInv'
    BY <1>4, UseHereKeeps
  <1>5. ASSUME NEW r \in Requests, CarryOver(r)
        PROVE  DraftInv'
    <2>1. GoodDraft(draft) /\ "carry" \in Kinds /\ Ready(r, "carry")
      BY <1>5 DEF CarryOver, DraftInv, Kinds, Ready
    <2>2. QED
      BY <1>5, <2>1, HoldingKeeps DEF CarryOver
  <1>6. ASSUME NEW r \in Requests, Save(r)
        PROVE  DraftInv'
    <2>1. GoodDraft(req[r].held)
      BY <1>6 DEF Save, DraftInv
    <2>2. req[r].held \in Draft
      BY <2>1 DEF GoodDraft
    <2>3. QED
      BY <1>6, <2>1, <2>2 DEF Save, DraftInv
  <1>7. ASSUME NEW r \in Requests, End(r)
        PROVE  DraftInv'
    BY <1>7 DEF End, DraftInv
  <1>8. CASE UNCHANGED vars
    BY <1>8 DEF vars, DraftInv
  <1>9. QED
    BY <1>1, <1>2, <1>3, <1>4, <1>5, <1>6, <1>7, <1>8 DEF Next

THEOREM DraftInvariant == Spec => []DraftInv
  BY DraftInitEstablishes, DraftStepKeeps, PTL DEF Spec

(* The types of the stored draft and of the copies requests hold.          *)
THEOREM DraftTypesHold == Spec => []TypeOK
  <1>1. DraftInv => TypeOK
    BY DEF DraftInv, TypeOK
  <1>2. QED
    BY <1>1, DraftInvariant, PTL

(* An open gate leaves no price unapproved but those of rows an import     *)
(* added.                                                                  *)
THEOREM GateKeepsPrices == Spec => []OpenGateMeansApproved
  <1>1. DraftInv => OpenGateMeansApproved
    BY DEF DraftInv, GoodDraft, GateHolds, OpenGateMeansApproved
  <1>2. QED
    BY <1>1, DraftInvariant, PTL

(* What the client can be shown is company data: the render fence closes   *)
(* what the gate leaves open.                                              *)
LEMMA FencesClose == DraftInv => ClientSeesOnlyCompanyData
  <1> SUFFICES ASSUME DraftInv, draft # None, draft.allowed,
                      NEW i \in DOMAIN draft.lines, Rendered(draft.lines[i])
               PROVE  /\ draft.lines[i].source = "company"
                      /\ draft.lines[i].born = "company" \/ draft.lines[i].approved
    BY DEF ClientSeesOnlyCompanyData
  <1> DEFINE line == draft.lines[i]
  <1>1. GoodDraft(draft) /\ GoodLine(line)
    BY DEF DraftInv, GoodDraft
  <1>2. CASE line.source = "company"
    BY <1>1, <1>2 DEF GoodLine
  <1>3. CASE line.source # "company"
    <2>1. line.added
      BY <1>1, <1>3 DEF Rendered, BasisBlocked, GoodDraft, GateHolds
    <2>2. ~line.approved /\ line.source = "model" /\ line.ref # "standard"
      BY <1>1, <1>3, <2>1 DEF GoodLine
    <2>3. QED
      BY <2>2 DEF Rendered, GraduatedForClient
  <1>4. QED
    BY <1>2, <1>3

THEOREM ClientIsSafe == Spec => []ClientSeesOnlyCompanyData
  BY FencesClose, DraftInvariant, PTL

(* A policy block survives every edit, import and approval.                *)
THEOREM PolicyStays == Spec => []PolicyBlockSticks
  <1>1. DraftInv => PolicyBlockSticks
    BY DEF DraftInv, GoodDraft, GateHolds, PolicyBlockSticks
  <1>2. QED
    BY <1>1, DraftInvariant, PTL

(* A price edit never turns a line into company data.                      *)
THEOREM EditsDoNotGraduate == Spec => []OnlyUseHereGraduates
  <1>1. DraftInv => OnlyUseHereGraduates
    BY DEF DraftInv, GoodDraft, GoodLine, OnlyUseHereGraduates
  <1>2. QED
    BY <1>1, DraftInvariant, PTL
-----------------------------------------------------------------------------
(* The discipline under which an edit never graduates a line of the stored *)
(* draft either: the draft does not change while a request holds a copy of *)
(* it, but by that request's own save.                                     *)
Undisturbed ==
    draft' # draft => \A r \in Requests : req[r] # None => Save(r)

UndisturbedSpec == Init /\ [][Next /\ Undisturbed]_vars

Edits == {"edit", "workbook"}

ApprovedOf(d) ==
    {d.lines[i].id : i \in {j \in DOMAIN d.lines : d.lines[j].approved}}

(* An edit holds no approval that the stored draft lacks.                  *)
EditsApproveNothing ==
    \A r \in Requests : req[r] # None /\ req[r].kind \in Edits =>
        draft # None /\ ApprovedOf(req[r].held) \subseteq ApprovedOf(draft)

LEMMA CopyApprovesNothing ==
  ASSUME DraftInv, EditsApproveNothing, NEW r \in Requests, NEW kind \in Edits,
         Ready(r, kind)
  PROVE  draft # None /\ ApprovedOf(Copy(r)) \subseteq ApprovedOf(draft)
  BY DEF EditsApproveNothing, Ready, Copy

(* One line changed or one row added, none of them approved anew.          *)
LEMMA EditCopiesApproval ==
  ASSUME DraftInv, NEW r \in Requests, NEW kind \in Edits, NEW i \in 1..MaxLines,
         NEW cents \in Cents \cup {None}, NEW removed \in BOOLEAN,
         EditLine(r, kind, i, cents, removed)
  PROVE  \E d : Compute(r, kind, d) /\ ApprovedOf(d) \subseteq ApprovedOf(Copy(r))
  <1> DEFINE d == Copy(r)
             new == EditOf(d.lines[i], cents, removed)
             lines == [d.lines EXCEPT ![i] = new]
  <1>1. d \in Draft /\ i \in DOMAIN d.lines
    BY CopyGood DEF EditLine, Kinds, Edits
  <1>2. d.lines \in Seq(Line) /\ d.lines[i] \in Line
    BY <1>1 DEF Draft
  <1>3. new.id = d.lines[i].id /\ new.approved = d.lines[i].approved
    BY <1>2 DEF EditOf, Line
  <1>4. Compute(r, kind, Recompute(d, lines))
    BY DEF EditLine
  <1> HIDE DEF new
  <1>5. /\ DOMAIN lines = DOMAIN d.lines
        /\ lines[i] = new
        /\ \A j \in DOMAIN d.lines : j # i => lines[j] = d.lines[j]
    BY <1>1, <1>2
  <1> HIDE DEF lines
  <1>6. Recompute(d, lines).lines = lines
    BY DEF Recompute
  <1>7. ApprovedOf(Recompute(d, lines)) \subseteq ApprovedOf(d)
    BY <1>1, <1>3, <1>5, <1>6 DEF ApprovedOf
  <1>8. QED
    BY <1>4, <1>7

LEMMA RowBringsNoApproval ==
  ASSUME DraftInv, NEW r \in Requests, NEW id \in RowIds, NEW cents \in Cents,
         AddRow(r, id, cents)
  PROVE  \E d : Compute(r, "workbook", d)
                 /\ ApprovedOf(d) \subseteq ApprovedOf(Copy(r))
  <1> DEFINE d == Copy(r)
             row == [id |-> id, source |-> "model", born |-> "model",
                     cents |-> cents, ref |-> "card", suggested |-> FALSE,
                     added |-> TRUE, removed |-> FALSE, approved |-> FALSE]
             lines == Append(d.lines, row)
             new == [d EXCEPT !.lines = lines]
  <1>1. d \in Draft
    BY CopyGood DEF AddRow, Kinds
  <1>2. d.lines \in Seq(Line) /\ row \in Line /\ ~row.approved
    BY <1>1 DEF Draft, Line, Ids, Sources, Refs
  <1>3. Compute(r, "workbook", new)
    BY DEF AddRow
  <1> HIDE DEF row
  <1>4. /\ DOMAIN lines = (DOMAIN d.lines) \cup {Len(d.lines) + 1}
        /\ lines[Len(d.lines) + 1] = row
        /\ \A j \in DOMAIN d.lines : lines[j] = d.lines[j]
    BY <1>2
  <1> HIDE DEF lines
  <1>5. new.lines = lines
    BY <1>1 DEF Draft
  <1> HIDE DEF new
  <1>6. ApprovedOf(new) \subseteq ApprovedOf(d)
    BY <1>2, <1>4, <1>5 DEF ApprovedOf
  <1>7. QED
    BY <1>3, <1>6

(* Whoever changes the draft leaves no request holding a copy of the old.  *)
LEMMA NoCopyOutlives ==
  ASSUME Next, Undisturbed, draft' # draft, req \in [Requests -> Req \cup {None}]
  PROVE  \A r \in Requests : req'[r] = None
  <1> SUFFICES ASSUME NEW r \in Requests PROVE req'[r] = None
    OBVIOUS
  <1>1. CASE \E s \in Requests : Save(s)
    BY <1>1 DEF Undisturbed, Save
  <1>2. CASE \A s \in Requests : ~Save(s)
    <2>1. req[r] = None
      BY <1>2 DEF Undisturbed
    <2>2. \E lines \in Assemblies, blocked \in BOOLEAN : Assemble(lines, blocked)
      <3>1. ASSUME NEW s \in Requests, NEW kind, NEW d, Compute(s, kind, d)
            PROVE  FALSE
        BY <3>1 DEF Compute
      <3>2. ASSUME NEW s \in Requests, NEW kind, NEW i, NEW cents, NEW removed,
                   EditLine(s, kind, i, cents, removed)
            PROVE  FALSE
        BY <3>1, <3>2 DEF EditLine
      <3>3. ASSUME NEW s \in Requests, NEW id, NEW cents, AddRow(s, id, cents)
            PROVE  FALSE
        BY <3>1, <3>3 DEF AddRow
      <3>4. ASSUME NEW s \in Requests, NEW ids,
                   UseHere(s, ids) \/ CarryOver(s) \/ End(s)
            PROVE  FALSE
        BY <3>1, <3>4 DEF UseHere, CarryOver, End
      <3>5. QED
        BY <1>2, <3>2, <3>3, <3>4 DEF Next
    <2>3. QED
      BY <2>1, <2>2 DEF Assemble
  <1>3. QED
    BY <1>1, <1>2

LEMMA UndisturbedStepKeeps ==
  ASSUME DraftInv, EditsApproveNothing, [Next /\ Undisturbed]_vars
  PROVE  EditsApproveNothing'
  <1> SUFFICES \A r \in Requests : req'[r] # None /\ req'[r].kind \in Edits =>
                  draft' # None /\ ApprovedOf(req'[r].held) \subseteq ApprovedOf(draft')
    BY DEF EditsApproveNothing, ApprovedOf
  <1> DEFINE Kept ==
        \A r \in Requests : req'[r] # None /\ req'[r].kind \in Edits =>
            draft' # None /\ ApprovedOf(req'[r].held) \subseteq ApprovedOf(draft')
  <1>1. CASE UNCHANGED vars
    BY <1>1 DEF vars, EditsApproveNothing
  <1>2. CASE Next /\ Undisturbed /\ draft' # draft
    BY <1>2, NoCopyOutlives DEF EditsApproveNothing, DraftInv
  <1>3. ASSUME NEW r \in Requests, NEW kind \in Edits, Ready(r, kind),
               \E d : Compute(r, kind, d) /\ ApprovedOf(d) \subseteq ApprovedOf(Copy(r))
        PROVE  Kept
    <2>1. PICK d : Compute(r, kind, d) /\ ApprovedOf(d) \subseteq ApprovedOf(Copy(r))
      BY <1>3
    <2>2. draft # None /\ ApprovedOf(d) \subseteq ApprovedOf(draft)
      BY <1>3, <2>1, CopyApprovesNothing
    <2>3. PICK n : /\ req' = [req EXCEPT ![r] = [kind |-> kind, held |-> d, known |-> n]]
                   /\ UNCHANGED draft
      BY <2>1 DEF Compute
    <2>4. /\ req'[r].held = d
          /\ \A s \in Requests \ {r} : req'[s] = req[s]
      BY <2>3 DEF DraftInv
    <2>5. QED
      BY <2>2, <2>3, <2>4 DEF EditsApproveNothing
  <1>4. ASSUME NEW r \in Requests, NEW kind \in Kinds \ Edits, NEW d,
               Compute(r, kind, d)
        PROVE  Kept
    <2>1. /\ UNCHANGED draft
          /\ req'[r].kind = kind
          /\ \A s \in Requests \ {r} : req'[s] = req[s]
      BY <1>4 DEF Compute, DraftInv
    <2>2. QED
      BY <2>1 DEF EditsApproveNothing
  <1>5. ASSUME Next, UNCHANGED draft
        PROVE  Kept
    <2>1. ASSUME NEW lines \in Assemblies, NEW blocked \in BOOLEAN,
                 Assemble(lines, blocked)
          PROVE  Kept
      BY <1>5, <2>1 DEF Assemble, EditsApproveNothing
    <2>2. ASSUME NEW r \in Requests, NEW kind \in Edits, NEW i \in 1..MaxLines,
                 NEW cents \in Cents \cup {None}, NEW removed \in BOOLEAN,
                 EditLine(r, kind, i, cents, removed)
          PROVE  Kept
      BY <1>3, <2>2, EditCopiesApproval DEF EditLine
    <2>3. ASSUME NEW r \in Requests, NEW id \in RowIds, NEW cents \in Cents,
                 AddRow(r, id, cents)
          PROVE  Kept
      BY <1>3, <2>3, RowBringsNoApproval DEF AddRow, Edits
    <2>4. ASSUME NEW r \in Requests, NEW ids \in SUBSET Ids,
                 UseHere(r, ids) \/ CarryOver(r)
          PROVE  Kept
      <3>1. \E kind \in Kinds \ Edits : \E d : Compute(r, kind, d)
        BY <2>4 DEF UseHere, CarryOver, Kinds, Edits
      <3>2. QED
        BY <1>4, <3>1
    <2>5. ASSUME NEW r \in Requests, Save(r) \/ End(r)
          PROVE  Kept
      BY <1>5, <2>5 DEF Save, End, EditsApproveNothing, DraftInv
    <2> HIDE DEF Kept
    <2>6. QED
      BY <1>5, <2>1, <2>2, <2>3, <2>4, <2>5 DEF Next, Edits
  <1>6. QED
    BY <1>1, <1>2, <1>5

(* "An edit can never graduate a line", of the stored draft: so it is when *)
(* the draft stands still between an edit's read and its save.  Overlap is *)
(* all that EditsNeverGraduate fails by.                                   *)
THEOREM UndisturbedEditsNeverGraduate == UndisturbedSpec => EditsNeverGraduate
  <1>1. Init => DraftInv /\ EditsApproveNothing
    BY DraftInitEstablishes DEF Init, EditsApproveNothing
  <1>2. DraftInv /\ EditsApproveNothing /\ [Next /\ Undisturbed]_vars
          => DraftInv' /\ EditsApproveNothing'
    <2>1. [Next /\ Undisturbed]_vars => [Next]_vars
      OBVIOUS
    <2>2. QED
      BY <2>1, DraftStepKeeps, UndisturbedStepKeeps
  <1>3. ASSUME DraftInv, EditsApproveNothing
        PROVE  \A r \in Requests :
                  Save(r) /\ req[r].kind \in {"edit", "workbook"} =>
                      ApprovedIds' \subseteq ApprovedIds
    <2> SUFFICES ASSUME NEW r \in Requests, Save(r), req[r].kind \in Edits
                 PROVE  ApprovedIds' \subseteq ApprovedIds
      BY DEF Edits
    <2>1. draft # None /\ ApprovedOf(req[r].held) \subseteq ApprovedOf(draft)
      BY <1>3 DEF Save, EditsApproveNothing
    <2>2. draft' = req[r].held /\ req[r].held \in Draft
      BY <1>3 DEF Save, DraftInv, GoodDraft
    <2>3. ApprovedIds' = ApprovedOf(req[r].held) /\ ApprovedIds = ApprovedOf(draft)
      BY <2>1, <2>2, DraftAssumption DEF ApprovedIds, ApprovedOf
    <2>4. QED
      BY <2>1, <2>3
  <1>4. QED
    BY <1>1, <1>2, <1>3, PTL DEF UndisturbedSpec, EditsNeverGraduate
=============================================================================
