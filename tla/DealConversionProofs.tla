------------------------ MODULE DealConversionProofs ------------------------
(***************************************************************************)
(* Proofs about the conversion of a lead, for any number of requests,      *)
(* estimates and project ids, any failure and any restart.                 *)
(***************************************************************************)
EXTENDS DealConversion, TLAPS

(* What a request holds of the four stores is true of stores in the state  *)
(* given: the projects it names exist, the drafts it will carry have a     *)
(* lead, and past the load the board is in memory.                         *)
GoodReq(q, cr, an, bo, du) ==
    /\ q \in Request \cup {Idle}
    /\ {q.deal, q.project} \cap Projects \subseteq cr
    /\ q.pc = "carry" => q.project \in Projects
    /\ q.pc = "write" => q.deal # Absent
    /\ q.pc = "saveDraft" => du # Absent
    /\ \A e \in q.todo : an[e] # None
    /\ q.pc \in {"search", "create", "carry", "write", "saveDraft"} => bo # Cold

GoodStores ==
    /\ created \subseteq Projects
    /\ anchors \in [Estimates -> Projects \cup {None, Lead}]
    /\ board \in Deals \cup {Cold}
    /\ durable \in Deals
    /\ PointersHaveProjects
    /\ DraftsHaveALead

(* The inductive invariant.                                                *)
DealInv ==
    /\ GoodStores
    /\ req \in [Requests -> Request \cup {Idle}]
    /\ \A r \in Requests : GoodReq(req[r], created, anchors, board, durable)

(* What the other requests rely on: nothing is forgotten but the board,    *)
(* and the board only by a restart.                                        *)
Keeps ==
    /\ created \subseteq created'
    /\ board # Cold => board' # Cold
    /\ durable # Absent => durable' # Absent
    /\ \A e \in Estimates : anchors[e] # None => anchors'[e] # None

-----------------------------------------------------------------------------
(* The idle request is good whatever the stores hold.                      *)
LEMMA IdleIsGood ==
  ASSUME NEW cr, NEW an, NEW bo, NEW du
  PROVE  GoodReq(Idle, cr, an, bo, du)
  BY DealAssumption DEF GoodReq, Idle, Holding, Deals

(* A request that does not move stays good.                                *)
LEMMA GoodStays ==
  ASSUME NEW q, GoodReq(q, created, anchors, board, durable), Keeps
  PROVE  GoodReq(q, created', anchors', board', durable')
  <1>1. q.todo \subseteq Estimates
    BY DEF GoodReq, Request, Idle, Holding
  <1> QED  BY <1>1 DEF GoodReq, Keeps

(* It is enough to look at the stores and at the request that moved.       *)
LEMMA OneMoves ==
  ASSUME DealInv, Keeps, GoodStores', NEW r \in Requests, NEW q,
         GoodReq(q, created', anchors', board', durable'),
         req' = [req EXCEPT ![r] = q]
  PROVE  DealInv'
  <1>1. req' \in [Requests -> Request \cup {Idle}]
    BY DEF DealInv, GoodReq
  <1>2. ASSUME NEW s \in Requests
        PROVE  GoodReq(req'[s], created', anchors', board', durable')
    <2>1. CASE s = r
      BY <2>1 DEF DealInv
    <2>2. CASE s # r
      BY <2>2, GoodStays DEF DealInv
    <2> QED  BY <2>1, <2>2
  <1> QED  BY <1>1, <1>2 DEF DealInv

(* A step that ends a request and leaves the stores alone.                 *)
LEMMA FinishKeeps ==
  ASSUME DealInv, NEW r \in Requests, Finish(r),
         UNCHANGED <<created, anchors, board, durable>>
  PROVE  DealInv'
  <1>1. Keeps /\ GoodStores'
    BY DEF Keeps, DealInv, GoodStores, PointersHaveProjects, DraftsHaveALead
  <1>2. GoodReq(Idle, created', anchors', board', durable')
    BY IdleIsGood
  <1> QED  BY <1>1, <1>2, OneMoves DEF Finish

LEMMA InitDeal == Init => DealInv
  BY DealAssumption DEF Init, DealInv, GoodStores, GoodReq, Idle, Holding, Deals, Marked,
     PointersHaveProjects, DraftsHaveALead

-----------------------------------------------------------------------------
(* With a good board in hand, whatever the request computes is good.       *)
LEMMA ActKeeps ==
  ASSUME DealInv, NEW r \in Requests, NEW op \in Ops, NEW e \in Estimates,
         NEW b \in Deals, {b} \cap Projects \subseteq created, Act(r, op, e, b),
         UNCHANGED <<created, anchors, durable>>
  PROVE  DealInv'
  <1>1. \A d \in Deals : d # Cold /\ Lead \in Deals /\ Design \in Deals
    BY DealAssumption DEF Deals, Marked
  <1>2. ASSUME board' \in Deals, {board'} \cap Projects \subseteq created
        PROVE  Keeps /\ GoodStores'
    BY <1>1, <1>2 DEF Keeps, DealInv, GoodStores, PointersHaveProjects,
       DraftsHaveALead
  <1>3. ASSUME NEW pc \in {"write", "search"}, NEW d \in Deals, d # Absent,
               {d} \cap Projects \subseteq created, board' \in Deals,
               {board'} \cap Projects \subseteq created,
               req' = [req EXCEPT ![r] = Holding(pc, op, e, d)]
        PROVE  DealInv'
    <2> DEFINE q == Holding(pc, op, e, d)
    <2>1. GoodReq(q, created', anchors', board', durable')
      BY <1>1, <1>3, DealAssumption DEF GoodReq, Request, Steps, Holding
    <2> QED  BY <1>2, <1>3, <2>1, OneMoves
  <1>4. CASE op = "assemble" /\ board' = Upsert(b)
             /\ req' = [req EXCEPT ![r] = Holding("write", op, e, Upsert(b))]
    BY <1>1, <1>3, <1>4, DealAssumption DEF Upsert
  <1>5. CASE op = "design" /\ b # Absent /\ board' = EnterDesign(b)
             /\ req' = [req EXCEPT ![r] = Holding("write", op, e, EnterDesign(b))]
    BY <1>1, <1>3, <1>5, DealAssumption DEF EnterDesign
  <1>6. CASE op \in {"other", "convert"} /\ b # Absent /\ board' = b
             /\ \E pc \in {"write", "search"} :
                  req' = [req EXCEPT ![r] = Holding(pc, op, e, b)]
    BY <1>3, <1>6
  <1>7. CASE board' = b /\ Finish(r)
    <2>1. GoodReq(Idle, created', anchors', board', durable')
      BY IdleIsGood
    <2> QED  BY <1>2, <1>7, <2>1, OneMoves DEF Finish
  <1> QED  BY <1>4, <1>5, <1>6, <1>7 DEF Act

(* One step of a request after the load, one lemma per action.             *)
LEMMA CallKeeps ==
  ASSUME DealInv, NEW r \in Requests, NEW op \in Ops, NEW e \in Estimates,
         Call(r, op, e)
  PROVE  DealInv'
  <1>1. CASE board # Cold /\ Act(r, op, e, board)
    <2>1. board \in Deals /\ {board} \cap Projects \subseteq created
      BY <1>1 DEF DealInv, GoodStores, PointersHaveProjects
    <2> QED  BY <1>1, <2>1, ActKeeps DEF Call
  <1>2. CASE /\ req' = [req EXCEPT ![r] = Holding("load", op, e, Absent)]
             /\ UNCHANGED <<created, anchors, board, durable>>
    <2>1. Keeps /\ GoodStores'
      BY <1>2 DEF Keeps, DealInv, GoodStores, PointersHaveProjects,
         DraftsHaveALead
    <2>2. GoodReq(Holding("load", op, e, Absent), created', anchors', board',
                  durable')
      BY DealAssumption DEF GoodReq, Holding, Request, Steps, Deals
    <2> QED  BY <1>2, <2>1, <2>2, OneMoves
  <1> QED  BY <1>1, <1>2 DEF Call

LEMMA LoadKeeps ==
  ASSUME DealInv, NEW r \in Requests, LoadBoard(r)
  PROVE  DealInv'
  <1> DEFINE q == [req[r] EXCEPT !.pc = "install", !.deal = durable]
  <1>1. Keeps /\ GoodStores'
    BY DEF LoadBoard, Keeps, DealInv, GoodStores, PointersHaveProjects,
       DraftsHaveALead
  <1>2. req[r] \in Request
    BY DEF LoadBoard, DealInv, Idle, Holding
  <1>3. req' = [req EXCEPT ![r] = q]
    BY <1>2 DEF LoadBoard, DealInv
  <1>4. GoodReq(q, created', anchors', board', durable')
    <2>1. {durable} \cap Projects \subseteq created /\ durable \in Deals
      BY DEF DealInv, GoodStores, PointersHaveProjects
    <2>2. GoodReq(req[r], created, anchors, board, durable)
      BY DEF DealInv
    <2> QED  BY <1>2, <2>1, <2>2 DEF LoadBoard, GoodReq, Request, Steps
  <1> HIDE DEF q
  <1> QED  BY <1>1, <1>3, <1>4, OneMoves

LEMMA InstallKeeps ==
  ASSUME DealInv, NEW r \in Requests, Install(r)
  PROVE  DealInv'
  <1>1. req[r] \in Request /\ GoodReq(req[r], created, anchors, board, durable)
    BY DEF Install, DealInv, Idle, Holding
  <1>2. /\ req[r].op \in Ops /\ req[r].est \in Estimates
        /\ req[r].deal \in Deals /\ {req[r].deal} \cap Projects \subseteq created
    BY <1>1 DEF Request, GoodReq
  <1> QED  BY <1>2, ActKeeps DEF Install

LEMMA WriteKeeps ==
  ASSUME DealInv, NEW r \in Requests, WriteDeal(r)
  PROVE  DealInv'
  <1>1. req[r] \in Request /\ GoodReq(req[r], created, anchors, board, durable)
    BY DEF WriteDeal, DealInv, Idle, Holding
  <1>2. durable' # Absent /\ Keeps /\ GoodStores'
    BY <1>1 DEF WriteDeal, Keeps, DealInv, GoodStores, PointersHaveProjects,
       DraftsHaveALead, GoodReq, Request
  <1>3. CASE Finish(r)
    BY <1>2, <1>3, IdleIsGood, OneMoves DEF Finish
  <1>4. CASE Goto(r, "saveDraft")
    <2> DEFINE q == [req[r] EXCEPT !.pc = "saveDraft"]
    <2>1. GoodReq(q, created', anchors', board', durable')
      BY <1>1, <1>2 DEF WriteDeal, GoodReq, Request, Steps
    <2>2. req' = [req EXCEPT ![r] = q]
      BY <1>4 DEF Goto
    <2> HIDE DEF q
    <2> QED  BY <1>2, <2>1, <2>2, OneMoves
  <1> QED  BY <1>3, <1>4 DEF WriteDeal

LEMMA SaveDraftKeeps ==
  ASSUME DealInv, NEW r \in Requests, SaveDraft(r)
  PROVE  DealInv'
  <1>1. req[r] \in Request /\ GoodReq(req[r], created, anchors, board, durable)
    BY DEF SaveDraft, DealInv, Idle, Holding
  <1>2. durable # Absent /\ Lead # None /\ Lead \notin Projects
    BY <1>1, DealAssumption DEF SaveDraft, GoodReq
  <1>3. Keeps /\ GoodStores'
    BY <1>2 DEF SaveDraft, Keeps, DealInv, GoodStores, PointersHaveProjects,
       DraftsHaveALead
  <1> QED  BY <1>3, IdleIsGood, OneMoves DEF SaveDraft, Finish

LEMMA SearchKeeps ==
  ASSUME DealInv, NEW r \in Requests, Search(r)
  PROVE  DealInv'
  <1> DEFINE found == {e \in Estimates : anchors[e] # None}
             q     == [req[r] EXCEPT !.pc = "create", !.todo = found]
  <1>1. CASE Finish(r)
    BY <1>1, FinishKeeps DEF Search
  <1>2. CASE req' = [req EXCEPT ![r].pc = "create", ![r].todo = found]
    <2>1. req[r] \in Request /\ GoodReq(req[r], created, anchors, board, durable)
      BY DEF Search, DealInv, Idle, Holding
    <2>2. Keeps /\ GoodStores'
      BY DEF Search, Keeps, DealInv, GoodStores, PointersHaveProjects,
         DraftsHaveALead
    <2>3. GoodReq(q, created', anchors', board', durable')
      BY <2>1 DEF Search, GoodReq, Request, Steps
    <2>4. req' = [req EXCEPT ![r] = q]
      BY <1>2, <2>1 DEF DealInv
    <2> HIDE DEF q
    <2> QED  BY <2>2, <2>3, <2>4, OneMoves
  <1> QED  BY <1>1, <1>2 DEF Search

LEMMA CreateKeeps ==
  ASSUME DealInv, NEW r \in Requests, CreateProject(r)
  PROVE  DealInv'
  <1>1. PICK p \in Projects : /\ created' = created \cup {p}
                             /\ req' = [req EXCEPT ![r].pc = "carry",
                                                   ![r].project = p]
    BY DEF CreateProject
  <1> DEFINE q == [req[r] EXCEPT !.pc = "carry", !.project = p]
  <1>2. req[r] \in Request /\ GoodReq(req[r], created, anchors, board, durable)
    BY DEF CreateProject, DealInv, Idle, Holding
  <1>3. Keeps /\ GoodStores'
    BY <1>1 DEF CreateProject, Keeps, DealInv, GoodStores,
       PointersHaveProjects, DraftsHaveALead
  <1>4. GoodReq(q, created', anchors', board', durable')
    BY <1>1, <1>2 DEF CreateProject, GoodReq, Request, Steps
  <1>5. req' = [req EXCEPT ![r] = q]
    BY <1>1, <1>2 DEF DealInv
  <1> HIDE DEF q
  <1> QED  BY <1>3, <1>4, <1>5, OneMoves

LEMMA CarryKeeps ==
  ASSUME DealInv, NEW r \in Requests, CarryDraft(r)
  PROVE  DealInv'
  <1>1. PICK e \in req[r].todo : /\ anchors' = [anchors EXCEPT ![e] = req[r].project]
                                /\ req' = [req EXCEPT ![r].todo = @ \ {e}]
    BY DEF CarryDraft
  <1> DEFINE q == [req[r] EXCEPT !.todo = @ \ {e}]
  <1>2. req[r] \in Request /\ GoodReq(req[r], created, anchors, board, durable)
    BY DEF CarryDraft, DealInv, Idle, Holding
  <1>3. /\ e \in Estimates /\ anchors[e] # None
        /\ req[r].project \in Projects /\ req[r].project \in created
    BY <1>2 DEF CarryDraft, GoodReq, Request
  <1>4. None \notin Projects
    BY DealAssumption
  <1>5. Keeps /\ GoodStores'
    BY <1>1, <1>3, <1>4 DEF CarryDraft, Keeps, DealInv, GoodStores,
       PointersHaveProjects, DraftsHaveALead
  <1>6. GoodReq(q, created', anchors', board', durable')
    <2>1. GoodReq(req[r], created', anchors', board', durable')
      BY <1>2, <1>5, GoodStays
    <2> QED  BY <1>2, <2>1 DEF GoodReq, Request
  <1>7. req' = [req EXCEPT ![r] = q]
    BY <1>1, <1>2 DEF DealInv
  <1> HIDE DEF q
  <1> QED  BY <1>5, <1>6, <1>7, OneMoves

LEMMA MarkKeeps ==
  ASSUME DealInv, NEW r \in Requests, MarkDeal(r)
  PROVE  DealInv'
  <1> DEFINE deal == MarkDealConverted(board, req[r].project)
             q    == [req[r] EXCEPT !.pc = "write", !.deal = deal]
  <1>1. req[r] \in Request /\ GoodReq(req[r], created, anchors, board, durable)
    BY DEF MarkDeal, DealInv, Idle, Holding
  <1>2. deal \in Deals /\ {deal} \cap Projects \subseteq created
    BY <1>1 DEF MarkDeal, GoodReq, DealInv, GoodStores, PointersHaveProjects,
       MarkDealConverted, Deals, Marked
  <1>3. deal # Cold
    BY <1>2, DealAssumption
  <1>4. Keeps /\ GoodStores'
    BY <1>2, <1>3 DEF MarkDeal, Keeps, DealInv, GoodStores,
       PointersHaveProjects, DraftsHaveALead
  <1>5. CASE Finish(r)
    BY <1>4, <1>5, IdleIsGood, OneMoves DEF Finish
  <1>6. CASE deal # Absent
             /\ req' = [req EXCEPT ![r].pc = "write", ![r].deal = deal]
    <2>1. GoodReq(q, created', anchors', board', durable')
      BY <1>1, <1>2, <1>3, <1>6 DEF MarkDeal, GoodReq, Request, Steps
    <2>2. req' = [req EXCEPT ![r] = q]
      BY <1>1, <1>6 DEF DealInv
    <2> HIDE DEF q
    <2> QED  BY <1>4, <2>1, <2>2, OneMoves
  <1> QED  BY <1>5, <1>6 DEF MarkDeal

LEMMA RestartKeeps == DealInv /\ Restart => DealInv'
  <1> SUFFICES ASSUME DealInv, Restart PROVE DealInv'
    OBVIOUS
  <1>1. GoodStores'
    BY DealAssumption DEF Restart, DealInv, GoodStores, PointersHaveProjects,
       DraftsHaveALead
  <1> QED  BY <1>1, IdleIsGood DEF Restart, DealInv

(* The step: one case per action of Next.                                  *)
LEMMA NextDeal == DealInv /\ [Next]_vars => DealInv'
  <1> SUFFICES ASSUME DealInv, [Next]_vars PROVE DealInv'
    OBVIOUS
  <1>1. CASE Restart
    BY <1>1, RestartKeeps
  <1>2. ASSUME NEW r \in Requests, NEW op \in Ops, NEW e \in Estimates,
               Call(r, op, e)
        PROVE  DealInv'
    BY <1>2, CallKeeps
  <1>3. ASSUME NEW r \in Requests, LoadBoard(r) PROVE DealInv'
    BY <1>3, LoadKeeps
  <1>4. ASSUME NEW r \in Requests, Install(r) PROVE DealInv'
    BY <1>4, InstallKeeps
  <1>5. ASSUME NEW r \in Requests, WriteDeal(r) PROVE DealInv'
    BY <1>5, WriteKeeps
  <1>6. ASSUME NEW r \in Requests, SaveDraft(r) PROVE DealInv'
    BY <1>6, SaveDraftKeeps
  <1>7. ASSUME NEW r \in Requests, Search(r) PROVE DealInv'
    BY <1>7, SearchKeeps
  <1>8. ASSUME NEW r \in Requests, CreateProject(r) PROVE DealInv'
    BY <1>8, CreateKeeps
  <1>9. ASSUME NEW r \in Requests, CarryDraft(r) PROVE DealInv'
    BY <1>9, CarryKeeps
  <1>10. ASSUME NEW r \in Requests, MarkDeal(r) PROVE DealInv'
    BY <1>10, MarkKeeps
  <1>11. ASSUME NEW r \in Requests, Fail(r) PROVE DealInv'
    BY <1>11, FinishKeeps DEF Fail
  <1>12. CASE UNCHANGED vars
    BY <1>12 DEF vars, DealInv, GoodStores, PointersHaveProjects,
       DraftsHaveALead
  <1> QED
    BY <1>1, <1>2, <1>3, <1>4, <1>5, <1>6, <1>7, <1>8, <1>9, <1>10, <1>11,
       <1>12 DEF Next

LEMMA DealInvariant == Spec => []DealInv
  BY InitDeal, NextDeal, PTL DEF Spec

-----------------------------------------------------------------------------
(* The stores and the requests hold what the model says they hold.         *)
THEOREM DealTypesHold == Spec => []TypeOK
  <1>1. DealInv => TypeOK
    BY DEF DealInv, GoodStores, TypeOK
  <1> QED  BY <1>1, DealInvariant, PTL

(* Crash, failure or race: no draft, row or board names a project whose    *)
(* project.created event is not in the log.                                *)
THEOREM NoDanglingProject == Spec => []PointersHaveProjects
  <1>1. DealInv => PointersHaveProjects
    BY DEF DealInv, GoodStores
  <1> QED  BY <1>1, DealInvariant, PTL

(* A stored draft has its lead on the durable board.                       *)
THEOREM NoOrphanDraft == Spec => []DraftsHaveALead
  <1>1. DealInv => DraftsHaveALead
    BY DEF DealInv, GoodStores
  <1> QED  BY <1>1, DealInvariant, PTL

(* No operation re-points a lead that carries a project_id; what can take  *)
(* the marker away is a restart or a load that began before it was set.    *)
THEOREM MarkerIsOneWay == Spec => MarkerIsNotRepointed
  <1>1. ASSUME DealInv, [Next]_vars, board \in Marked, board' # board
        PROVE  board' = Cold \/ \E r \in Requests : Install(r)
    <2>1. Absent \notin Marked /\ Lead \notin Marked /\ board # Cold
      BY <1>1, DealAssumption DEF Marked, Deals
    <2>2. ASSUME NEW r \in Requests, NEW op \in Ops, NEW e \in Estimates,
                 Call(r, op, e)
          PROVE  board' = board
      BY <1>1, <2>1, <2>2 DEF Call, Act, Upsert, EnterDesign
    <2>3. ASSUME NEW r \in Requests, MarkDeal(r)
          PROVE  board' = board
      BY <1>1, <2>1, <2>3 DEF MarkDeal, MarkDealConverted
    <2> QED
      BY <1>1, <2>2, <2>3 DEF Next, vars, Restart, LoadBoard, WriteDeal,
         SaveDraft, Search, CreateProject, CarryDraft, Fail
  <1>2. DealInv /\ [Next]_vars =>
          ((board \in Marked /\ board' # board)
             => (board' = Cold \/ \E r \in Requests : Install(r)))
    BY <1>1
  <1> QED  BY <1>2, DealInvariant, PTL DEF Spec, MarkerIsNotRepointed
-----------------------------------------------------------------------------
(* The discipline under which a lead does become one project: requests one *)
(* at a time, and none dies between its project.created and the write of   *)
(* the marked deal.                                                        *)
Halfway(q) == q.op = "convert" /\ q.pc \in {"carry", "write"}

Alone(r) == \A s \in Requests \ {r} : req[s] = Idle

OrderlyNext ==
    \/ Restart /\ \A r \in Requests : ~Halfway(req[r])
    \/ \E r \in Requests :
          \/ \E op \in Ops, e \in Estimates : Call(r, op, e) /\ Alone(r)
          \/ LoadBoard(r)
          \/ Install(r)
          \/ WriteDeal(r)
          \/ SaveDraft(r)
          \/ Search(r)
          \/ CreateProject(r)
          \/ CarryDraft(r)
          \/ MarkDeal(r)
          \/ Fail(r) /\ ~Halfway(req[r])

OrderlySpec == Init /\ [][OrderlyNext]_vars

(* What the one request at work may count on: the board is the one it saw, *)
(* and unless it is halfway itself, a project has its mark on the board    *)
(* and on the durable one.                                                 *)
OrderlyReq(q, cr, bo, du) ==
    /\ q.pc \in {"search", "create", "carry", "write"} => bo = q.deal
    /\ q.pc \in {"search", "create", "carry"} => q.op = "convert"
    /\ q.pc \in {"create", "carry"} => q.deal = Lead
    /\ q.pc = "create" => cr = {}
    /\ q.pc = "install" => q.deal = du
    /\ cr # {} =>
          /\ ~Halfway(q) => du \in Marked /\ bo \in Marked \cup {Cold}
          /\ q.pc = "write" => q.deal \in Marked

OrderlyInv ==
    /\ OneProjectPerLead
    /\ \A r, s \in Requests : req[r] # Idle /\ req[s] # Idle => r = s
    /\ \A r \in Requests :
          Alone(r) => OrderlyReq(req[r], created, board, durable)

LEMMA WorkerIsAlone ==
  ASSUME DealInv, OrderlyInv, NEW r \in Requests, req[r] # Idle
  PROVE  Alone(r) /\ OrderlyReq(req[r], created, board, durable)
  BY DEF OrderlyInv, Alone

(* It is enough to look at the one request that moves.                     *)
LEMMA OneWorks ==
  ASSUME NEW r \in Requests, Alone(r), OneProjectPerLead',
         \A s \in Requests \ {r} : req'[s] = req[s],
         OrderlyReq(req'[r], created', board', durable')
  PROVE  OrderlyInv'
  <1>1. \A s \in Requests \ {r} : req'[s] = Idle
    BY DEF Alone
  <1>2. ASSUME NEW s \in Requests, s # r, Alone(s)'
        PROVE  req'[s] = req'[r]
    BY <1>1, <1>2 DEF Alone
  <1>3. ASSUME NEW s \in Requests, Alone(s)'
        PROVE  OrderlyReq(req[s], created, board, durable)'
    <2>1. req'[s] = req'[r]
      BY <1>2, <1>3
    <2>2. QED
      BY <2>1 DEF OrderlyReq, Halfway
  <1>4. \A s, t \in Requests : req'[s] # Idle /\ req'[t] # Idle => s = t
    BY <1>1
  <1>5. QED
    BY <1>3, <1>4 DEF OrderlyInv

LEMMA Constants ==
  /\ Projects \subseteq Marked /\ Marked \subseteq Deals /\ Lead \in Deals
  /\ Design \in Marked
  /\ Lead \notin Marked /\ Absent \notin Marked /\ Cold \notin Deals
  /\ Lead # Absent
  BY DealAssumption DEF Marked, Deals

LEMMA OrderlyAct ==
  ASSUME DealInv, OrderlyInv, NEW r \in Requests, Alone(r), NEW op \in Ops, NEW e,
         NEW b \in Deals, created # {} => b \in Marked, Act(r, op, e, b),
         created # {} => durable \in Marked,
         UNCHANGED <<created, anchors, durable>>
  PROVE  OrderlyInv'
  <1>1. OneProjectPerLead'
    BY DEF OrderlyInv, OneProjectPerLead
  <1>2. ASSUME NEW d \in Deals, NEW pc \in {"search", "write"},
               pc = "search" => op = "convert",
               created # {} => d \in Marked, board' = d,
               req' = [req EXCEPT ![r] = Holding(pc, op, e, d)]
        PROVE  OrderlyInv'
    <2>1. OrderlyReq(Holding(pc, op, e, d), created', board', durable')
      BY <1>2 DEF OrderlyReq, Holding, Halfway
    <2>2. QED
      BY <1>1, <1>2, <2>1, OneWorks DEF DealInv
  <1>3. CASE op = "assemble" /\ board' = Upsert(b)
             /\ req' = [req EXCEPT ![r] = Holding("write", op, e, Upsert(b))]
    BY <1>2, <1>3, Constants DEF Upsert
  <1>4. CASE op = "design" /\ board' = EnterDesign(b)
             /\ req' = [req EXCEPT ![r] = Holding("write", op, e, EnterDesign(b))]
    BY <1>2, <1>4, Constants DEF EnterDesign
  <1>5. CASE \/ /\ op = "other" /\ board' = b
                /\ req' = [req EXCEPT ![r] = Holding("write", op, e, b)]
             \/ /\ op = "convert" /\ board' = b
                /\ req' = [req EXCEPT ![r] = Holding("search", op, e, b)]
    BY <1>2, <1>5
  <1>6. CASE board' = b /\ Finish(r)
    <2>1. OrderlyReq(Idle, created', board', durable')
      BY <1>6 DEF OrderlyReq, Idle, Holding
    <2>2. QED
      BY <1>1, <1>6, <2>1, OneWorks DEF Finish, DealInv
  <1>7. QED
    BY <1>3, <1>4, <1>5, <1>6 DEF Act

LEMMA OrderlyCall ==
  ASSUME DealInv, OrderlyInv, NEW r \in Requests, NEW op \in Ops,
         NEW e \in Estimates, Call(r, op, e), Alone(r)
  PROVE  OrderlyInv'
  <1>1. OrderlyReq(Idle, created, board, durable) /\ req[r] = Idle
    BY DEF Call, OrderlyInv
  <1>2. created # {} => durable \in Marked /\ board \in Marked \cup {Cold}
    BY <1>1 DEF OrderlyReq, Halfway, Idle, Holding
  <1>3. CASE board # Cold /\ Act(r, op, e, board)
    <2>1. board \in Deals
      BY <1>3 DEF DealInv, GoodStores
    <2>2. UNCHANGED <<created, anchors, durable>>
      BY DEF Call
    <2>3. QED
      BY <1>2, <1>3, <2>1, <2>2, OrderlyAct
  <1>4. CASE /\ req' = [req EXCEPT ![r] = Holding("load", op, e, Absent)]
             /\ UNCHANGED board
    <2>1. UNCHANGED <<created, durable>>
      BY DEF Call
    <2>2. OrderlyReq(Holding("load", op, e, Absent), created', board', durable')
      BY <1>2, <1>4, <2>1 DEF OrderlyReq, Holding, Halfway
    <2>3. OneProjectPerLead'
      BY <2>1 DEF OrderlyInv, OneProjectPerLead
    <2>4. QED
      BY <1>4, <2>2, <2>3, OneWorks DEF DealInv
  <1>5. QED
    BY <1>3, <1>4 DEF Call

LEMMA OrderlyInstall ==
  ASSUME DealInv, OrderlyInv, NEW r \in Requests, Install(r)
  PROVE  OrderlyInv'
  <1>1. req[r] # Idle
    BY DEF Install, Idle, Holding
  <1>2. Alone(r) /\ OrderlyReq(req[r], created, board, durable)
    BY <1>1, WorkerIsAlone
  <1>3. req[r] \in Request /\ req[r].deal = durable
    BY <1>1, <1>2 DEF Install, OrderlyReq, DealInv
  <1>4. created # {} => durable \in Marked
    BY <1>2 DEF OrderlyReq, Halfway, Install
  <1>5. PICK op \in Ops, e \in Estimates, b \in Deals :
           op = req[r].op /\ e = req[r].est /\ b = req[r].deal
    BY <1>3 DEF Request
  <1>6. Act(r, op, e, b)
    BY <1>5 DEF Install
  <1>7. QED
    BY <1>2, <1>3, <1>4, <1>5, <1>6, OrderlyAct DEF Install

(* A step that ends the request, or moves it on with the deal it holds.    *)
LEMMA OrderlyEnd ==
  ASSUME DealInv, NEW r \in Requests, Alone(r), Finish(r), OneProjectPerLead',
         created' # {} => durable' \in Marked /\ board' \in Marked \cup {Cold}
  PROVE  OrderlyInv'
  <1>1. req'[r] = Idle /\ \A s \in Requests \ {r} : req'[s] = req[s]
    BY DEF Finish, DealInv
  <1>2. OrderlyReq(req'[r], created', board', durable')
    BY <1>1 DEF OrderlyReq, Halfway, Idle, Holding
  <1>3. QED
    BY <1>1, <1>2, OneWorks

LEMMA OrderlyLoadBoard ==
  ASSUME DealInv, OrderlyInv, NEW r \in Requests, LoadBoard(r)
  PROVE  OrderlyInv'
  <1>1. req[r] # Idle /\ UNCHANGED <<created, board, durable>>
    BY DEF LoadBoard, Idle, Holding
  <1>2. Alone(r) /\ OrderlyReq(req[r], created, board, durable)
    BY <1>1, WorkerIsAlone
  <1>3. /\ req'[r].pc = "install" /\ req'[r].deal = durable
        /\ \A s \in Requests \ {r} : req'[s] = req[s]
    BY <1>1 DEF LoadBoard, DealInv, Request
  <1>4. OrderlyReq(req'[r], created', board', durable')
    BY <1>1, <1>2, <1>3 DEF OrderlyReq, Halfway, LoadBoard
  <1>5. OneProjectPerLead'
    BY <1>1 DEF OrderlyInv, OneProjectPerLead
  <1>6. QED
    BY <1>2, <1>3, <1>4, <1>5, OneWorks

LEMMA OrderlyWriteDeal ==
  ASSUME DealInv, OrderlyInv, NEW r \in Requests, WriteDeal(r)
  PROVE  OrderlyInv'
  <1>1. req[r] # Idle /\ UNCHANGED <<created, board>> /\ durable' = req[r].deal
    BY DEF WriteDeal, Idle, Holding
  <1>2. Alone(r) /\ OrderlyReq(req[r], created, board, durable)
    BY <1>1, WorkerIsAlone
  <1>3. created' # {} => durable' \in Marked /\ board' \in Marked \cup {Cold}
    BY <1>1, <1>2 DEF OrderlyReq, WriteDeal
  <1>4. OneProjectPerLead'
    BY <1>1 DEF OrderlyInv, OneProjectPerLead
  <1>5. CASE Finish(r)
    BY <1>2, <1>3, <1>4, <1>5, OrderlyEnd
  <1>6. CASE Goto(r, "saveDraft")
    <2>1. /\ req'[r].pc = "saveDraft"
          /\ \A s \in Requests \ {r} : req'[s] = req[s]
      BY <1>1, <1>6 DEF Goto, DealInv, Request
    <2>2. OrderlyReq(req'[r], created', board', durable')
      BY <1>3, <2>1 DEF OrderlyReq, Halfway
    <2>3. QED
      BY <1>2, <1>4, <2>1, <2>2, OneWorks
  <1>7. QED
    BY <1>5, <1>6 DEF WriteDeal

LEMMA OrderlySaveDraft ==
  ASSUME DealInv, OrderlyInv, NEW r \in Requests, SaveDraft(r)
  PROVE  OrderlyInv'
  <1>1. req[r] # Idle /\ UNCHANGED <<created, board, durable>> /\ Finish(r)
    BY DEF SaveDraft, Idle, Holding
  <1>2. Alone(r) /\ OrderlyReq(req[r], created, board, durable)
    BY <1>1, WorkerIsAlone
  <1>3. created' # {} => durable' \in Marked /\ board' \in Marked \cup {Cold}
    BY <1>1, <1>2 DEF OrderlyReq, Halfway, SaveDraft
  <1>4. OneProjectPerLead'
    BY <1>1 DEF OrderlyInv, OneProjectPerLead
  <1>5. QED
    BY <1>1, <1>2, <1>3, <1>4, OrderlyEnd

(* A search that finds the lead unmarked finds that it has no project.     *)
LEMMA OrderlySearch ==
  ASSUME DealInv, OrderlyInv, NEW r \in Requests, Search(r)
  PROVE  OrderlyInv'
  <1>1. req[r] # Idle /\ UNCHANGED <<created, board, durable>>
    BY DEF Search, Idle, Holding
  <1>2. Alone(r) /\ OrderlyReq(req[r], created, board, durable)
    BY <1>1, WorkerIsAlone
  <1>3. created # {} => durable \in Marked /\ board \in Marked \cup {Cold}
    BY <1>2 DEF OrderlyReq, Halfway, Search
  <1>4. OneProjectPerLead'
    BY <1>1 DEF OrderlyInv, OneProjectPerLead
  <1>5. CASE Finish(r)
    BY <1>1, <1>2, <1>3, <1>4, <1>5, OrderlyEnd
  <1>6. ASSUME req[r].deal = Lead, NEW found,
               req' = [req EXCEPT ![r].pc = "create", ![r].todo = found]
        PROVE  OrderlyInv'
    <2>1. req[r] \in Request /\ req[r].op = "convert" /\ board = Lead
      BY <1>1, <1>2, <1>6 DEF DealInv, OrderlyReq, Search
    <2>2. created = {}
      BY <1>3, <2>1, Constants
    <2>3. /\ req'[r].pc = "create" /\ req'[r].op = "convert"
          /\ req'[r].deal = Lead
          /\ \A s \in Requests \ {r} : req'[s] = req[s]
      BY <1>6, <2>1 DEF DealInv, Request
    <2>4. OrderlyReq(req'[r], created', board', durable')
      BY <1>1, <2>1, <2>2, <2>3 DEF OrderlyReq
    <2>5. QED
      BY <1>2, <1>4, <2>3, <2>4, OneWorks
  <1>7. QED
    BY <1>5, <1>6 DEF Search

LEMMA OrderlyCreate ==
  ASSUME DealInv, OrderlyInv, NEW r \in Requests, CreateProject(r)
  PROVE  OrderlyInv'
  <1>1. PICK p \in Projects :
           /\ created' = created \cup {p}
           /\ req' = [req EXCEPT ![r].pc = "carry", ![r].project = p]
    BY DEF CreateProject
  <1>2. req[r] # Idle /\ UNCHANGED <<board, durable>>
    BY DEF CreateProject, Idle, Holding
  <1>3. Alone(r) /\ OrderlyReq(req[r], created, board, durable)
    BY <1>2, WorkerIsAlone
  <1>4. /\ req[r] \in Request /\ req[r].op = "convert"
        /\ req[r].deal = Lead /\ board = Lead /\ created = {}
    BY <1>2, <1>3 DEF DealInv, OrderlyReq, CreateProject
  <1>5. /\ req'[r].pc = "carry" /\ req'[r].op = "convert"
        /\ req'[r].deal = Lead
        /\ \A s \in Requests \ {r} : req'[s] = req[s]
    BY <1>1, <1>4 DEF DealInv, Request
  <1>6. OrderlyReq(req'[r], created', board', durable')
    BY <1>2, <1>4, <1>5 DEF OrderlyReq, Halfway
  <1>7. OneProjectPerLead'
    BY <1>1, <1>4 DEF OneProjectPerLead
  <1>8. QED
    BY <1>3, <1>5, <1>6, <1>7, OneWorks

LEMMA OrderlyCarry ==
  ASSUME DealInv, OrderlyInv, NEW r \in Requests, CarryDraft(r)
  PROVE  OrderlyInv'
  <1>1. req[r] # Idle /\ UNCHANGED <<created, board, durable>>
    BY DEF CarryDraft, Idle, Holding
  <1>2. Alone(r) /\ OrderlyReq(req[r], created, board, durable)
    BY <1>1, WorkerIsAlone
  <1>3. /\ req'[r].pc = req[r].pc /\ req'[r].op = req[r].op
        /\ req'[r].deal = req[r].deal
        /\ \A s \in Requests \ {r} : req'[s] = req[s]
    BY <1>1 DEF CarryDraft, DealInv, Request
  <1>4. OrderlyReq(req'[r], created', board', durable')
    BY <1>1, <1>2, <1>3 DEF OrderlyReq, Halfway
  <1>5. OneProjectPerLead'
    BY <1>1 DEF OrderlyInv, OneProjectPerLead
  <1>6. QED
    BY <1>2, <1>3, <1>4, <1>5, OneWorks

(* The lead is still as the conversion found it, so the mark is set.       *)
LEMMA OrderlyMark ==
  ASSUME DealInv, OrderlyInv, NEW r \in Requests, MarkDeal(r)
  PROVE  OrderlyInv'
  <1>1. req[r] # Idle /\ UNCHANGED <<created, durable>>
    BY DEF MarkDeal, Idle, Holding
  <1>2. Alone(r) /\ OrderlyReq(req[r], created, board, durable)
    BY <1>1, WorkerIsAlone
  <1>3. /\ req[r] \in Request /\ req[r].op = "convert" /\ board = Lead
        /\ req[r].project \in Marked
    BY <1>1, <1>2, Constants DEF DealInv, GoodReq, OrderlyReq, MarkDeal
  <1>4. /\ board' = req[r].project
        /\ req' = [req EXCEPT ![r].pc = "write", ![r].deal = req[r].project]
    BY <1>3, Constants DEF MarkDeal, MarkDealConverted
  <1>5. /\ req'[r].pc = "write" /\ req'[r].op = "convert"
        /\ req'[r].deal = req[r].project
        /\ \A s \in Requests \ {r} : req'[s] = req[s]
    BY <1>3, <1>4 DEF DealInv, Request
  <1>6. OrderlyReq(req'[r], created', board', durable')
    BY <1>3, <1>4, <1>5 DEF OrderlyReq, Halfway
  <1>7. OneProjectPerLead'
    BY <1>1 DEF OrderlyInv, OneProjectPerLead
  <1>8. QED
    BY <1>2, <1>5, <1>6, <1>7, OneWorks

LEMMA OrderlyFail ==
  ASSUME DealInv, OrderlyInv, NEW r \in Requests, Fail(r), ~Halfway(req[r])
  PROVE  OrderlyInv'
  <1>1. req[r] # Idle /\ UNCHANGED <<created, board, durable>> /\ Finish(r)
    BY DEF Fail
  <1>2. Alone(r) /\ OrderlyReq(req[r], created, board, durable)
    BY <1>1, WorkerIsAlone
  <1>3. created' # {} => durable' \in Marked /\ board' \in Marked \cup {Cold}
    BY <1>1, <1>2 DEF OrderlyReq
  <1>4. OneProjectPerLead'
    BY <1>1 DEF OrderlyInv, OneProjectPerLead
  <1>5. QED
    BY <1>1, <1>2, <1>3, <1>4, OrderlyEnd

LEMMA OrderlyRestart ==
  ASSUME DealInv, OrderlyInv, Restart, \A r \in Requests : ~Halfway(req[r])
  PROVE  OrderlyInv'
  <1>1. /\ UNCHANGED <<created, durable>>
        /\ board' = Cold
        /\ \A r \in Requests : req'[r] = Idle
    BY DEF Restart
  <1>2. OneProjectPerLead'
    BY <1>1 DEF OrderlyInv, OneProjectPerLead
  <1>3. ASSUME NEW r \in Requests
        PROVE  OrderlyReq(req[r], created, board, durable)'
    <2>1. PICK s \in Requests : Alone(s)
      BY DEF OrderlyInv, Alone
    <2>2. created # {} => durable \in Marked
      BY <2>1 DEF OrderlyInv, OrderlyReq
    <2>3. req'[r].pc = "idle"
      BY <1>1 DEF Idle, Holding
    <2>4. QED
      BY <1>1, <2>2, <2>3 DEF OrderlyReq, Halfway
  <1>4. QED
    BY <1>1, <1>2, <1>3 DEF OrderlyInv

LEMMA OrderlyStep ==
  ASSUME DealInv, OrderlyInv, [OrderlyNext]_vars
  PROVE  OrderlyInv'
  <1>1. CASE UNCHANGED vars
    BY <1>1 DEF vars, OrderlyInv, OrderlyReq, Halfway, Alone, OneProjectPerLead
  <1>2. CASE Restart /\ \A r \in Requests : ~Halfway(req[r])
    BY <1>2, OrderlyRestart
  <1>3. QED
    BY <1>1, <1>2, OrderlyCall, OrderlyLoadBoard, OrderlyInstall, OrderlyWriteDeal,
       OrderlySaveDraft, OrderlySearch, OrderlyCreate, OrderlyCarry, OrderlyMark,
       OrderlyFail DEF OrderlyNext

(* "ONE-WAY (409 once converted)": a lead becomes one project when its     *)
(* requests come one at a time and none dies halfway, restarts and         *)
(* failures anywhere else included.  Overlap and that one window are all   *)
(* that OneProjectPerLead fails by.                                        *)
THEOREM OrderlyMeansOneProject == OrderlySpec => []OneProjectPerLead
  <1>1. Init => OrderlyInv
    BY DEF Init, OrderlyInv, OneProjectPerLead, OrderlyReq, Idle, Holding
  <1>2. [OrderlyNext]_vars => [Next]_vars
    BY DEF OrderlyNext, Next
  <1>3. DealInv /\ OrderlyInv /\ [OrderlyNext]_vars => DealInv' /\ OrderlyInv'
    BY <1>2, NextDeal, OrderlyStep
  <1>4. OrderlyInv => OneProjectPerLead
    BY DEF OrderlyInv
  <1>5. QED
    BY <1>1, <1>3, <1>4, InitDeal, PTL DEF OrderlySpec
=============================================================================
