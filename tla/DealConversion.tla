--------------------------- MODULE DealConversion ---------------------------
(***************************************************************************)
(* A lead becomes a project: POST convert-to-project, assemble-estimate    *)
(* (src/api/routes/rightHandTurn.ts), enter-design and every other write   *)
(* of the sales board (src/api/routes/salesDesignKb.ts) against one lead.  *)
(* Four stores take part, and no transaction spans two of them:            *)
(*   created   project.created events in the event log, a file;            *)
(*   anchors   the estimate drafts, rows in Postgres;                      *)
(*   board     the sales board of src/sales/store.ts in the memory of the  *)
(*             one server process, loaded when first used;                 *)
(*   durable   its rows in Postgres, each rewritten from the board.        *)
(* Requests interleave at their awaits, one may fail at any of them, and   *)
(* the process stops and starts (fly.toml auto_stop_machines), which       *)
(* empties the board and ends every request.                               *)
(***************************************************************************)
CONSTANTS
    Requests,
    Estimates,    \* estimate drafts of the lead
    Projects,     \* the ids a conversion may mint (proj_<time>)
    None,
    Absent,       \* the lead is not on the board
    Lead,         \* on the board without a project_id
    Design,       \* the project_id enter-design derives from the deal's id
    Cold          \* the board has not been loaded since the process started

VARIABLES created, anchors, board, durable, req

vars == <<created, anchors, board, durable, req>>

-----------------------------------------------------------------------------
Marked == Projects \cup {Design}

Deals == {Absent, Lead} \cup Marked

ASSUME DealAssumption ==
    /\ Projects \cap {None, Absent, Lead, Design, Cold} = {}
    /\ None # Absent /\ None # Lead /\ None # Design
    /\ Absent # Lead /\ Absent # Design /\ Lead # Design
    /\ Cold \notin Deals

(* "other": any route that changes another part of the board and persists  *)
(* the whole of it.                                                        *)
Ops == {"assemble", "convert", "design", "other"}

Steps == {"load", "install", "search", "create", "carry", "write", "saveDraft"}

(* deal: the deal row the request holds; todo: drafts yet to re-anchor.    *)
Request == [pc : Steps, op : Ops, est : Estimates, deal : Deals,
            todo : SUBSET Estimates, project : Projects \cup {None}]

Holding(pc, op, e, deal) ==
    [pc |-> pc, op |-> op, est |-> e, deal |-> deal, todo |-> {},
     project |-> None]

Idle == Holding("idle", None, None, Absent)

Goto(r, step) == req' = [req EXCEPT ![r].pc = step]

Finish(r) == req' = [req EXCEPT ![r] = Idle]

-----------------------------------------------------------------------------
Init ==
    /\ created = {}
    /\ anchors = [e \in Estimates |-> None]
    /\ board = Cold
    /\ durable = Absent
    /\ req = [r \in Requests |-> Idle]

(* upsertEstimatingDeal keeps the project_id of a deal it finds.           *)
Upsert(deal) == IF deal = Absent THEN Lead ELSE deal

(* enterDesign.                                                            *)
EnterDesign(deal) == IF deal = Lead THEN Design ELSE deal

RepointingMark(deal, p) == IF deal = Absent THEN Absent ELSE p

(* markDealConverted: a deal with a project_id is left alone.              *)
MarkDealConverted(deal, p) == IF deal = Lead THEN p ELSE deal

(* With the board in memory and the lead on it as b, the request computes, *)
(* without an await, up to its next statement.  persistSalesStore takes    *)
(* the rows to write from the board now and writes them later.             *)
Act(r, op, e, b) ==
    \/ /\ op = "assemble"
       /\ board' = Upsert(b)
       /\ req' = [req EXCEPT ![r] = Holding("write", op, e, Upsert(b))]
    \/ /\ op = "design" /\ b # Absent
       /\ board' = EnterDesign(b)
       /\ req' = [req EXCEPT ![r] = Holding("write", op, e, EnterDesign(b))]
    \/ /\ op = "other" /\ b # Absent
       /\ board' = b
       /\ req' = [req EXCEPT ![r] = Holding("write", op, e, b)]
    \/ /\ op = "convert" /\ b # Absent
       /\ board' = b
       /\ req' = [req EXCEPT ![r] = Holding("search", op, e, b)]
    \/ /\ op # "assemble" /\ b = Absent
       /\ board' = b
       /\ Finish(r)

(* loadSalesStore: from the memory of the process, or else from Postgres.  *)
Call(r, op, e) ==
    /\ req[r] = Idle
    /\ \/ /\ board # Cold
          /\ Act(r, op, e, board)
       \/ /\ board = Cold
          /\ req' = [req EXCEPT ![r] = Holding("load", op, e, Absent)]
          /\ UNCHANGED board
    /\ UNCHANGED <<created, anchors, durable>>

LoadFromMemory(r) ==
    /\ req[r].pc = "load"
    /\ req' = [req EXCEPT ![r].pc = "install", ![r].deal = board]
    /\ UNCHANGED <<created, anchors, board, durable>>

LoadBoard(r) ==
    /\ req[r].pc = "load"
    /\ req' = [req EXCEPT ![r].pc = "install", ![r].deal = durable]
    /\ UNCHANGED <<created, anchors, board, durable>>

(* What was loaded becomes the board, also when another request loaded and *)
(* changed it meanwhile.                                                   *)
Install(r) ==
    /\ req[r].pc = "install"
    /\ Act(r, req[r].op, req[r].est, req[r].deal)
    /\ UNCHANGED <<created, anchors, durable>>

PersistInBackground(r) ==
    /\ req[r].pc = "write"
    /\ IF req[r].op = "assemble" THEN /\ UNCHANGED durable
                                     /\ Goto(r, "saveDraft")
       ELSE durable' = req[r].deal /\ Finish(r)
    /\ UNCHANGED <<created, anchors, board>>

(* The deal's row is written as it was when the persist began.             *)
WriteDeal(r) ==
    /\ req[r].pc = "write"
    /\ durable' = req[r].deal
    /\ IF req[r].op = "assemble" THEN Goto(r, "saveDraft") ELSE Finish(r)
    /\ UNCHANGED <<created, anchors, board>>

SaveDraft(r) ==
    /\ req[r].pc = "saveDraft"
    /\ anchors' = [anchors EXCEPT ![req[r].est] = Lead]
    /\ Finish(r)
    /\ UNCHANGED <<created, board, durable>>

(* The drafts of the deal are read.  409 when the deal, as it was before   *)
(* this read, carries a project_id, or a draft is anchored to a project.   *)
Search(r) ==
    /\ req[r].pc = "search"
    /\ LET found == {e \in Estimates : anchors[e] # None} IN
       \/ /\ req[r].deal \in Marked \/ \E e \in found : anchors[e] \in Projects
          /\ Finish(r)
       \/ /\ req[r].deal = Lead
          /\ \A e \in found : anchors[e] = Lead
          /\ req' = [req EXCEPT ![r].pc = "create", ![r].todo = found]
    /\ UNCHANGED <<created, anchors, board, durable>>

CreateProjectLate(r) ==
    /\ req[r].pc = "create"
    /\ \E p \in Projects :
          req' = [req EXCEPT ![r].pc = "carry", ![r].project = p]
    /\ UNCHANGED <<created, anchors, board, durable>>

(* project.created is appended under an id made from the clock; conversions *)
(* of one millisecond share it.  An append that returns is taken to stand:  *)
(* EventStore shows that one may be acknowledged and lost on the torn line  *)
(* of another (eventStore.ts:156), which this module leaves out.            *)
CreateProject(r) ==
    /\ req[r].pc = "create"
    /\ \E p \in Projects :
          /\ created' = created \cup {p}
          /\ req' = [req EXCEPT ![r].pc = "carry", ![r].project = p]
    /\ UNCHANGED <<anchors, board, durable>>

(* One draft is saved with its new anchor.                                 *)
CarryDraft(r) ==
    /\ req[r].pc = "carry"
    /\ \E e \in req[r].todo :
          /\ anchors' = [anchors EXCEPT ![e] = req[r].project]
          /\ req' = [req EXCEPT ![r].todo = @ \ {e}]
    /\ UNCHANGED <<created, board, durable>>

(* All are: mark the deal and persist the board.                           *)
MarkDeal(r) ==
    /\ req[r].pc = "carry" /\ req[r].todo = {}
    /\ LET deal == MarkDealConverted(board, req[r].project) IN
          /\ board' = deal
          /\ IF deal = Absent THEN Finish(r)
             ELSE req' = [req EXCEPT ![r].pc = "write", ![r].deal = deal]
    /\ UNCHANGED <<created, anchors, durable>>

(* A statement fails and with it the request.                              *)
Fail(r) ==
    /\ req[r] # Idle
    /\ Finish(r)
    /\ UNCHANGED <<created, anchors, board, durable>>

Restart ==
    /\ board # Cold \/ \E r \in Requests : req[r] # Idle
    /\ board' = Cold
    /\ req' = [r \in Requests |-> Idle]
    /\ UNCHANGED <<created, anchors, durable>>

Next ==
    \/ Restart
    \/ \E r \in Requests :
          \/ \E op \in Ops, e \in Estimates : Call(r, op, e)
          \/ LoadBoard(r)
          \/ Install(r)
          \/ WriteDeal(r)
          \/ SaveDraft(r)
          \/ Search(r)
          \/ CreateProject(r)
          \/ CarryDraft(r)
          \/ MarkDeal(r)
          \/ Fail(r)

Spec == Init /\ [][Next]_vars

-----------------------------------------------------------------------------
TypeOK ==
    /\ created \subseteq Projects
    /\ anchors \in [Estimates -> Projects \cup {None, Lead}]
    /\ board \in Deals \cup {Cold}
    /\ durable \in Deals
    /\ req \in [Requests -> Request \cup {Idle}]

(* Wherever a conversion dies, nothing points at a project that does not   *)
(* exist: its event is durable before any draft, row or board names it.    *)
PointersHaveProjects ==
    /\ \A e \in Estimates : anchors[e] \in Projects => anchors[e] \in created
    /\ {board, durable} \cap Projects \subseteq created

(* A draft has its lead on the durable board: no interleaving of assembly, *)
(* stale loads, stale writes and restarts leaves an estimate behind whose  *)
(* lead the next process will not find.                                    *)
DraftsHaveALead ==
    \A e \in Estimates : anchors[e] # None => durable # Absent

(* The marker is one-way in memory (markDealConverted, "no re-pointing"):  *)
(* no conversion, design entry or assembly changes it.  What can is a      *)
(* restart, and a load that was still under way when it was set.           *)
MarkerIsNotRepointed ==
    [][(board \in Marked /\ board' # board)
          => (board' = Cold \/ \E r \in Requests : Install(r))]_vars

(* "ONE-WAY (409 once converted)": a lead becomes one project.             *)
OneProjectPerLead == \A p, q \in created : p = q
=============================================================================
