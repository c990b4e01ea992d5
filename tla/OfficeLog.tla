------------------------------ MODULE OfficeLog -------------------------------
(***************************************************************************)
(* The field day and proposal sending on one event file.  The slice server *)
(* and the API are two processes with the same PERSISTENCE_DIR             *)
(* (serve-v15-vertical-slice.ts:122-125, src/src/api/lib/deps.ts:17-28);   *)
(* either may die at any moment and come back.                             *)
(***************************************************************************)
EXTENDS FieldDaily, ProposalSend

CONSTANT MaxRequests   \* bound: how many requests the two servers are sent

ASSUME OfficeAssumption == ProposalProject \in [Proposals -> Projects]

vars == <<storeVars, fieldVars, sale>>

Init == StoreInit /\ FieldInit /\ SendInit

Sent ==
  Cardinality({r \in FieldReqs : job[r].op # "none"})
    + Cardinality({r \in SaleReqs : sale[r].op # "none"})

FieldActs == FieldNext /\ UNCHANGED sale

SaleActs == SendNext /\ UNCHANGED fieldVars

\* A server dies between two steps: its requests are gone, the files stay.
Crash(server) ==
  /\ DropJobs(server)
  /\ IF server = "api" THEN DropSales ELSE UNCHANGED sale
  /\ UNCHANGED <<page, clock, storeVars>>

Next ==
  \/ FieldActs /\ Sent' <= MaxRequests
  \/ SaleActs /\ Sent' <= MaxRequests
  \/ \E server \in Servers : Crash(server)

Spec == Init /\ [][Next]_vars

-----------------------------------------------------------------------------

AllReqs == FieldReqs \cup SaleReqs

Event ==
  [type : {"project.created", "capture", "entry", "reviewed", "facts", "drift",
           "surfaced", "gate", "overridden", "classified", "sent"},
   by : AllReqs, project : Projects,
   about : {"none"} \cup Entries \cup Proposals,
   cites : {NoReq} \cup AllReqs, at : 0 .. MaxClock]

Job ==
  [op : {"none", "project", "capture", "entry", "review", "get", "any"},
   server : Servers, project : {"none"} \cup Projects,
   about : {"none"} \cup Entries \cup FieldReqs,
   at : Over \cup {"append", "history", "orchestrate", "derive",
                   "reread", "write"},
   cards : SUBSET Event, todo : Seq(Event), next : SUBSET (Nat \X Event),
   urgent : BOOLEAN, day : 0 .. MaxClock, error : BOOLEAN]

\* The types of the variables of the three modules.
TypeOK ==
  /\ log \in Seq(Event)
  /\ open \in BOOLEAN
  /\ tail \in Seq(Event)
  /\ tears \in 0 .. MaxTears
  /\ acked \subseteq Event
  /\ hurt \subseteq Event
  /\ job \in [FieldReqs -> Job]
  /\ page \in [Projects -> SUBSET (Nat \X Event)]
  /\ clock \in 0 .. MaxClock
  /\ sale \in [SaleReqs -> [op : {"none", "gate", "send", "any"},
                            proposal : {"none"} \cup Proposals,
                            quoted : {NoReq} \cup SaleReqs,
                            at : SaleOver \cup {"classify", "gate", "send"}]]
=============================================================================
