---------------------------- MODULE CaptureSync ----------------------------
(***************************************************************************)
(* A capture session on the phone (IndexedDB, captureStore.ts), the upload *)
(* queue that empties it (captureUploadQueue.ts), the camera page that     *)
(* drives both, and the receipt store of the server.                       *)
(*                                                                         *)
(* A task is one chain of awaits: taking a capture, choosing where it      *)
(* goes, marking it, or one pass of the queue.  The page runs several at a *)
(* time: only the passes the page starts by itself exclude each other, and *)
(* a phone may have the page open twice.  One action is one IndexedDB      *)
(* transaction or one step of an upload.                                   *)
(***************************************************************************)
EXTENDS Naturals, FiniteSets

CONSTANTS Tasks,   \* chains of awaits that can be under way at once
          Items,   \* the captures of the session
          Dests,   \* where a session can be sent
          Jobs,    \* the destinations that are jobs
          None

VARIABLES session,  \* the session's record in IndexedDB
          items,    \* status of each item in IndexedDB, None before it is taken
          choice,   \* the destination the page last chose
          chosen,   \* history: every destination chosen
          task,     \* where each chain of awaits stands
          wire,     \* uploads the server has not finished or answered
          store,    \* the server: bytes and receipt manifest of each item
          signal    \* from here on the page stays open and the network good

vars == <<session, items, choice, chosen, task, wire, store, signal>>

Status == {"captured", "saved_on_phone", "syncing", "synced",
           "needs_attention", "failed"}
ASSUME CaptureAssumption ==
  /\ Jobs \subseteq Dests
  /\ None \notin Tasks \cup Items \cup Dests \cup Status

Session == [status : Status, dest : Dests \cup {None}]
Task == [pc : {"idle", "add", "save", "rollup", "list", "put", "dest",
               "session", "items", "next", "fetch", "wait"},
         item : Items \cup {None},
         snap : Session \cup {None},        \* the session as it was read
         roll : Status \cup {None},         \* the status computed from the items
         todo : SUBSET Items,               \* what the pass has left
         to   : Dests \cup {None},          \* where it uploads, or what to set
         then : {"idle", "next", "fetch"}]  \* what follows the rollup
Upload == [from : Tasks \cup {None}, item : Items, dest : Dests,
           stage : {"sent", "bytes", "stored", "refused"}]

Idle == [pc |-> "idle", item |-> None, snap |-> None, roll |-> None,
         todo |-> {}, to |-> None, then |-> "idle"]

\* Mutant: an upload that was cut off is taken to be under way.
NotUnderWay == {"saved_on_phone", "failed"}

Retryable == {"saved_on_phone", "failed", "syncing"}

Taken == {i \in Items : items[i] # None}

\* What the session is called, given its items.
RollupStatus ==
  LET any(s) == \E i \in Taken : items[i] = s IN
  IF any("failed") THEN "failed"
  ELSE IF any("needs_attention") THEN "needs_attention"
  ELSE IF any("syncing") THEN "syncing"
  ELSE IF Taken = {} \/ any("captured") THEN "captured"
  ELSE IF \A i \in Taken : items[i] = "synced" THEN "synced"
  ELSE "saved_on_phone"

Init ==
  /\ session = [status |-> "captured", dest |-> None]
  /\ items = [i \in Items |-> None]
  /\ choice = None
  /\ chosen = {}
  /\ task = [t \in Tasks |-> Idle]
  /\ wire = {}
  /\ store = [i \in Items |-> [bytes |-> FALSE, manifest |-> None]]
  /\ signal = FALSE

\* An item's new status is one transaction; the rollup comes after it.
Mark(t, i, status, then) ==
  /\ items' = [items EXCEPT ![i] = status]
  /\ task' = [task EXCEPT ![t] = [task[t] EXCEPT !.pc = "rollup", !.then = then]]

-----------------------------------------------------------------------------
\* Taking a capture.

\* addItem reads the session.
TakeCapture(t, i) ==
  /\ task[t].pc = "idle"
  /\ items[i] = None
  /\ \A u \in Tasks : task[u].pc = "add" => task[u].item # i
  /\ task' = [task EXCEPT ![t] = [Idle EXCEPT !.pc = "add", !.item = i,
                                              !.snap = session]]
  /\ UNCHANGED <<session, items, choice, chosen, wire, store, signal>>

\* The item and the session as it was read go in together.
PutCaptured(t) ==
  /\ task[t].pc = "add"
  /\ items' = [items EXCEPT ![task[t].item] = "captured"]
  /\ session' = [task[t].snap EXCEPT !.status = "captured"]
  /\ task' = [task EXCEPT ![t] = [task[t] EXCEPT !.pc = "save", !.snap = None]]
  /\ UNCHANGED <<choice, chosen, wire, store, signal>>

\* Only an item read back in full is called saved.
SaveItem(t) ==
  /\ task[t].pc = "save"
  /\ Mark(t, task[t].item, "saved_on_phone", "idle")
  /\ UNCHANGED <<session, choice, chosen, wire, store, signal>>

-----------------------------------------------------------------------------
\* updateSessionRollup: read the session, list its items, put the session.

ReadForRollup(t) ==
  /\ task[t].pc = "rollup"
  /\ task' = [task EXCEPT ![t] = [task[t] EXCEPT !.pc = "list", !.snap = session]]
  /\ UNCHANGED <<session, items, choice, chosen, wire, store, signal>>

ListForRollup(t) ==
  /\ task[t].pc = "list"
  /\ task' = [task EXCEPT ![t] = [task[t] EXCEPT !.pc = "put",
                                           !.roll = RollupStatus]]
  /\ UNCHANGED <<session, items, choice, chosen, wire, store, signal>>

PutRollup(t) ==
  /\ task[t].pc = "put"
  /\ session' = [task[t].snap EXCEPT !.status = task[t].roll]
  /\ task' = [task EXCEPT ![t] =
                IF task[t].then = "idle" THEN Idle
                ELSE [task[t] EXCEPT !.pc = task[t].then, !.snap = None,
                                     !.roll = None, !.then = "idle"]]
  /\ UNCHANGED <<items, choice, chosen, wire, store, signal>>

-----------------------------------------------------------------------------
\* Where the session goes.

ChooseDestination(t, d) ==
  /\ task[t].pc = "idle"
  /\ choice' = d
  /\ chosen' = chosen \cup {d}
  /\ task' = [task EXCEPT ![t] = [Idle EXCEPT !.pc = "dest", !.snap = session,
                                              !.to = d]]
  /\ UNCHANGED <<session, items, wire, store, signal>>

\* setDestination puts the session as it was read.  The page then runs the
\* queue: StartPass.
PutDestination(t) ==
  /\ task[t].pc = "dest"
  /\ session' = [task[t].snap EXCEPT !.dest = task[t].to]
  /\ task' = [task EXCEPT ![t] = Idle]
  /\ UNCHANGED <<items, choice, chosen, wire, store, signal>>

\* Done without a job chosen: the capture needs attention.
NeedsAttention(t, i) ==
  /\ task[t].pc = "idle"
  /\ choice \notin Jobs
  /\ items[i] \notin {None, "captured"}
  /\ Mark(t, i, "needs_attention", "idle")
  /\ UNCHANGED <<session, choice, chosen, wire, store, signal>>

-----------------------------------------------------------------------------
\* A pass of the upload queue.

\* listPending: a session called synced is not looked at.
StartPass(t) ==
  /\ task[t].pc = "idle"
  /\ session.status # "synced"
  /\ task' = [task EXCEPT ![t] = [Idle EXCEPT !.pc = "session"]]
  /\ UNCHANGED <<session, items, choice, chosen, wire, store, signal>>

\* Mutants: a session without a destination is uploaded all the same, or to
\* a destination of the program's choosing.
ReadAnySession(t) ==
  /\ task[t].pc = "session"
  /\ task' = [task EXCEPT ![t] = [task[t] EXCEPT !.pc = "items", !.to = session.dest]]
  /\ UNCHANGED <<session, items, choice, chosen, wire, store, signal>>

ReadWithDefault(t) ==
  /\ task[t].pc = "session"
  /\ \E d \in Dests :
       task' = [task EXCEPT ![t] = [task[t] EXCEPT !.pc = "items", !.to = d]]
  /\ UNCHANGED <<session, items, choice, chosen, wire, store, signal>>

ReadSession(t) ==
  /\ task[t].pc = "session"
  /\ task' = [task EXCEPT ![t] =
                IF session.dest = None THEN Idle
                ELSE [task[t] EXCEPT !.pc = "items", !.to = session.dest]]
  /\ UNCHANGED <<session, items, choice, chosen, wire, store, signal>>

ListItems(t) ==
  /\ task[t].pc = "items"
  /\ task' = [task EXCEPT ![t] = [task[t] EXCEPT
                !.pc = "next", !.todo = {i \in Items : items[i] \in Retryable}]]
  /\ UNCHANGED <<session, items, choice, chosen, wire, store, signal>>

\* The item's status is not read again before it is overwritten.
StartItem(t, i, status, then) ==
  /\ task[t].pc = "next"
  /\ i \in task[t].todo
  /\ items' = [items EXCEPT ![i] = status]
  /\ task' = [task EXCEPT ![t] = [task[t] EXCEPT !.pc = "rollup", !.then = then,
                                         !.item = i, !.todo = @ \ {i}]]
  /\ UNCHANGED <<session, choice, chosen, wire, store, signal>>

StartUpload(t, i) == StartItem(t, i, "syncing", "fetch")

\* Offline, the item fails unsent.
FailOffline(t, i) == ~signal /\ StartItem(t, i, "failed", "next")

EndPass(t) ==
  /\ task[t].pc = "next"
  /\ task[t].todo = {}
  /\ task' = [task EXCEPT ![t] = Idle]
  /\ UNCHANGED <<session, items, choice, chosen, wire, store, signal>>

Send(t) ==
  /\ task[t].pc = "fetch"
  /\ wire' = wire \cup {[from |-> t, item |-> task[t].item,
                         dest |-> task[t].to, stage |-> "sent"]}
  /\ task' = [task EXCEPT ![t] = [task[t] EXCEPT !.pc = "wait"]]
  /\ UNCHANGED <<session, items, choice, chosen, store, signal>>

Answered(t, u) == task[t].pc = "wait" /\ u \in wire /\ u.from = t

MarkSynced(t, u) ==
  /\ Answered(t, u)
  /\ u.stage = "stored"
  /\ wire' = wire \ {u}
  /\ Mark(t, u.item, "synced", "next")
  /\ UNCHANGED <<session, choice, chosen, store, signal>>

\* A refusal, or (lost) a connection that breaks while the server goes on.
MarkFailed(t, u, lost) ==
  /\ Answered(t, u)
  /\ IF lost THEN ~signal /\ u.stage \in {"sent", "bytes"}
             ELSE u.stage = "refused"
  /\ wire' = (wire \ {u}) \cup (IF lost THEN {[u EXCEPT !.from = None]} ELSE {})
  /\ Mark(t, u.item, "failed", "next")
  /\ UNCHANGED <<session, choice, chosen, store, signal>>

\* The page is closed, or a transaction throws: the chain stops where it is.
Close(t) ==
  /\ ~signal
  /\ task[t].pc # "idle"
  /\ task' = [task EXCEPT ![t] = Idle]
  /\ wire' = {u \in wire : u.from # t} \cup
             {[u EXCEPT !.from = None] :
                u \in {v \in wire : v.from = t /\ v.stage \in {"sent", "bytes"}}}
  /\ UNCHANGED <<session, items, choice, chosen, store, signal>>

-----------------------------------------------------------------------------
\* persistCaptureUpload on the server.

\* Mutant: the receipt is sent before its manifest is written.
ReceiptWithoutManifest(u) ==
  /\ u \in wire
  /\ u.stage = "sent"
  /\ store' = [store EXCEPT ![u.item].bytes = TRUE]
  /\ wire' = (wire \ {u}) \cup {[u EXCEPT !.stage = "stored"]}
  /\ UNCHANGED <<session, items, choice, chosen, task, signal>>

\* Bytes renamed into place and read back.
StoreBytes(u) ==
  /\ u \in wire
  /\ u.stage = "sent"
  /\ store' = [store EXCEPT ![u.item].bytes = TRUE]
  /\ wire' = (wire \ {u}) \cup {[u EXCEPT !.stage = "bytes"]}
  /\ UNCHANGED <<session, items, choice, chosen, task, signal>>

\* The manifest, and with it the receipt that is sent back.
StoreManifest(u) ==
  /\ u \in wire
  /\ u.stage = "bytes"
  /\ store' = [store EXCEPT ![u.item].manifest = u.dest]
  /\ wire' = (wire \ {u}) \cup
             (IF u.from = None THEN {} ELSE {[u EXCEPT !.stage = "stored"]})
  /\ UNCHANGED <<session, items, choice, chosen, task, signal>>

\* A missing job, an expired session, a write that fails, a process that stops.
\* Nothing is refused for good: once the signal is back, it is assumed, every
\* upload has a job, a session and a body the route takes, neither empty nor
\* above its 250 MB (lane3Work.ts:295-300), which no retry would get through.
Refuse(u) ==
  /\ ~signal
  /\ u \in wire
  /\ u.stage \in {"sent", "bytes"}
  /\ wire' = (wire \ {u}) \cup
             (IF u.from = None THEN {} ELSE {[u EXCEPT !.stage = "refused"]})
  /\ UNCHANGED <<session, items, choice, chosen, task, store, signal>>

-----------------------------------------------------------------------------
Page(t) ==
  \/ \E i \in Items : TakeCapture(t, i)
  \/ PutCaptured(t) \/ SaveItem(t)
  \/ ReadForRollup(t) \/ ListForRollup(t) \/ PutRollup(t)
  \/ \E d \in Dests : ChooseDestination(t, d)
  \/ PutDestination(t)
  \/ \E i \in Items : NeedsAttention(t, i)

Queue(t) ==
  \/ StartPass(t) \/ ReadSession(t) \/ ListItems(t)
  \/ \E i \in Items : StartUpload(t, i) \/ FailOffline(t, i)
  \/ EndPass(t) \/ Send(t)
  \/ \E u \in wire : MarkSynced(t, u) \/ MarkFailed(t, u, FALSE)
                                      \/ MarkFailed(t, u, TRUE)

Server == \E u \in wire : StoreBytes(u) \/ StoreManifest(u) \/ Refuse(u)

SignalComesBack ==
  /\ ~signal
  /\ signal' = TRUE
  /\ UNCHANGED <<session, items, choice, chosen, task, wire, store>>

Next ==
  \/ \E t \in Tasks : Page(t) \/ Queue(t) \/ Close(t)
  \/ Server
  \/ SignalComesBack

Spec == Init /\ [][Next]_vars

-----------------------------------------------------------------------------
\* The page's event loop and the server go on, and the page is again and
\* again loaded, shown or back online: the events that start a pass.
Proceed(t) ==
  \/ PutCaptured(t) \/ SaveItem(t) \/ PutDestination(t)
  \/ ReadForRollup(t) \/ ListForRollup(t) \/ PutRollup(t)
  \/ ReadSession(t) \/ ListItems(t) \/ EndPass(t) \/ Send(t)
  \/ \E i \in Items : StartUpload(t, i)
  \/ \E u \in wire : MarkSynced(t, u) \/ MarkFailed(t, u, FALSE)

Serve == \E u \in wire : StoreBytes(u) \/ StoreManifest(u)

Fairness ==
  /\ \A t \in Tasks : WF_vars(Proceed(t)) /\ SF_vars(StartPass(t))
  /\ WF_vars(Serve)
  /\ WF_vars(SignalComesBack)

FairSpec == Spec /\ Fairness

-----------------------------------------------------------------------------
Received(i) == store[i].manifest # None

\* A task holds what its place in the code needs.
TaskOK(t) ==
  /\ task[t].pc \in {"add", "list", "put", "dest"} => task[t].snap \in Session
  /\ task[t].pc = "put" => task[t].roll \in Status
  /\ task[t].pc \in {"add", "save", "fetch", "wait"} => task[t].item \in Items
  /\ task[t].pc \in {"dest", "items", "next", "fetch", "wait"}
       => task[t].to \in Dests
  /\ task[t].pc \in {"rollup", "list", "put"} =>
       /\ task[t].then # "idle" => task[t].to \in Dests
       /\ task[t].then = "fetch" => task[t].item \in Items

\* Every variable has its type.
TypeOK ==
  /\ session \in Session
  /\ items \in [Items -> Status \cup {None}]
  /\ choice \in Dests \cup {None}
  /\ chosen \subseteq Dests
  /\ task \in [Tasks -> Task]
  /\ \A t \in Tasks : TaskOK(t)
  /\ wire \subseteq Upload
  /\ store \in [Items -> [bytes : BOOLEAN, manifest : Dests \cup {None}]]
  /\ signal \in BOOLEAN

\* The truth contract of captureSyncState.ts: a capture is called synced only
\* when the server has its bytes and its receipt, whatever was retried, sent
\* twice, answered late or cut off.
SyncedIsReceived ==
  \A i \in Items :
    items[i] = "synced" => store[i].bytes /\ store[i].manifest # None

\* The server files a capture only where the user at some time sent the
\* session, stale reads of the session notwithstanding.
FiledWhereChosen ==
  \A i \in Items : store[i].manifest \in chosen \cup {None}

\* A capture that waits for the queue in a session the queue looks at does
\* not wait for ever: crashes, refusals and lost answers are retried.
Waiting(i) ==
  /\ items[i] \in {"saved_on_phone", "syncing", "failed"}
  /\ session.status # "synced"
  /\ session.dest # None

NoCaptureStarves ==
  \A i \in Items : []<>(~Waiting(i) \/ Received(i))

\* What the offline shell promises of a capture on the phone: once it has a
\* destination, it is synced when signal comes back.
SavedCapturesSync ==
  \A i \in Items :
    (items[i] \notin {None, "captured"} /\ choice # None) ~> Received(i)
=============================================================================
