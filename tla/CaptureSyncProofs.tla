------------------------- MODULE CaptureSyncProofs -------------------------
(***************************************************************************)
(* Types, receipts and destinations of CaptureSync, for any number of      *)
(* tasks, items and destinations.                                          *)
(***************************************************************************)
EXTENDS CaptureSync, TLAPS

LEMMA StatusNames ==
  /\ "captured" \in Status /\ "saved_on_phone" \in Status
  /\ "syncing" \in Status /\ "synced" \in Status
  /\ "needs_attention" \in Status /\ "failed" \in Status
BY DEF Status

LEMMA RollupIsStatus == RollupStatus \in Status
BY StatusNames DEF RollupStatus

LEMMA IdleIsTask == Idle \in Task
BY DEF Idle, Task

-----------------------------------------------------------------------------
\* Types.

LEMMA TypeInit == Init => TypeOK
<1> SUFFICES ASSUME Init PROVE TypeOK
  OBVIOUS
<1>1. session \in Session
  BY StatusNames DEF Init, Session
<1>2. task \in [Tasks -> Task]
  BY IdleIsTask DEF Init
<1>3. \A t \in Tasks : TaskOK(t)
  BY DEF Init, TaskOK, Idle
<1> QED
  BY <1>1, <1>2, <1>3 DEF Init, TypeOK

LEMMA TypeStep == TypeOK /\ [Next]_vars => TypeOK'
<1> SUFFICES ASSUME TypeOK, [Next]_vars PROVE TypeOK'
  OBVIOUS
<1> USE CaptureAssumption, StatusNames, RollupIsStatus, IdleIsTask
<1>1. ASSUME NEW t \in Tasks, NEW i \in Items, TakeCapture(t, i) PROVE TypeOK'
  <2>1. session' \in Session /\ items' \in [Items -> Status \cup {None}]
    BY <1>1 DEF TypeOK, TaskOK, Session, TakeCapture
  <2>2. task' \in [Tasks -> Task]
    BY <1>1 DEF TypeOK, TaskOK, Task, TakeCapture
  <2>3. ASSUME NEW s \in Tasks PROVE TaskOK(s)'
    BY <1>1, <2>1, <2>2 DEF TypeOK, TaskOK, Task, Idle, TakeCapture
  <2>4. wire' \subseteq Upload
    BY <1>1 DEF TypeOK, TaskOK, Upload, TakeCapture
  <2> QED
    BY <1>1, <2>1, <2>2, <2>3, <2>4 DEF TypeOK, Upload, TakeCapture
<1>2. ASSUME NEW t \in Tasks, PutCaptured(t) PROVE TypeOK'
  <2>1. session' \in Session /\ items' \in [Items -> Status \cup {None}]
    BY <1>2 DEF TypeOK, TaskOK, Session, PutCaptured
  <2>2. task' \in [Tasks -> Task]
    <3>1. [task[t] EXCEPT !.pc = "save", !.snap = None] \in Task
      BY <1>2 DEF TypeOK, TaskOK, Task, PutCaptured
    <3> QED
      BY <1>2, <3>1 DEF TypeOK, PutCaptured
  <2>3. ASSUME NEW s \in Tasks PROVE TaskOK(s)'
    BY <1>2, <2>1, <2>2 DEF TypeOK, TaskOK, Task, Idle, PutCaptured
  <2>4. wire' \subseteq Upload
    BY <1>2 DEF TypeOK, TaskOK, Upload, PutCaptured
  <2> QED
    BY <1>2, <2>1, <2>2, <2>3, <2>4 DEF TypeOK, Upload, PutCaptured
<1>3. ASSUME NEW t \in Tasks, SaveItem(t) PROVE TypeOK'
  <2>1. session' \in Session /\ items' \in [Items -> Status \cup {None}]
    BY <1>3 DEF TypeOK, TaskOK, Session, SaveItem, Mark
  <2>2. task' \in [Tasks -> Task]
    <3>1. [task[t] EXCEPT !.pc = "rollup", !.then = "idle"] \in Task
      BY <1>3 DEF TypeOK, TaskOK, Task, SaveItem, Mark
    <3> QED
      BY <1>3, <3>1 DEF TypeOK, SaveItem, Mark
  <2>3. ASSUME NEW s \in Tasks PROVE TaskOK(s)'
    BY <1>3, <2>1, <2>2 DEF TypeOK, TaskOK, Task, Idle, SaveItem, Mark
  <2>4. wire' \subseteq Upload
    BY <1>3 DEF TypeOK, TaskOK, Upload, SaveItem, Mark
  <2> QED
    BY <1>3, <2>1, <2>2, <2>3, <2>4 DEF TypeOK, Upload, SaveItem, Mark
<1>4. ASSUME NEW t \in Tasks, ReadForRollup(t) PROVE TypeOK'
  <2>1. session' \in Session /\ items' \in [Items -> Status \cup {None}]
    BY <1>4 DEF TypeOK, TaskOK, Session, ReadForRollup
  <2>2. task' \in [Tasks -> Task]
    <3>1. [task[t] EXCEPT !.pc = "list", !.snap = session] \in Task
      BY <1>4 DEF TypeOK, TaskOK, Task, ReadForRollup
    <3> QED
      BY <1>4, <3>1 DEF TypeOK, ReadForRollup
  <2>3. ASSUME NEW s \in Tasks PROVE TaskOK(s)'
    BY <1>4, <2>1, <2>2 DEF TypeOK, TaskOK, Task, Idle, ReadForRollup
  <2>4. wire' \subseteq Upload
    BY <1>4 DEF TypeOK, TaskOK, Upload, ReadForRollup
  <2> QED
    BY <1>4, <2>1, <2>2, <2>3, <2>4 DEF TypeOK, Upload, ReadForRollup
<1>5. ASSUME NEW t \in Tasks, ListForRollup(t) PROVE TypeOK'
  <2>1. session' \in Session /\ items' \in [Items -> Status \cup {None}]
    BY <1>5 DEF TypeOK, TaskOK, Session, ListForRollup
  <2>2. task' \in [Tasks -> Task]
    <3>1. [task[t] EXCEPT !.pc = "put", !.roll = RollupStatus] \in Task
      BY <1>5 DEF TypeOK, TaskOK, Task, ListForRollup
    <3> QED
      BY <1>5, <3>1 DEF TypeOK, ListForRollup
  <2>3. ASSUME NEW s \in Tasks PROVE TaskOK(s)'
    BY <1>5, <2>1, <2>2 DEF TypeOK, TaskOK, Task, Idle, ListForRollup
  <2>4. wire' \subseteq Upload
    BY <1>5 DEF TypeOK, TaskOK, Upload, ListForRollup
  <2> QED
    BY <1>5, <2>1, <2>2, <2>3, <2>4 DEF TypeOK, Upload, ListForRollup
<1>6. ASSUME NEW t \in Tasks, PutRollup(t) PROVE TypeOK'
  <2>1. session' \in Session /\ items' \in [Items -> Status \cup {None}]
    BY <1>6 DEF TypeOK, TaskOK, Session, PutRollup
  <2>2. task' \in [Tasks -> Task]
    <3>1. task[t].then # "idle" =>
            [task[t] EXCEPT !.pc = task[t].then, !.snap = None,
                             !.roll = None, !.then = "idle"] \in Task
      BY <1>6 DEF TypeOK, TaskOK, Task, Session, PutRollup
    <3> QED
      BY <1>6, <3>1 DEF TypeOK, PutRollup
  <2>3. ASSUME NEW s \in Tasks PROVE TaskOK(s)'
    BY <1>6, <2>1, <2>2 DEF TypeOK, TaskOK, Task, Idle, PutRollup
  <2>4. wire' \subseteq Upload
    BY <1>6 DEF TypeOK, TaskOK, Upload, PutRollup
  <2> QED
    BY <1>6, <2>1, <2>2, <2>3, <2>4 DEF TypeOK, Upload, PutRollup
<1>7. ASSUME NEW t \in Tasks, NEW d \in Dests, ChooseDestination(t, d) PROVE TypeOK'
  <2>1. session' \in Session /\ items' \in [Items -> Status \cup {None}]
    BY <1>7 DEF TypeOK, TaskOK, Session, ChooseDestination
  <2>2. task' \in [Tasks -> Task]
    BY <1>7 DEF TypeOK, TaskOK, Task, ChooseDestination
  <2>3. ASSUME NEW s \in Tasks PROVE TaskOK(s)'
    BY <1>7, <2>1, <2>2 DEF TypeOK, TaskOK, Task, Idle, ChooseDestination
  <2>4. wire' \subseteq Upload
    BY <1>7 DEF TypeOK, TaskOK, Upload, ChooseDestination
  <2> QED
    BY <1>7, <2>1, <2>2, <2>3, <2>4 DEF TypeOK, Upload, ChooseDestination
<1>8. ASSUME NEW t \in Tasks, PutDestination(t) PROVE TypeOK'
  <2>1. session' \in Session /\ items' \in [Items -> Status \cup {None}]
    BY <1>8 DEF TypeOK, TaskOK, Session, PutDestination
  <2>2. task' \in [Tasks -> Task]
    BY <1>8 DEF TypeOK, TaskOK, Task, PutDestination
  <2>3. ASSUME NEW s \in Tasks PROVE TaskOK(s)'
    BY <1>8, <2>1, <2>2 DEF TypeOK, TaskOK, Task, Idle, PutDestination
  <2>4. wire' \subseteq Upload
    BY <1>8 DEF TypeOK, TaskOK, Upload, PutDestination
  <2> QED
    BY <1>8, <2>1, <2>2, <2>3, <2>4 DEF TypeOK, Upload, PutDestination
<1>9. ASSUME NEW t \in Tasks, NEW i \in Items, NeedsAttention(t, i) PROVE TypeOK'
  <2>1. session' \in Session /\ items' \in [Items -> Status \cup {None}]
    BY <1>9 DEF TypeOK, TaskOK, Session, NeedsAttention, Mark
  <2>2. task' \in [Tasks -> Task]
    <3>1. [task[t] EXCEPT !.pc = "rollup", !.then = "idle"] \in Task
      BY <1>9 DEF TypeOK, TaskOK, Task, NeedsAttention, Mark
    <3> QED
      BY <1>9, <3>1 DEF TypeOK, NeedsAttention, Mark
  <2>3. ASSUME NEW s \in Tasks PROVE TaskOK(s)'
    BY <1>9, <2>1, <2>2 DEF TypeOK, TaskOK, Task, Idle, NeedsAttention, Mark
  <2>4. wire' \subseteq Upload
    BY <1>9 DEF TypeOK, TaskOK, Upload, NeedsAttention, Mark
  <2> QED
    BY <1>9, <2>1, <2>2, <2>3, <2>4 DEF TypeOK, Upload, NeedsAttention, Mark
<1>10. ASSUME NEW t \in Tasks, StartPass(t) PROVE TypeOK'
  <2>1. session' \in Session /\ items' \in [Items -> Status \cup {None}]
    BY <1>10 DEF TypeOK, TaskOK, Session, StartPass
  <2>2. task' \in [Tasks -> Task]
    BY <1>10 DEF TypeOK, TaskOK, Task, StartPass
  <2>3. ASSUME NEW s \in Tasks PROVE TaskOK(s)'
    BY <1>10, <2>1, <2>2 DEF TypeOK, TaskOK, Task, Idle, StartPass
  <2>4. wire' \subseteq Upload
    BY <1>10 DEF TypeOK, TaskOK, Upload, StartPass
  <2> QED
    BY <1>10, <2>1, <2>2, <2>3, <2>4 DEF TypeOK, Upload, StartPass
<1>11. ASSUME NEW t \in Tasks, ReadSession(t) PROVE TypeOK'
  <2>1. session' \in Session /\ items' \in [Items -> Status \cup {None}]
    BY <1>11 DEF TypeOK, TaskOK, Session, ReadSession
  <2>2. task' \in [Tasks -> Task]
    <3>1. session.dest # None =>
            [task[t] EXCEPT !.pc = "items", !.to = session.dest] \in Task
      BY <1>11 DEF TypeOK, TaskOK, Task, Session, ReadSession
    <3> QED
      BY <1>11, <3>1 DEF TypeOK, ReadSession
  <2>3. ASSUME NEW s \in Tasks PROVE TaskOK(s)'
    BY <1>11, <2>1, <2>2 DEF TypeOK, TaskOK, Task, Idle, ReadSession
  <2>4. wire' \subseteq Upload
    BY <1>11 DEF TypeOK, TaskOK, Upload, ReadSession
  <2> QED
    BY <1>11, <2>1, <2>2, <2>3, <2>4 DEF TypeOK, Upload, ReadSession
<1>12. ASSUME NEW t \in Tasks, ListItems(t) PROVE TypeOK'
  <2>1. session' \in Session /\ items' \in [Items -> Status \cup {None}]
    BY <1>12 DEF TypeOK, TaskOK, Session, ListItems
  <2>2. task' \in [Tasks -> Task]
    <3>1. [task[t] EXCEPT !.pc = "next",
                            !.todo = {i \in Items : items[i] \in Retryable}] \in Task
      BY <1>12 DEF TypeOK, TaskOK, Task, ListItems
    <3> QED
      BY <1>12, <3>1 DEF TypeOK, ListItems
  <2>3. ASSUME NEW s \in Tasks PROVE TaskOK(s)'
    BY <1>12, <2>1, <2>2 DEF TypeOK, TaskOK, Task, Idle, ListItems
  <2>4. wire' \subseteq Upload
    BY <1>12 DEF TypeOK, TaskOK, Upload, ListItems
  <2> QED
    BY <1>12, <2>1, <2>2, <2>3, <2>4 DEF TypeOK, Upload, ListItems
<1>13. ASSUME NEW t \in Tasks, NEW i \in Items, StartUpload(t, i) PROVE TypeOK'
  <2>1. session' \in Session /\ items' \in [Items -> Status \cup {None}]
    BY <1>13 DEF TypeOK, TaskOK, Session, StartUpload, StartItem
  <2>2. task' \in [Tasks -> Task]
    <3>1. [task[t] EXCEPT !.pc = "rollup", !.then = "fetch",
                            !.item = i, !.todo = @ \ {i}] \in Task
      BY <1>13 DEF TypeOK, TaskOK, Task, StartUpload, StartItem
    <3> QED
      BY <1>13, <3>1 DEF TypeOK, StartUpload, StartItem
  <2>3. ASSUME NEW s \in Tasks PROVE TaskOK(s)'
    BY <1>13, <2>1, <2>2 DEF TypeOK, TaskOK, Task, Idle, StartUpload,
      StartItem
  <2>4. wire' \subseteq Upload
    BY <1>13 DEF TypeOK, TaskOK, Upload, StartUpload, StartItem
  <2> QED
    BY <1>13, <2>1, <2>2, <2>3, <2>4 DEF TypeOK, Upload, StartUpload,
      StartItem
<1>14. ASSUME NEW t \in Tasks, NEW i \in Items, FailOffline(t, i) PROVE TypeOK'
  <2>1. session' \in Session /\ items' \in [Items -> Status \cup {None}]
    BY <1>14 DEF TypeOK, TaskOK, Session, FailOffline, StartItem
  <2>2. task' \in [Tasks -> Task]
    <3>1. [task[t] EXCEPT !.pc = "rollup", !.then = "next",
                            !.item = i, !.todo = @ \ {i}] \in Task
      BY <1>14 DEF TypeOK, TaskOK, Task, FailOffline, StartItem
    <3> QED
      BY <1>14, <3>1 DEF TypeOK, FailOffline, StartItem
  <2>3. ASSUME NEW s \in Tasks PROVE TaskOK(s)'
    BY <1>14, <2>1, <2>2 DEF TypeOK, TaskOK, Task, Idle, FailOffline,
      StartItem
  <2>4. wire' \subseteq Upload
    BY <1>14 DEF TypeOK, TaskOK, Upload, FailOffline, StartItem
  <2> QED
    BY <1>14, <2>1, <2>2, <2>3, <2>4 DEF TypeOK, Upload, FailOffline,
      StartItem
<1>15. ASSUME NEW t \in Tasks, EndPass(t) PROVE TypeOK'
  <2>1. session' \in Session /\ items' \in [Items -> Status \cup {None}]
    BY <1>15 DEF TypeOK, TaskOK, Session, EndPass
  <2>2. task' \in [Tasks -> Task]
    BY <1>15 DEF TypeOK, TaskOK, Task, EndPass
  <2>3. ASSUME NEW s \in Tasks PROVE TaskOK(s)'
    BY <1>15, <2>1, <2>2 DEF TypeOK, TaskOK, Task, Idle, EndPass
  <2>4. wire' \subseteq Upload
    BY <1>15 DEF TypeOK, TaskOK, Upload, EndPass
  <2> QED
    BY <1>15, <2>1, <2>2, <2>3, <2>4 DEF TypeOK, Upload, EndPass
<1>16. ASSUME NEW t \in Tasks, Send(t) PROVE TypeOK'
  <2>1. session' \in Session /\ items' \in [Items -> Status \cup {None}]
    BY <1>16 DEF TypeOK, TaskOK, Session, Send
  <2>2. task' \in [Tasks -> Task]
    <3>1. [task[t] EXCEPT !.pc = "wait"] \in Task
      BY <1>16 DEF TypeOK, TaskOK, Task, Send
    <3> QED
      BY <1>16, <3>1 DEF TypeOK, Send
  <2>3. ASSUME NEW s \in Tasks PROVE TaskOK(s)'
    BY <1>16, <2>1, <2>2 DEF TypeOK, TaskOK, Task, Idle, Send
  <2>4. wire' \subseteq Upload
    BY <1>16 DEF TypeOK, TaskOK, Upload, Send
  <2> QED
    BY <1>16, <2>1, <2>2, <2>3, <2>4 DEF TypeOK, Upload, Send
<1>17. ASSUME NEW t \in Tasks, NEW u \in wire, MarkSynced(t, u) PROVE TypeOK'
  <2>1. session' \in Session /\ items' \in [Items -> Status \cup {None}]
    BY <1>17 DEF TypeOK, TaskOK, Session, MarkSynced, Mark, Answered
  <2>2. task' \in [Tasks -> Task]
    <3>1. [task[t] EXCEPT !.pc = "rollup", !.then = "next"] \in Task
      BY <1>17 DEF TypeOK, TaskOK, Task, MarkSynced, Mark, Answered
    <3> QED
      BY <1>17, <3>1 DEF TypeOK, MarkSynced, Mark, Answered
  <2>3. ASSUME NEW s \in Tasks PROVE TaskOK(s)'
    BY <1>17, <2>1, <2>2 DEF TypeOK, TaskOK, Task, Idle, MarkSynced, Mark,
      Answered
  <2>4. wire' \subseteq Upload
    BY <1>17 DEF TypeOK, TaskOK, Upload, MarkSynced, Mark, Answered
  <2> QED
    BY <1>17, <2>1, <2>2, <2>3, <2>4 DEF TypeOK, Upload, MarkSynced, Mark,
      Answered
<1>18. ASSUME NEW t \in Tasks, NEW u \in wire, NEW lost \in BOOLEAN,
             MarkFailed(t, u, lost) PROVE TypeOK'
  <2>1. session' \in Session /\ items' \in [Items -> Status \cup {None}]
    BY <1>18 DEF TypeOK, TaskOK, Session, MarkFailed, Mark, Answered
  <2>2. task' \in [Tasks -> Task]
    <3>1. [task[t] EXCEPT !.pc = "rollup", !.then = "next"] \in Task
      BY <1>18 DEF TypeOK, TaskOK, Task, MarkFailed, Mark, Answered
    <3> QED
      BY <1>18, <3>1 DEF TypeOK, MarkFailed, Mark, Answered
  <2>3. ASSUME NEW s \in Tasks PROVE TaskOK(s)'
    BY <1>18, <2>1, <2>2 DEF TypeOK, TaskOK, Task, Idle, MarkFailed, Mark,
      Answered
  <2>4. wire' \subseteq Upload
    BY <1>18 DEF TypeOK, TaskOK, Upload, MarkFailed, Mark, Answered
  <2> QED
    BY <1>18, <2>1, <2>2, <2>3, <2>4 DEF TypeOK, Upload, MarkFailed, Mark,
      Answered
<1>19. ASSUME NEW t \in Tasks, Close(t) PROVE TypeOK'
  <2>1. session' \in Session /\ items' \in [Items -> Status \cup {None}]
    BY <1>19 DEF TypeOK, TaskOK, Session, Close
  <2>2. task' \in [Tasks -> Task]
    BY <1>19 DEF TypeOK, TaskOK, Task, Close
  <2>3. ASSUME NEW s \in Tasks PROVE TaskOK(s)'
    BY <1>19, <2>1, <2>2 DEF TypeOK, TaskOK, Task, Idle, Close
  <2>4. wire' \subseteq Upload
    BY <1>19 DEF TypeOK, TaskOK, Upload, Close
  <2> QED
    BY <1>19, <2>1, <2>2, <2>3, <2>4 DEF TypeOK, Upload, Close
<1>20. ASSUME NEW u \in wire, StoreBytes(u) PROVE TypeOK'
  <2>1. session' \in Session /\ items' \in [Items -> Status \cup {None}]
    BY <1>20 DEF TypeOK, TaskOK, Session, StoreBytes
  <2>2. task' \in [Tasks -> Task]
    BY <1>20 DEF TypeOK, TaskOK, Task, StoreBytes
  <2>3. ASSUME NEW s \in Tasks PROVE TaskOK(s)'
    BY <1>20, <2>1, <2>2 DEF TypeOK, TaskOK, Task, Idle, StoreBytes
  <2>4. wire' \subseteq Upload
    BY <1>20 DEF TypeOK, TaskOK, Upload, StoreBytes
  <2> QED
    BY <1>20, <2>1, <2>2, <2>3, <2>4 DEF TypeOK, Upload, StoreBytes
<1>21. ASSUME NEW u \in wire, StoreManifest(u) PROVE TypeOK'
  <2>1. session' \in Session /\ items' \in [Items -> Status \cup {None}]
    BY <1>21 DEF TypeOK, TaskOK, Session, StoreManifest
  <2>2. task' \in [Tasks -> Task]
    BY <1>21 DEF TypeOK, TaskOK, Task, StoreManifest
  <2>3. ASSUME NEW s \in Tasks PROVE TaskOK(s)'
    BY <1>21, <2>1, <2>2 DEF TypeOK, TaskOK, Task, Idle, StoreManifest
  <2>4. wire' \subseteq Upload
    BY <1>21 DEF TypeOK, TaskOK, Upload, StoreManifest
  <2> QED
    BY <1>21, <2>1, <2>2, <2>3, <2>4 DEF TypeOK, Upload, StoreManifest
<1>22. ASSUME NEW u \in wire, Refuse(u) PROVE TypeOK'
  <2>1. session' \in Session /\ items' \in [Items -> Status \cup {None}]
    BY <1>22 DEF TypeOK, TaskOK, Session, Refuse
  <2>2. task' \in [Tasks -> Task]
    BY <1>22 DEF TypeOK, TaskOK, Task, Refuse
  <2>3. ASSUME NEW s \in Tasks PROVE TaskOK(s)'
    BY <1>22, <2>1, <2>2 DEF TypeOK, TaskOK, Task, Idle, Refuse
  <2>4. wire' \subseteq Upload
    BY <1>22 DEF TypeOK, TaskOK, Upload, Refuse
  <2> QED
    BY <1>22, <2>1, <2>2, <2>3, <2>4 DEF TypeOK, Upload, Refuse
<1>23. ASSUME SignalComesBack PROVE TypeOK'
  <2>1. session' \in Session /\ items' \in [Items -> Status \cup {None}]
    BY <1>23 DEF TypeOK, TaskOK, Session, SignalComesBack
  <2>2. task' \in [Tasks -> Task]
    BY <1>23 DEF TypeOK, TaskOK, Task, SignalComesBack
  <2>3. ASSUME NEW s \in Tasks PROVE TaskOK(s)'
    BY <1>23, <2>1, <2>2 DEF TypeOK, TaskOK, Task, Idle, SignalComesBack
  <2>4. wire' \subseteq Upload
    BY <1>23 DEF TypeOK, TaskOK, Upload, SignalComesBack
  <2> QED
    BY <1>23, <2>1, <2>2, <2>3, <2>4 DEF TypeOK, Upload, SignalComesBack
<1>24. CASE UNCHANGED vars
  BY <1>24 DEF vars, TypeOK, TaskOK
<1> QED
  BY <1>1, <1>2, <1>3, <1>4, <1>5, <1>6, <1>7, <1>8, <1>9, <1>10, <1>11,
    <1>12, <1>13, <1>14, <1>15, <1>16, <1>17, <1>18, <1>19, <1>20, <1>21,
    <1>22, <1>23, <1>24 DEF Next, Page, Queue, Server

-----------------------------------------------------------------------------
\* Receipts: an upload the server is done with has its bytes and manifest.

UploadReceived(u) ==
  /\ u.stage \in {"bytes", "stored"} => store[u.item].bytes
  /\ u.stage = "stored" => store[u.item].manifest # None

ReceiptInv ==
  /\ SyncedIsReceived
  /\ \A u \in wire : UploadReceived(u)

LEMMA ReceiptInit == Init => ReceiptInv
<1> SUFFICES ASSUME Init PROVE ReceiptInv
  OBVIOUS
<1>1. SyncedIsReceived
  BY CaptureAssumption, StatusNames DEF Init, SyncedIsReceived
<1> QED
  BY <1>1 DEF Init, ReceiptInv

LEMMA ReceiptStep == TypeOK /\ ReceiptInv /\ [Next]_vars => ReceiptInv'
<1> SUFFICES ASSUME TypeOK, ReceiptInv, [Next]_vars PROVE ReceiptInv'
  OBVIOUS
<1> USE CaptureAssumption, StatusNames
<1>1. ASSUME NEW t \in Tasks, NEW i \in Items, TakeCapture(t, i) PROVE ReceiptInv'
  <2>1. SyncedIsReceived'
    BY <1>1 DEF TypeOK, TaskOK, Upload, ReceiptInv, SyncedIsReceived,
      UploadReceived, TakeCapture
  <2>2. (\A v \in wire : UploadReceived(v))'
    BY <1>1 DEF TypeOK, Upload, ReceiptInv, UploadReceived, TakeCapture
  <2> QED
    BY <2>1, <2>2 DEF ReceiptInv
<1>2. ASSUME NEW t \in Tasks, PutCaptured(t) PROVE ReceiptInv'
  <2>1. SyncedIsReceived'
    BY <1>2 DEF TypeOK, TaskOK, Upload, ReceiptInv, SyncedIsReceived,
      UploadReceived, PutCaptured
  <2>2. (\A v \in wire : UploadReceived(v))'
    BY <1>2 DEF TypeOK, Upload, ReceiptInv, UploadReceived, PutCaptured
  <2> QED
    BY <2>1, <2>2 DEF ReceiptInv
<1>3. ASSUME NEW t \in Tasks, SaveItem(t) PROVE ReceiptInv'
  <2>1. SyncedIsReceived'
    BY <1>3 DEF TypeOK, TaskOK, Upload, ReceiptInv, SyncedIsReceived,
      UploadReceived, SaveItem, Mark
  <2>2. (\A v \in wire : UploadReceived(v))'
    BY <1>3 DEF TypeOK, Upload, ReceiptInv, UploadReceived, SaveItem, Mark
  <2> QED
    BY <2>1, <2>2 DEF ReceiptInv
<1>4. ASSUME NEW t \in Tasks, ReadForRollup(t) PROVE ReceiptInv'
  <2>1. SyncedIsReceived'
    BY <1>4 DEF TypeOK, TaskOK, Upload, ReceiptInv, SyncedIsReceived,
      UploadReceived, ReadForRollup
  <2>2. (\A v \in wire : UploadReceived(v))'
    BY <1>4 DEF TypeOK, Upload, ReceiptInv, UploadReceived, ReadForRollup
  <2> QED
    BY <2>1, <2>2 DEF ReceiptInv
<1>5. ASSUME NEW t \in Tasks, ListForRollup(t) PROVE ReceiptInv'
  <2>1. SyncedIsReceived'
    BY <1>5 DEF TypeOK, TaskOK, Upload, ReceiptInv, SyncedIsReceived,
      UploadReceived, ListForRollup
  <2>2. (\A v \in wire : UploadReceived(v))'
    BY <1>5 DEF TypeOK, Upload, ReceiptInv, UploadReceived, ListForRollup
  <2> QED
    BY <2>1, <2>2 DEF ReceiptInv
<1>6. ASSUME NEW t \in Tasks, PutRollup(t) PROVE ReceiptInv'
  <2>1. SyncedIsReceived'
    BY <1>6 DEF TypeOK, TaskOK, Upload, ReceiptInv, SyncedIsReceived,
      UploadReceived, PutRollup
  <2>2. (\A v \in wire : UploadReceived(v))'
    BY <1>6 DEF TypeOK, Upload, ReceiptInv, UploadReceived, PutRollup
  <2> QED
    BY <2>1, <2>2 DEF ReceiptInv
<1>7. ASSUME NEW t \in Tasks, NEW d \in Dests, ChooseDestination(t, d) PROVE ReceiptInv'
  <2>1. SyncedIsReceived'
    BY <1>7 DEF TypeOK, TaskOK, Upload, ReceiptInv, SyncedIsReceived,
      UploadReceived, ChooseDestination
  <2>2. (\A v \in wire : UploadReceived(v))'
    BY <1>7 DEF TypeOK, Upload, ReceiptInv, UploadReceived, ChooseDestination
  <2> QED
    BY <2>1, <2>2 DEF ReceiptInv
<1>8. ASSUME NEW t \in Tasks, PutDestination(t) PROVE ReceiptInv'
  <2>1. SyncedIsReceived'
    BY <1>8 DEF TypeOK, TaskOK, Upload, ReceiptInv, SyncedIsReceived,
      UploadReceived, PutDestination
  <2>2. (\A v \in wire : UploadReceived(v))'
    BY <1>8 DEF TypeOK, Upload, ReceiptInv, UploadReceived, PutDestination
  <2> QED
    BY <2>1, <2>2 DEF ReceiptInv
<1>9. ASSUME NEW t \in Tasks, NEW i \in Items, NeedsAttention(t, i) PROVE ReceiptInv'
  <2>1. SyncedIsReceived'
    BY <1>9 DEF TypeOK, TaskOK, Upload, ReceiptInv, SyncedIsReceived,
      UploadReceived, NeedsAttention, Mark
  <2>2. (\A v \in wire : UploadReceived(v))'
    BY <1>9 DEF TypeOK, Upload, ReceiptInv, UploadReceived, NeedsAttention,
      Mark
  <2> QED
    BY <2>1, <2>2 DEF ReceiptInv
<1>10. ASSUME NEW t \in Tasks, StartPass(t) PROVE ReceiptInv'
  <2>1. SyncedIsReceived'
    BY <1>10 DEF TypeOK, TaskOK, Upload, ReceiptInv, SyncedIsReceived,
      UploadReceived, StartPass
  <2>2. (\A v \in wire : UploadReceived(v))'
    BY <1>10 DEF TypeOK, Upload, ReceiptInv, UploadReceived, StartPass
  <2> QED
    BY <2>1, <2>2 DEF ReceiptInv
<1>11. ASSUME NEW t \in Tasks, ReadSession(t) PROVE ReceiptInv'
  <2>1. SyncedIsReceived'
    BY <1>11 DEF TypeOK, TaskOK, Upload, ReceiptInv, SyncedIsReceived,
      UploadReceived, ReadSession
  <2>2. (\A v \in wire : UploadReceived(v))'
    BY <1>11 DEF TypeOK, Upload, ReceiptInv, UploadReceived, ReadSession
  <2> QED
    BY <2>1, <2>2 DEF ReceiptInv
<1>12. ASSUME NEW t \in Tasks, ListItems(t) PROVE ReceiptInv'
  <2>1. SyncedIsReceived'
    BY <1>12 DEF TypeOK, TaskOK, Upload, ReceiptInv, SyncedIsReceived,
      UploadReceived, ListItems
  <2>2. (\A v \in wire : UploadReceived(v))'
    BY <1>12 DEF TypeOK, Upload, ReceiptInv, UploadReceived, ListItems
  <2> QED
    BY <2>1, <2>2 DEF ReceiptInv
<1>13. ASSUME NEW t \in Tasks, NEW i \in Items, StartUpload(t, i) PROVE ReceiptInv'
  <2>1. SyncedIsReceived'
    BY <1>13 DEF TypeOK, TaskOK, Upload, ReceiptInv, SyncedIsReceived,
      UploadReceived, StartUpload, StartItem
  <2>2. (\A v \in wire : UploadReceived(v))'
    BY <1>13 DEF TypeOK, Upload, ReceiptInv, UploadReceived, StartUpload,
      StartItem
  <2> QED
    BY <2>1, <2>2 DEF ReceiptInv
<1>14. ASSUME NEW t \in Tasks, NEW i \in Items, FailOffline(t, i) PROVE ReceiptInv'
  <2>1. SyncedIsReceived'
    BY <1>14 DEF TypeOK, TaskOK, Upload, ReceiptInv, SyncedIsReceived,
      UploadReceived, FailOffline, StartItem
  <2>2. (\A v \in wire : UploadReceived(v))'
    BY <1>14 DEF TypeOK, Upload, ReceiptInv, UploadReceived, FailOffline,
      StartItem
  <2> QED
    BY <2>1, <2>2 DEF ReceiptInv
<1>15. ASSUME NEW t \in Tasks, EndPass(t) PROVE ReceiptInv'
  <2>1. SyncedIsReceived'
    BY <1>15 DEF TypeOK, TaskOK, Upload, ReceiptInv, SyncedIsReceived,
      UploadReceived, EndPass
  <2>2. (\A v \in wire : UploadReceived(v))'
    BY <1>15 DEF TypeOK, Upload, ReceiptInv, UploadReceived, EndPass
  <2> QED
    BY <2>1, <2>2 DEF ReceiptInv
<1>16. ASSUME NEW t \in Tasks, Send(t) PROVE ReceiptInv'
  <2>1. SyncedIsReceived'
    BY <1>16 DEF TypeOK, TaskOK, Upload, ReceiptInv, SyncedIsReceived,
      UploadReceived, Send
  <2>2. (\A v \in wire : UploadReceived(v))'
    BY <1>16 DEF TypeOK, Upload, ReceiptInv, UploadReceived, Send
  <2> QED
    BY <2>1, <2>2 DEF ReceiptInv
<1>17. ASSUME NEW t \in Tasks, NEW u \in wire, MarkSynced(t, u) PROVE ReceiptInv'
  <2>1. SyncedIsReceived'
    BY <1>17 DEF TypeOK, TaskOK, Upload, ReceiptInv, SyncedIsReceived,
      UploadReceived, MarkSynced, Mark, Answered
  <2>2. (\A v \in wire : UploadReceived(v))'
    BY <1>17 DEF TypeOK, Upload, ReceiptInv, UploadReceived, MarkSynced,
      Mark, Answered
  <2> QED
    BY <2>1, <2>2 DEF ReceiptInv
<1>18. ASSUME NEW t \in Tasks, NEW u \in wire, NEW lost \in BOOLEAN,
             MarkFailed(t, u, lost) PROVE ReceiptInv'
  <2>1. SyncedIsReceived'
    BY <1>18 DEF TypeOK, TaskOK, Upload, ReceiptInv, SyncedIsReceived,
      UploadReceived, MarkFailed, Mark, Answered
  <2>2. (\A v \in wire : UploadReceived(v))'
    BY <1>18 DEF TypeOK, Upload, ReceiptInv, UploadReceived, MarkFailed,
      Mark, Answered
  <2> QED
    BY <2>1, <2>2 DEF ReceiptInv
<1>19. ASSUME NEW t \in Tasks, Close(t) PROVE ReceiptInv'
  <2>1. SyncedIsReceived'
    BY <1>19 DEF TypeOK, TaskOK, Upload, ReceiptInv, SyncedIsReceived,
      UploadReceived, Close
  <2>2. (\A v \in wire : UploadReceived(v))'
    BY <1>19 DEF TypeOK, Upload, ReceiptInv, UploadReceived, Close
  <2> QED
    BY <2>1, <2>2 DEF ReceiptInv
<1>20. ASSUME NEW u \in wire, StoreBytes(u) PROVE ReceiptInv'
  <2>1. SyncedIsReceived'
    BY <1>20 DEF TypeOK, TaskOK, Upload, ReceiptInv, SyncedIsReceived,
      UploadReceived, StoreBytes
  <2>2. (\A v \in wire : UploadReceived(v))'
    BY <1>20 DEF TypeOK, Upload, ReceiptInv, UploadReceived, StoreBytes
  <2> QED
    BY <2>1, <2>2 DEF ReceiptInv
<1>21. ASSUME NEW u \in wire, StoreManifest(u) PROVE ReceiptInv'
  <2>1. SyncedIsReceived'
    BY <1>21 DEF TypeOK, TaskOK, Upload, ReceiptInv, SyncedIsReceived,
      UploadReceived, StoreManifest
  <2>2. (\A v \in wire : UploadReceived(v))'
    BY <1>21 DEF TypeOK, Upload, ReceiptInv, UploadReceived, StoreManifest
  <2> QED
    BY <2>1, <2>2 DEF ReceiptInv
<1>22. ASSUME NEW u \in wire, Refuse(u) PROVE ReceiptInv'
  <2>1. SyncedIsReceived'
    BY <1>22 DEF TypeOK, TaskOK, Upload, ReceiptInv, SyncedIsReceived,
      UploadReceived, Refuse
  <2>2. (\A v \in wire : UploadReceived(v))'
    BY <1>22 DEF TypeOK, Upload, ReceiptInv, UploadReceived, Refuse
  <2> QED
    BY <2>1, <2>2 DEF ReceiptInv
<1>23. ASSUME SignalComesBack PROVE ReceiptInv'
  <2>1. SyncedIsReceived'
    BY <1>23 DEF TypeOK, TaskOK, Upload, ReceiptInv, SyncedIsReceived,
      UploadReceived, SignalComesBack
  <2>2. (\A v \in wire : UploadReceived(v))'
    BY <1>23 DEF TypeOK, Upload, ReceiptInv, UploadReceived, SignalComesBack
  <2> QED
    BY <2>1, <2>2 DEF ReceiptInv
<1>24. CASE UNCHANGED vars
  BY <1>24 DEF vars, ReceiptInv, SyncedIsReceived,
    UploadReceived
<1> QED
  BY <1>1, <1>2, <1>3, <1>4, <1>5, <1>6, <1>7, <1>8, <1>9, <1>10, <1>11,
    <1>12, <1>13, <1>14, <1>15, <1>16, <1>17, <1>18, <1>19, <1>20, <1>21,
    <1>22, <1>23, <1>24 DEF Next, Page, Queue, Server

-----------------------------------------------------------------------------
\* Destinations: only what was chosen is ever carried.

TaskChosen(t) ==
  /\ task[t].pc \in {"add", "list", "put", "dest"}
       => task[t].snap.dest \in chosen \cup {None}
  /\ task[t].pc \in {"dest", "items", "next", "fetch", "wait"}
       => task[t].to \in chosen
  /\ task[t].pc \in {"rollup", "list", "put"} /\ task[t].then # "idle"
       => task[t].to \in chosen

DestInv ==
  /\ session.dest \in chosen \cup {None}
  /\ \A t \in Tasks : TaskChosen(t)
  /\ \A u \in wire : u.dest \in chosen
  /\ FiledWhereChosen

LEMMA DestInit == Init => DestInv
BY DEF Init, Idle, DestInv, TaskChosen, FiledWhereChosen

LEMMA DestStep == TypeOK /\ DestInv /\ [Next]_vars => DestInv'
<1> SUFFICES ASSUME TypeOK, DestInv, [Next]_vars PROVE DestInv'
  OBVIOUS
<1> USE CaptureAssumption
<1>1. ASSUME NEW t \in Tasks, NEW i \in Items, TakeCapture(t, i) PROVE DestInv'
  <2>1. (session.dest \in chosen \cup {None})'
    BY <1>1 DEF TypeOK, TaskOK, Task, Session, DestInv, TaskChosen,
      TakeCapture
  <2>2. (\A s \in Tasks : TaskChosen(s))'
    BY <1>1 DEF TypeOK, TaskOK, Task, Session, DestInv, TaskChosen, Idle,
      TakeCapture
  <2>3. (\A v \in wire : v.dest \in chosen)'
    BY <1>1 DEF TypeOK, Upload, TaskOK, Task, DestInv, TaskChosen, TakeCapture
  <2>4. FiledWhereChosen'
    BY <1>1 DEF TypeOK, Upload, DestInv, FiledWhereChosen, TakeCapture
  <2> QED
    BY <2>1, <2>2, <2>3, <2>4 DEF DestInv
<1>2. ASSUME NEW t \in Tasks, PutCaptured(t) PROVE DestInv'
  <2>1. (session.dest \in chosen \cup {None})'
    BY <1>2 DEF TypeOK, TaskOK, Task, Session, DestInv, TaskChosen,
      PutCaptured
  <2>2. (\A s \in Tasks : TaskChosen(s))'
    BY <1>2 DEF TypeOK, TaskOK, Task, Session, DestInv, TaskChosen, Idle,
      PutCaptured
  <2>3. (\A v \in wire : v.dest \in chosen)'
    BY <1>2 DEF TypeOK, Upload, TaskOK, Task, DestInv, TaskChosen, PutCaptured
  <2>4. FiledWhereChosen'
    BY <1>2 DEF TypeOK, Upload, DestInv, FiledWhereChosen, PutCaptured
  <2> QED
    BY <2>1, <2>2, <2>3, <2>4 DEF DestInv
<1>3. ASSUME NEW t \in Tasks, SaveItem(t) PROVE DestInv'
  <2>1. (session.dest \in chosen \cup {None})'
    BY <1>3 DEF TypeOK, TaskOK, Task, Session, DestInv, TaskChosen, SaveItem,
      Mark
  <2>2. (\A s \in Tasks : TaskChosen(s))'
    BY <1>3 DEF TypeOK, TaskOK, Task, Session, DestInv, TaskChosen, Idle,
      SaveItem, Mark
  <2>3. (\A v \in wire : v.dest \in chosen)'
    BY <1>3 DEF TypeOK, Upload, TaskOK, Task, DestInv, TaskChosen, SaveItem,
      Mark
  <2>4. FiledWhereChosen'
    BY <1>3 DEF TypeOK, Upload, DestInv, FiledWhereChosen, SaveItem, Mark
  <2> QED
    BY <2>1, <2>2, <2>3, <2>4 DEF DestInv
<1>4. ASSUME NEW t \in Tasks, ReadForRollup(t) PROVE DestInv'
  <2>1. (session.dest \in chosen \cup {None})'
    BY <1>4 DEF TypeOK, TaskOK, Task, Session, DestInv, TaskChosen,
      ReadForRollup
  <2>2. (\A s \in Tasks : TaskChosen(s))'
    BY <1>4 DEF TypeOK, TaskOK, Task, Session, DestInv, TaskChosen, Idle,
      ReadForRollup
  <2>3. (\A v \in wire : v.dest \in chosen)'
    BY <1>4 DEF TypeOK, Upload, TaskOK, Task, DestInv, TaskChosen,
      ReadForRollup
  <2>4. FiledWhereChosen'
    BY <1>4 DEF TypeOK, Upload, DestInv, FiledWhereChosen, ReadForRollup
  <2> QED
    BY <2>1, <2>2, <2>3, <2>4 DEF DestInv
<1>5. ASSUME NEW t \in Tasks, ListForRollup(t) PROVE DestInv'
  <2>1. (session.dest \in chosen \cup {None})'
    BY <1>5 DEF TypeOK, TaskOK, Task, Session, DestInv, TaskChosen,
      ListForRollup
  <2>2. (\A s \in Tasks : TaskChosen(s))'
    BY <1>5 DEF TypeOK, TaskOK, Task, Session, DestInv, TaskChosen, Idle,
      ListForRollup
  <2>3. (\A v \in wire : v.dest \in chosen)'
    BY <1>5 DEF TypeOK, Upload, TaskOK, Task, DestInv, TaskChosen,
      ListForRollup
  <2>4. FiledWhereChosen'
    BY <1>5 DEF TypeOK, Upload, DestInv, FiledWhereChosen, ListForRollup
  <2> QED
    BY <2>1, <2>2, <2>3, <2>4 DEF DestInv
<1>6. ASSUME NEW t \in Tasks, PutRollup(t) PROVE DestInv'
  <2>1. (session.dest \in chosen \cup {None})'
    BY <1>6 DEF TypeOK, TaskOK, Task, Session, DestInv, TaskChosen, PutRollup
  <2>2. (\A s \in Tasks : TaskChosen(s))'
    BY <1>6 DEF TypeOK, TaskOK, Task, Session, DestInv, TaskChosen, Idle,
      PutRollup
  <2>3. (\A v \in wire : v.dest \in chosen)'
    BY <1>6 DEF TypeOK, Upload, TaskOK, Task, DestInv, TaskChosen, PutRollup
  <2>4. FiledWhereChosen'
    BY <1>6 DEF TypeOK, Upload, DestInv, FiledWhereChosen, PutRollup
  <2> QED
    BY <2>1, <2>2, <2>3, <2>4 DEF DestInv
<1>7. ASSUME NEW t \in Tasks, NEW d \in Dests, ChooseDestination(t, d) PROVE DestInv'
  <2>1. (session.dest \in chosen \cup {None})'
    BY <1>7 DEF TypeOK, TaskOK, Task, Session, DestInv, TaskChosen,
      ChooseDestination
  <2>2. (\A s \in Tasks : TaskChosen(s))'
    BY <1>7 DEF TypeOK, TaskOK, Task, Session, DestInv, TaskChosen, Idle,
      ChooseDestination
  <2>3. (\A v \in wire : v.dest \in chosen)'
    BY <1>7 DEF TypeOK, Upload, TaskOK, Task, DestInv, TaskChosen,
      ChooseDestination
  <2>4. FiledWhereChosen'
    BY <1>7 DEF TypeOK, Upload, DestInv, FiledWhereChosen, ChooseDestination
  <2> QED
    BY <2>1, <2>2, <2>3, <2>4 DEF DestInv
<1>8. ASSUME NEW t \in Tasks, PutDestination(t) PROVE DestInv'
  <2>1. (session.dest \in chosen \cup {None})'
    BY <1>8 DEF TypeOK, TaskOK, Task, Session, DestInv, TaskChosen,
      PutDestination
  <2>2. (\A s \in Tasks : TaskChosen(s))'
    BY <1>8 DEF TypeOK, TaskOK, Task, Session, DestInv, TaskChosen, Idle,
      PutDestination
  <2>3. (\A v \in wire : v.dest \in chosen)'
    BY <1>8 DEF TypeOK, Upload, TaskOK, Task, DestInv, TaskChosen,
      PutDestination
  <2>4. FiledWhereChosen'
    BY <1>8 DEF TypeOK, Upload, DestInv, FiledWhereChosen, PutDestination
  <2> QED
    BY <2>1, <2>2, <2>3, <2>4 DEF DestInv
<1>9. ASSUME NEW t \in Tasks, NEW i \in Items, NeedsAttention(t, i) PROVE DestInv'
  <2>1. (session.dest \in chosen \cup {None})'
    BY <1>9 DEF TypeOK, TaskOK, Task, Session, DestInv, TaskChosen,
      NeedsAttention, Mark
  <2>2. (\A s \in Tasks : TaskChosen(s))'
    BY <1>9 DEF TypeOK, TaskOK, Task, Session, DestInv, TaskChosen, Idle,
      NeedsAttention, Mark
  <2>3. (\A v \in wire : v.dest \in chosen)'
    BY <1>9 DEF TypeOK, Upload, TaskOK, Task, DestInv, TaskChosen,
      NeedsAttention, Mark
  <2>4. FiledWhereChosen'
    BY <1>9 DEF TypeOK, Upload, DestInv, FiledWhereChosen, NeedsAttention,
      Mark
  <2> QED
    BY <2>1, <2>2, <2>3, <2>4 DEF DestInv
<1>10. ASSUME NEW t \in Tasks, StartPass(t) PROVE DestInv'
  <2>1. (session.dest \in chosen \cup {None})'
    BY <1>10 DEF TypeOK, TaskOK, Task, Session, DestInv, TaskChosen, StartPass
  <2>2. (\A s \in Tasks : TaskChosen(s))'
    BY <1>10 DEF TypeOK, TaskOK, Task, Session, DestInv, TaskChosen, Idle,
      StartPass
  <2>3. (\A v \in wire : v.dest \in chosen)'
    BY <1>10 DEF TypeOK, Upload, TaskOK, Task, DestInv, TaskChosen, StartPass
  <2>4. FiledWhereChosen'
    BY <1>10 DEF TypeOK, Upload, DestInv, FiledWhereChosen, StartPass
  <2> QED
    BY <2>1, <2>2, <2>3, <2>4 DEF DestInv
<1>11. ASSUME NEW t \in Tasks, ReadSession(t) PROVE DestInv'
  <2>1. (session.dest \in chosen \cup {None})'
    BY <1>11 DEF TypeOK, TaskOK, Task, Session, DestInv, TaskChosen,
      ReadSession
  <2>2. (\A s \in Tasks : TaskChosen(s))'
    BY <1>11 DEF TypeOK, TaskOK, Task, Session, DestInv, TaskChosen, Idle,
      ReadSession
  <2>3. (\A v \in wire : v.dest \in chosen)'
    BY <1>11 DEF TypeOK, Upload, TaskOK, Task, DestInv, TaskChosen,
      ReadSession
  <2>4. FiledWhereChosen'
    BY <1>11 DEF TypeOK, Upload, DestInv, FiledWhereChosen, ReadSession
  <2> QED
    BY <2>1, <2>2, <2>3, <2>4 DEF DestInv
<1>12. ASSUME NEW t \in Tasks, ListItems(t) PROVE DestInv'
  <2>1. (session.dest \in chosen \cup {None})'
    BY <1>12 DEF TypeOK, TaskOK, Task, Session, DestInv, TaskChosen, ListItems
  <2>2. (\A s \in Tasks : TaskChosen(s))'
    BY <1>12 DEF TypeOK, TaskOK, Task, Session, DestInv, TaskChosen, Idle,
      ListItems
  <2>3. (\A v \in wire : v.dest \in chosen)'
    BY <1>12 DEF TypeOK, Upload, TaskOK, Task, DestInv, TaskChosen, ListItems
  <2>4. FiledWhereChosen'
    BY <1>12 DEF TypeOK, Upload, DestInv, FiledWhereChosen, ListItems
  <2> QED
    BY <2>1, <2>2, <2>3, <2>4 DEF DestInv
<1>13. ASSUME NEW t \in Tasks, NEW i \in Items, StartUpload(t, i) PROVE DestInv'
  <2>1. (session.dest \in chosen \cup {None})'
    BY <1>13 DEF TypeOK, TaskOK, Task, Session, DestInv, TaskChosen,
      StartUpload, StartItem
  <2>2. (\A s \in Tasks : TaskChosen(s))'
    BY <1>13 DEF TypeOK, TaskOK, Task, Session, DestInv, TaskChosen, Idle,
      StartUpload, StartItem
  <2>3. (\A v \in wire : v.dest \in chosen)'
    BY <1>13 DEF TypeOK, Upload, TaskOK, Task, DestInv, TaskChosen,
      StartUpload, StartItem
  <2>4. FiledWhereChosen'
    BY <1>13 DEF TypeOK, Upload, DestInv, FiledWhereChosen, StartUpload,
      StartItem
  <2> QED
    BY <2>1, <2>2, <2>3, <2>4 DEF DestInv
<1>14. ASSUME NEW t \in Tasks, NEW i \in Items, FailOffline(t, i) PROVE DestInv'
  <2>1. (session.dest \in chosen \cup {None})'
    BY <1>14 DEF TypeOK, TaskOK, Task, Session, DestInv, TaskChosen,
      FailOffline, StartItem
  <2>2. (\A s \in Tasks : TaskChosen(s))'
    BY <1>14 DEF TypeOK, TaskOK, Task, Session, DestInv, TaskChosen, Idle,
      FailOffline, StartItem
  <2>3. (\A v \in wire : v.dest \in chosen)'
    BY <1>14 DEF TypeOK, Upload, TaskOK, Task, DestInv, TaskChosen,
      FailOffline, StartItem
  <2>4. FiledWhereChosen'
    BY <1>14 DEF TypeOK, Upload, DestInv, FiledWhereChosen, FailOffline,
      StartItem
  <2> QED
    BY <2>1, <2>2, <2>3, <2>4 DEF DestInv
<1>15. ASSUME NEW t \in Tasks, EndPass(t) PROVE DestInv'
  <2>1. (session.dest \in chosen \cup {None})'
    BY <1>15 DEF TypeOK, TaskOK, Task, Session, DestInv, TaskChosen, EndPass
  <2>2. (\A s \in Tasks : TaskChosen(s))'
    BY <1>15 DEF TypeOK, TaskOK, Task, Session, DestInv, TaskChosen, Idle,
      EndPass
  <2>3. (\A v \in wire : v.dest \in chosen)'
    BY <1>15 DEF TypeOK, Upload, TaskOK, Task, DestInv, TaskChosen, EndPass
  <2>4. FiledWhereChosen'
    BY <1>15 DEF TypeOK, Upload, DestInv, FiledWhereChosen, EndPass
  <2> QED
    BY <2>1, <2>2, <2>3, <2>4 DEF DestInv
<1>16. ASSUME NEW t \in Tasks, Send(t) PROVE DestInv'
  <2>1. (session.dest \in chosen \cup {None})'
    BY <1>16 DEF TypeOK, TaskOK, Task, Session, DestInv, TaskChosen, Send
  <2>2. (\A s \in Tasks : TaskChosen(s))'
    BY <1>16 DEF TypeOK, TaskOK, Task, Session, DestInv, TaskChosen, Idle,
      Send
  <2>3. (\A v \in wire : v.dest \in chosen)'
    BY <1>16 DEF TypeOK, Upload, TaskOK, Task, DestInv, TaskChosen, Send
  <2>4. FiledWhereChosen'
    BY <1>16 DEF TypeOK, Upload, DestInv, FiledWhereChosen, Send
  <2> QED
    BY <2>1, <2>2, <2>3, <2>4 DEF DestInv
<1>17. ASSUME NEW t \in Tasks, NEW u \in wire, MarkSynced(t, u) PROVE DestInv'
  <2>1. (session.dest \in chosen \cup {None})'
    BY <1>17 DEF TypeOK, TaskOK, Task, Session, DestInv, TaskChosen,
      MarkSynced, Mark, Answered
  <2>2. (\A s \in Tasks : TaskChosen(s))'
    BY <1>17 DEF TypeOK, TaskOK, Task, Session, DestInv, TaskChosen, Idle,
      MarkSynced, Mark, Answered
  <2>3. (\A v \in wire : v.dest \in chosen)'
    BY <1>17 DEF TypeOK, Upload, TaskOK, Task, DestInv, TaskChosen,
      MarkSynced, Mark, Answered
  <2>4. FiledWhereChosen'
    BY <1>17 DEF TypeOK, Upload, DestInv, FiledWhereChosen, MarkSynced, Mark,
      Answered
  <2> QED
    BY <2>1, <2>2, <2>3, <2>4 DEF DestInv
<1>18. ASSUME NEW t \in Tasks, NEW u \in wire, NEW lost \in BOOLEAN,
             MarkFailed(t, u, lost) PROVE DestInv'
  <2>1. (session.dest \in chosen \cup {None})'
    BY <1>18 DEF TypeOK, TaskOK, Task, Session, DestInv, TaskChosen,
      MarkFailed, Mark, Answered
  <2>2. (\A s \in Tasks : TaskChosen(s))'
    BY <1>18 DEF TypeOK, TaskOK, Task, Session, DestInv, TaskChosen, Idle,
      MarkFailed, Mark, Answered
  <2>3. (\A v \in wire : v.dest \in chosen)'
    BY <1>18 DEF TypeOK, Upload, TaskOK, Task, DestInv, TaskChosen,
      MarkFailed, Mark, Answered
  <2>4. FiledWhereChosen'
    BY <1>18 DEF TypeOK, Upload, DestInv, FiledWhereChosen, MarkFailed, Mark,
      Answered
  <2> QED
    BY <2>1, <2>2, <2>3, <2>4 DEF DestInv
<1>19. ASSUME NEW t \in Tasks, Close(t) PROVE DestInv'
  <2>1. (session.dest \in chosen \cup {None})'
    BY <1>19 DEF TypeOK, TaskOK, Task, Session, DestInv, TaskChosen, Close
  <2>2. (\A s \in Tasks : TaskChosen(s))'
    BY <1>19 DEF TypeOK, TaskOK, Task, Session, DestInv, TaskChosen, Idle,
      Close
  <2>3. (\A v \in wire : v.dest \in chosen)'
    BY <1>19 DEF TypeOK, Upload, TaskOK, Task, DestInv, TaskChosen, Close
  <2>4. FiledWhereChosen'
    BY <1>19 DEF TypeOK, Upload, DestInv, FiledWhereChosen, Close
  <2> QED
    BY <2>1, <2>2, <2>3, <2>4 DEF DestInv
<1>20. ASSUME NEW u \in wire, StoreBytes(u) PROVE DestInv'
  <2>1. (session.dest \in chosen \cup {None})'
    BY <1>20 DEF TypeOK, TaskOK, Task, Session, DestInv, TaskChosen,
      StoreBytes
  <2>2. (\A s \in Tasks : TaskChosen(s))'
    BY <1>20 DEF TypeOK, TaskOK, Task, Session, DestInv, TaskChosen, Idle,
      StoreBytes
  <2>3. (\A v \in wire : v.dest \in chosen)'
    BY <1>20 DEF TypeOK, Upload, TaskOK, Task, DestInv, TaskChosen, StoreBytes
  <2>4. FiledWhereChosen'
    BY <1>20 DEF TypeOK, Upload, DestInv, FiledWhereChosen, StoreBytes
  <2> QED
    BY <2>1, <2>2, <2>3, <2>4 DEF DestInv
<1>21. ASSUME NEW u \in wire, StoreManifest(u) PROVE DestInv'
  <2>1. (session.dest \in chosen \cup {None})'
    BY <1>21 DEF TypeOK, TaskOK, Task, Session, DestInv, TaskChosen,
      StoreManifest
  <2>2. (\A s \in Tasks : TaskChosen(s))'
    BY <1>21 DEF TypeOK, TaskOK, Task, Session, DestInv, TaskChosen, Idle,
      StoreManifest
  <2>3. (\A v \in wire : v.dest \in chosen)'
    BY <1>21 DEF TypeOK, Upload, TaskOK, Task, DestInv, TaskChosen,
      StoreManifest
  <2>4. FiledWhereChosen'
    BY <1>21 DEF TypeOK, Upload, DestInv, FiledWhereChosen, StoreManifest
  <2> QED
    BY <2>1, <2>2, <2>3, <2>4 DEF DestInv
<1>22. ASSUME NEW u \in wire, Refuse(u) PROVE DestInv'
  <2>1. (session.dest \in chosen \cup {None})'
    BY <1>22 DEF TypeOK, TaskOK, Task, Session, DestInv, TaskChosen, Refuse
  <2>2. (\A s \in Tasks : TaskChosen(s))'
    BY <1>22 DEF TypeOK, TaskOK, Task, Session, DestInv, TaskChosen, Idle,
      Refuse
  <2>3. (\A v \in wire : v.dest \in chosen)'
    BY <1>22 DEF TypeOK, Upload, TaskOK, Task, DestInv, TaskChosen, Refuse
  <2>4. FiledWhereChosen'
    BY <1>22 DEF TypeOK, Upload, DestInv, FiledWhereChosen, Refuse
  <2> QED
    BY <2>1, <2>2, <2>3, <2>4 DEF DestInv
<1>23. ASSUME SignalComesBack PROVE DestInv'
  <2>1. (session.dest \in chosen \cup {None})'
    BY <1>23 DEF TypeOK, TaskOK, Task, Session, DestInv, TaskChosen,
      SignalComesBack
  <2>2. (\A s \in Tasks : TaskChosen(s))'
    BY <1>23 DEF TypeOK, TaskOK, Task, Session, DestInv, TaskChosen, Idle,
      SignalComesBack
  <2>3. (\A v \in wire : v.dest \in chosen)'
    BY <1>23 DEF TypeOK, Upload, TaskOK, Task, DestInv, TaskChosen,
      SignalComesBack
  <2>4. FiledWhereChosen'
    BY <1>23 DEF TypeOK, Upload, DestInv, FiledWhereChosen, SignalComesBack
  <2> QED
    BY <2>1, <2>2, <2>3, <2>4 DEF DestInv
<1>24. CASE UNCHANGED vars
  BY <1>24 DEF vars, DestInv, TaskChosen,
    FiledWhereChosen
<1> QED
  BY <1>1, <1>2, <1>3, <1>4, <1>5, <1>6, <1>7, <1>8, <1>9, <1>10, <1>11,
    <1>12, <1>13, <1>14, <1>15, <1>16, <1>17, <1>18, <1>19, <1>20, <1>21,
    <1>22, <1>23, <1>24 DEF Next, Page, Queue, Server

-----------------------------------------------------------------------------
\* Every variable of the phone, the queue and the server keeps its type, and
\* each chain of awaits holds what its place in the code needs.
THEOREM TypeCorrect == Spec => []TypeOK
<1> QED
  BY TypeInit, TypeStep, PTL DEF Spec

\* However passes, crashes and answers overlap, a capture called synced has
\* its bytes and its receipt manifest on the server.
THEOREM SyncedReceived == Spec => []SyncedIsReceived
<1>1. ReceiptInv => SyncedIsReceived
  BY DEF ReceiptInv
<1> QED
  BY <1>1, TypeCorrect, ReceiptInit, ReceiptStep, PTL DEF Spec

\* The server files a capture only under a destination the user chose.
THEOREM FiledChosen == Spec => []FiledWhereChosen
<1>1. DestInv => FiledWhereChosen
  BY DEF DestInv
<1> QED
  BY <1>1, TypeCorrect, DestInit, DestStep, PTL DEF Spec
=============================================================================
