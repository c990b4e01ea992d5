------------------------------ MODULE FieldDaily ------------------------------
(***************************************************************************)
(* The field day: projects, captures, daily-log entries, the relay cards   *)
(* the Right Hand orchestrator raises from an entry, their review, and the *)
(* projection file kept per project.  Two servers serve it from one event  *)
(* file: the slice server (src/scripts/serve-v15-vertical-slice.ts) and    *)
(* the API (src/src/api/routes/fieldDaily.ts and relay.ts).  Each request  *)
(* is a sequence of file operations, and every operation may be separated  *)
(* from the next by steps of other requests.                               *)
(***************************************************************************)
EXTENDS EventStore

CONSTANTS FieldReqs,        \* requests; each is used once, which bounds the log
          Projects,
          FixtureProjects,  \* projects of the API's fixtures, no event needed
          Entries,          \* daily-log entry ids a client sends
          SignalSets,       \* what extraction may find in a transcript
          MaxClock          \* bound on the spans of 24 hours that go by

ASSUME FieldAssumption ==
  /\ FixtureProjects \subseteq Projects
  /\ NoReq \notin FieldReqs
  /\ MaxClock \in Nat

VARIABLES job,     \* per request: its operation and how far it is
          page,    \* per project: the projection file
          clock    \* how many times more than 24 hours went by

fieldVars == <<job, page, clock>>

Servers == {"slice", "api"}
NoPage == {}       \* no projection file: a projection holds project.created

Unused == [op |-> "none", server |-> "slice", project |-> "none",
           about |-> "none", at |-> "idle", cards |-> {}, todo |-> <<>>,
           next |-> NoPage, urgent |-> FALSE, day |-> 0, error |-> FALSE]

FieldInit ==
  /\ job = [r \in FieldReqs |-> Unused]
  /\ page = [p \in Projects |-> NoPage]
  /\ clock = 0

Goes(r, step) == job' = [job EXCEPT ![r].at = step]

\* A request that is answered with an error, or dies, is forgotten but for
\* the server it went to.
Stopped(server) ==
  [Unused EXCEPT !.op = "any", !.server = server, !.at = "stopped"]

Stops(r) == job' = [job EXCEPT ![r] = Stopped(@.server)]

\* A request is answered.  Of an entry whose drift was urgent it stays known
\* when that was found, whether an error was reported, and the cards it went by.
Answered(j) ==
  IF j.urgent THEN [j EXCEPT !.at = "done", !.next = NoPage]
  ELSE [Stopped(j.server) EXCEPT !.at = "done"]

Ends(r) == job' = [job EXCEPT ![r] = Answered(@)]

-----------------------------------------------------------------------------
(* Drift and surfacing: pure rules over the signals found in an entry.     *)

Has(S, names) == S \cap names # {}

\* classifyDailyLogDrift
Severity(S) ==
  CASE "behind" \in S /\ Has(S, {"money", "scope"})    -> "block"
    [] "behind" \in S /\ ~Has(S, {"money", "scope"})   -> "warn"
    [] "behind" \notin S /\ "money" \in S              -> "warn"
    [] ~Has(S, {"behind", "money"})
         /\ Has(S, {"scope", "decision", "blocked"})   -> "caution"
    [] ~Has(S, {"behind", "money", "scope", "decision", "blocked"})
         /\ "task" \in S                               -> "info"
    [] OTHER                                           -> "none"

\* The rule without its 24 hours.
SurfacesOnce(S, entry, cards, now) ==
  \/ Severity(S) = "block"
  \/ Severity(S) = "warn" /\ \A c \in cards : c.about # entry
  \/ Severity(S) = "caution" /\ Has(S, {"decision", "scope"})

\* classifyRelayCardSurfacing; cards is the surface history the request read.
Surfaces(S, entry, cards, now) ==
  \/ Severity(S) = "block"
  \/ /\ Severity(S) = "warn"
     /\ \A c \in cards : ~(c.about = entry /\ c.at >= now)
  \/ Severity(S) = "caution" /\ Has(S, {"decision", "scope"})

\* The events of one orchestrator run, in the order they are appended.
Derived(r, S) ==
  LET j == job[r]
      When(b, type, at) ==
        IF b THEN <<New(type, r, j.project, j.about, NoReq, at)>> ELSE <<>>
  IN  When(TRUE, "facts", 0)
      \o When(Severity(S) # "none", "drift", 0)
      \o When(Surfaces(S, j.about, j.cards, clock), "surfaced", clock)

-----------------------------------------------------------------------------
(* The steps of a request.  Each is one file operation with what the        *)
(* handler does before the next one; a request that its first read refuses  *)
(* changes nothing and is not represented.                                  *)

Created(p, lines) ==
  \E l \in lines : l[2].type = "project.created" /\ l[2].project = p

\* The check that any event of the project passes.
ProjectHasEvents(server, p) ==
  \/ server = "slice" /\ page[p] # NoPage
  \/ server = "api" /\ p \in FixtureProjects
  \/ ReadProject(p) # {}

\* The two servers look differently: the slice server takes the projection
\* file for an answer, the API its fixtures; both else ask the log.
ProjectExists(server, p) ==
  \/ server = "slice" /\ page[p] # NoPage
  \/ server = "api" /\ p \in FixtureProjects
  \/ Created(p, ReadProject(p))

Starts(r, op, server, p, about, step) ==
  /\ job[r].op = "none"
  /\ job' = [job EXCEPT ![r].op = op, ![r].server = server, ![r].project = p,
                        ![r].about = about, ![r].at = step]
  /\ UNCHANGED <<page, clock, storeVars>>

\* handleCreateProject, up to the append: the id may be the caller's, and
\* whether it exists already is not asked.
PostProject(r, p) == Starts(r, "project", "slice", p, "none", "append")

\* handleRecordCapture, up to the append.
PostCapture(r, p) ==
  /\ ProjectExists("slice", p)
  /\ Starts(r, "capture", "slice", p, "none", "append")

\* handleCreateDailyLogEntry, and the API's POST of the same path, up to the
\* append: the client may send the entry_id, so a repeated post names the
\* same entry.
PostEntry(r, server, p, e) ==
  /\ ProjectExists(server, p)
  /\ Starts(r, "entry", server, p, e, "append")

\* The search that takes any entry with extracted facts for a card.
SurfacedOrProxied(card) ==
  {e \in Events(Readable) : e.type \in {"surfaced", "facts"} /\ e.by = card}

\* findRelayCardSurfaced: the card's surfaced event gives a review its project.
Surfaced(card) ==
  {e \in Events(Readable) : e.type = "surfaced" /\ e.by = card}

\* The review that does not take its project from the card.
ReviewNowhere(r, server, card) ==
  Surfaced(card) # {} /\ Starts(r, "review", server, "none", card, "append")

\* handleRelayCardReview, and the API's, up to the append: a card is named by
\* the request that raised it.
PostReview(r, server, card) ==
  \E e \in Surfaced(card) : Starts(r, "review", server, e.project, card, "append")

\* handleGetProject, up to the read of the log: only a project without a
\* projection file is rebuilt.
GetProject(r, p) ==
  /\ page[p] = NoPage
  /\ Starts(r, "get", "slice", p, "none", "reread")

\* The event a request is there to append.
Recorded(r) ==
  LET j == job[r]
  IN  CASE j.op = "project" -> New("project.created", r, j.project, "none", NoReq, 0)
        [] j.op = "capture" -> New("capture", r, j.project, "none", NoReq, 0)
        [] j.op = "entry"   -> New("entry", r, j.project, j.about, NoReq, 0)
        [] j.op = "review"  -> New("reviewed", r, j.project, "none", j.about, 0)

\* The append every handler insists on: if it throws the request fails.
AppendRecorded(r) ==
  /\ job[r].at = "append"
  /\ \/ /\ AppendReturns(Recorded(r))
        /\ CASE job[r].op = "entry"                             -> Goes(r, "history")
             [] job[r].op # "entry" /\ job[r].server = "slice"  -> Goes(r, "reread")
             [] job[r].op # "entry" /\ job[r].server = "api"    -> Ends(r)
     \/ AppendThrows(Recorded(r)) /\ Stops(r)
  /\ UNCHANGED <<page, clock>>

\* The surface history for the 24-hour rule, read before the orchestrator runs.
ReadHistory(r) ==
  /\ job[r].at = "history"
  /\ job' = [job EXCEPT ![r].at = "orchestrate",
                        ![r].cards = {e \in Events(Readable) : e.type = "surfaced"}]
  /\ UNCHANGED <<page, clock, storeVars>>

\* What entry request r, now at state j, does next: while derived events are
\* left it appends them; then the slice server rebuilds the projection and the
\* API answers.
Continues(r, j) ==
  job' = [job EXCEPT ![r] =
    CASE j.todo # <<>>                         -> [j EXCEPT !.at = "derive"]
      [] j.todo = <<>> /\ j.server = "slice"   -> [j EXCEPT !.at = "reread"]
      [] j.todo = <<>> /\ j.server = "api"     -> Answered(j)]

\* runRightHandOrchestrator: it throws, or asks for a clarification only
\* because the transcript mostly failed, or extracts signals S.
Orchestrate(r) ==
  /\ job[r].at = "orchestrate"
  /\ \/ \E throws \in BOOLEAN :
          Continues(r, [job[r] EXCEPT !.error = throws, !.cards = {}])
     \/ \E S \in SignalSets :
          LET urgent == Severity(S) \in {"block", "warn"}
          IN  Continues(r, [job[r] EXCEPT !.todo = Derived(r, S), !.day = clock,
                                          !.cards = IF urgent THEN @ ELSE {},
                                          !.urgent = urgent])
  /\ UNCHANGED <<page, clock, storeVars>>

\* Derived events are appended one by one; one that fails is only reported
\* (play_error) and the others are still appended.  From here on cards is
\* history: what the request read, and the card it was told it appended.
AppendDerived(r) ==
  /\ job[r].at = "derive"
  /\ LET e == Head(job[r].todo)
         Rest(failed, raised) ==
           Continues(r, [job[r] EXCEPT !.todo = Tail(@), !.error = @ \/ failed,
                                       !.cards = @ \cup raised])
     IN  \/ AppendReturns(e) /\ Rest(FALSE, {c \in {e} : c.type = "surfaced"})
         \/ AppendThrows(e) /\ Rest(TRUE, {})
  /\ UNCHANGED <<page, clock>>

\* The rebuild that forgets to filter by correlation_id.
RebuildUnfiltered(p, lines) == IF Created(p, lines) THEN lines ELSE NoPage

\* rebuildProjectProjection: every field of a projection is a function of the
\* project's events in file order, so the projection stands as those events.
\* The file is taken to be of one tenant: the rebuild filters its events by
\* correlation_id and by nothing else (projections.ts:352).
Rebuild(p, lines) ==
  IF Created(p, lines) THEN {l \in lines : l[2].project = p} ELSE NoPage

\* rebuildAndPersistProjection, up to the write: the events were read whole.
Reread(r) ==
  /\ job[r].at = "reread"
  /\ LET p == job[r].project
         built == Rebuild(p, InOrder(Readable))
     IN  IF built = NoPage
         THEN Ends(r)
         ELSE job' = [job EXCEPT ![r].at = "write", ![r].next = built]
  /\ UNCHANGED <<page, clock, storeVars>>

\* writeProjectProjection: a temporary file, renamed over the projection.
WriteProjection(r) ==
  /\ job[r].at = "write"
  /\ page' = [page EXCEPT ![job[r].project] = job[r].next]
  /\ Ends(r)
  /\ UNCHANGED <<clock, storeVars>>

\* More than 24 hours go by.
Tomorrow ==
  /\ clock < MaxClock
  /\ clock' = clock + 1
  /\ UNCHANGED <<job, page, storeVars>>

Over == {"idle", "done", "stopped"}

\* The process of a server dies with every request it was serving.
DropJobs(server) ==
  job' = [r \in FieldReqs |->
            IF job[r].server = server /\ job[r].at \notin Over
            THEN Stopped(server)
            ELSE job[r]]

FieldStep(r) ==
  \/ AppendRecorded(r)
  \/ ReadHistory(r)
  \/ Orchestrate(r)
  \/ AppendDerived(r)
  \/ Reread(r)
  \/ WriteProjection(r)

FieldArrives(r) ==
  \/ \E p \in Projects : PostProject(r, p) \/ PostCapture(r, p) \/ GetProject(r, p)
  \/ \E server \in Servers, p \in Projects, e \in Entries :
       PostEntry(r, server, p, e)
  \/ \E server \in Servers, card \in FieldReqs \ {r} : PostReview(r, server, card)

FieldNext ==
  \/ \E r \in FieldReqs : FieldArrives(r) \/ FieldStep(r)
  \/ Tomorrow

-----------------------------------------------------------------------------
(* What is promised.                                                       *)

\* No entry and no capture is filed under a project that nobody created ("a
\* capture against an unknown project must fail honestly", fieldDaily.ts:69-73),
\* whichever server took it, whatever projection file it trusted and whatever
\* else the log holds for the project.
EntryHasProject ==
  \A i \in DOMAIN log :
    log[i].type \in {"entry", "capture"} =>
      \/ \E e \in Earlier(i) : /\ e.type = "project.created"
                                /\ e.project = log[i].project
      \/ /\ log[i].project \in FixtureProjects
         /\ job[log[i].by].server = "api"

\* A card about the entry of request j, not older than 24 hours when j's drift
\* was found.
Warns(e, j) == e.type = "surfaced" /\ e.about = j.about /\ e.at >= j.day

\* Entry requests answered without an error although the drift they found
\* stops or endangers the job.
Urgent == {r \in FieldReqs : job[r].at = "done" /\ job[r].urgent /\ ~job[r].error}

\* When an entry whose drift stops or endangers the job was answered without
\* an error, the file holds a card about it of the last 24 hours, which the
\* office reads.  One thing is exempt, and named: a torn line took the card.
\* It is then the very card this request was told it appended, or one it had
\* read in the unfinished line; the request is answered 201 without play_error
\* all the same, and the office may never see the card.
NoWarningUnseen ==
  \A r \in Urgent :
    \/ \E e \in Events(Readable) : Warns(e, job[r])
    \/ \E e \in job[r].cards \cap hurt : Warns(e, job[r])

\* A review stands after the card it reviews, in the card's project; or the
\* card was read in an unfinished line, and lost since.
ReviewedWasSurfaced ==
  \A i \in DOMAIN log :
    log[i].type = "reviewed" =>
      \E e \in Earlier(i) : /\ e.type = "surfaced"
                             /\ e.by = log[i].cites
                             /\ e.project = log[i].project

Sound(lines) == {l \in lines : l[2] \notin hurt}

LinesUpTo(n, p) == {<<i, log[i]>> : i \in {j \in 1 .. n : log[j].project = p}}

\* A projection file is never a mixture: leaving out lost events, it holds
\* what the file said of its project, and of no other, at some moment; it may
\* be an older moment than that of the projection it replaced.
ProjectionIsPast ==
  \A p \in Projects :
    page[p] # NoPage =>
      /\ Created(p, page[p])
      /\ \E n \in 0 .. Len(log) : Sound(page[p]) = Sound(LinesUpTo(n, p))
=============================================================================
