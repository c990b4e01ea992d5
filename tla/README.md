# Verification of the Kerf application server

TLA+ models of the parts of this repository where money, client-facing
documents and one-way decisions depend on the order in which things happen,
the TLC configurations that check them on small instances, and theorems about
them, proved with TLAPS for all instances. Every definition is translated from
the source; `PROJECT.json` gives the lines for each.

## The system

One Node process (`src/api`, Hono) serves the operator's application. It runs
on one machine that is stopped when idle and started by the next request
(`fly.toml`: `auto_stop_machines`, `min_machines_running = 0`). Requests
interleave at every `await`; there is no transaction and no lock anywhere. What
is durable is Postgres (one statement at a time), and JSON-lines files on a
volume. A second process, the slice server
(`scripts/serve-v15-vertical-slice.ts`), serves the field day from the same
event file. The phone keeps captures in IndexedDB and uploads them when it can.

| Component | State | Operations | What makes it correct |
|---|---|---|---|
| Invoice ledger (`api/lib/invoiceLedgerStore.ts`) | a table; each row has columns and a jsonb copy | `issue`, `void`, reads, sums | one live invoice per milestone; copies agree; conflicts are honest |
| Invoice issue (`rightHandTurn.ts`, `estimateInvoiceProjection.ts`) | none of its own | read draft, gate, two sums, tie-outs, `issue` | what is billed fits the contract, to the cent |
| Estimate draft (`rightHandAssemblyStore.ts`, `estimateWorkbook.ts`) | one row per estimate, gate included | assemble, edit by page or voice, Use here, workbook import | only approved prices reach a client; edits never approve |
| Render fence (`estimateProposalProjection.ts`) | none | classify a line, build the proposal | a line is shown only with a basis and an approval |
| Lead conversion (`rightHandTurn.ts`, `salesDesignKb.ts`) | event log, drafts, board in memory, board in Postgres | assemble, convert, enter design, load, persist | one project per lead; no dangling pointer |
| Capture sync (`captureStore.ts`, `captureUploadQueue.ts`, `camera.astro`, `captureUploadReceiptStore.ts`) | session and items in IndexedDB; bytes and manifests on the server | take, save, route, mark, roll up, pass of the queue, upload | synced means received; filed where the user chose; nothing starves |
| Event store (`persistence/eventStore.ts`) | one JSON-lines file, two writers | append, tolerant read | a torn line costs itself and the next one, no more |
| Field day (`fieldDaily.ts`, `relay.ts`, the slice server, `orchestrator.ts`) | that file; a projection file per project | create project, capture, entry, derived events, review, rebuild | entries have a project; a warning has a card in the file, unless a torn line takes it; a projection is the past of its own project |
| Proposal send gate (`proposals.ts`) | that file | evaluate, send, override | a proposal is sent after its evaluation, or its override |
| Estimate runner (`estimateRunner.ts`, `estimator/orchestration/`, `sharedEstimateEventLog.ts`) | the Postgres event log, the draft's row | ask the model, trust discipline, gate, three appends, save | the trail is causal and complete under every stored draft; an open draft is backed |
| Altitude policy gate (`altitude/gate.ts`) | none | eight validators, altitude, decision | only what needs no human acts alone |
| Rate standards | a table | save standards from approved lines | idempotent, nothing promised together |
| Conversation snapshots | a file per conversation | replace, delete | last writer wins, nothing promised |
| Follow-up workflows, payment milestones, operator actions | none | pure functions | no caller in the servers |
| Sessions, capabilities, authority, permissions | tables in code | checks | stateless |
| Variance statistics, voice models, rendering, UI | none | model calls, statistics, layout | not for a model checker |

How they interact. Assembly asks the estimator and the policy gate, writes the
deal to the sales board, then the draft. Edits, imports and approvals read the
draft, compute a new one and save the whole of it. The invoice and proposal
projections are computed from a draft when asked for; the invoice route alone
then writes, to the ledger. A conversion appends `project.created` to the event
log, re-anchors the lead's drafts and marks the deal. An upload ends in the
receipt store; an entry of the field day ends in the event file with whatever
facts, drift and card the orchestrator derives from it, and a review and a send
are later events of that file. The assembly's own trail (drafted, audit, queue)
goes to a separate log in Postgres before the draft is saved.

What is hard in it: every read is stale by the time it is used; every save
replaces whatever came between; two stores are never written together; the
process stops between any two statements; a first load of the board can undo
what another request did to it; the phone loses the page, the signal and the
answer at any moment; an append may stop part way and spoil its successor. `PROJECT.json` lists each
such place under `hazards`.

## The modules

| Module | Models | Built on |
|---|---|---|
| `LiveInvoices` | what the ledger promises: atomic issue and void (the in-memory store the tests use) | |
| `InvoiceLedger` | the Postgres ledger, one action per SQL statement | refines `LiveInvoices` |
| `InvoiceIssue` | the billing route | extends `InvoiceLedger` |
| `EstimateDraft` | the draft, its gate, the render fence and the requests that change it | |
| `DealConversion` | a lead, its drafts, the board and the event log | |
| `CaptureSync` | the phone's session, its upload queue, the wire and the receipt store | |
| `EventStore` | the event file: appends that return, throw or tear | |
| `FieldDaily` | the field day at both servers, file operation by file operation | extends `EventStore` |
| `ProposalSend` | evaluating and sending proposals | extends `EventStore` |
| `OfficeLog` | both on one file, with crashes of either server | extends `FieldDaily`, `ProposalSend` |
| `PolicyGate` | `runPolicyGate` as operators: no state | |
| `EstimateRun` | the assembly route from the model's answer to the stored draft | extends `PolicyGate` |
| `...Proofs` | the theorems | the module they name |
| `MC...` | values of the constants for TLC, symmetry of the callers | |

### Invoice ledger

`table` maps a ledger id to a row or `None`. A row holds a document twice: `cols`
(what the unique index and the WHERE clauses read) and `ledger_row` (what the
sums and reads use). `op[r].pc` says where a request stands: `InsertRow` is the
INSERT with its conflict clause and its caught 23505, `ReadExisting` the SELECT,
`ReissueRow` the conditional UPDATE, `ReadForVoid` and `VoidRow` the two
statements of `void`. `End` delivers the answer, or lets the request die after
any statement. Callers may ask for any id, milestone and amount: the store does
not know its route. No route calls `void` today; only the tests do.

### Invoice issue

`route[r]` is the request before the ledger call, `op[r]` the ledger call. The
draft enters as its contract total and its gate, because that is all billing
reads of it: `SaveDraft` sets them to anything, at any time. `ReadMilestoneSum`
and `ReadBasisSum` are the two queries of the `Promise.all`, in either order.
`AskLedger` and `Refuse` are the second projection with its tie-outs. `seen` is a
history variable: the totals a draft has had.

### Estimate draft

A line keeps what the fences tell apart: source (the tier follows it), amount
or none, what its `source_ref` names (`ref`: a line of the rate card, a saved
rate standard, or something else), and whether it is suggested, added by
a workbook, removed, or approved. `born` is the source spelled out in the line's
id and never changes. A request holds a copy of the draft; reading and the first
computation are one action since no await separates them that matters: the copy
is what was read. `Save` writes the copy over whatever is stored. A workbook
import is a sequence of `EditLine` and `AddRow` on one copy, the apply-loop a
sequence of `EditLine`; `CarryOver` is what a conversion does to one draft: it
saves it as its search read it, the anchor (which `DealConversion` follows) aside. `Rendered` is the render fence without its word filter;
quantities and unit prices are abstracted to the amount of the line.

### Lead conversion

One lead. `created` is the event log, `anchors` the drafts' `anchor_type` and
`project_id`, `board` the deal in the memory of the process (`Cold` before the
first load), `durable` its row in Postgres. `Act` is what a handler computes
without an await once it has the board. `WriteDeal` writes the row the persist
captured when it began. `Fail` ends a request at any await, `Restart` empties the
process. `Design` is the `project_id` that entering design derives from the deal's
id; it is not a created project. The search finds every draft of the deal (the
code reads at most 25 of the tenant's). An append of `project.created` that
returns is taken to stand: that one may be acknowledged and lost on a torn line
is shown by the office log and left out here.

### Capture sync

One session. `session` and `items` are IndexedDB, `store` the server's two files
per item, `wire` the uploads the server has not finished or whose answer is not
yet read. A task is one chain of awaits in the page: taking a capture
(`TakeCapture` to `SaveItem`), choosing a destination, marking, or one pass of
the queue (`StartPass` to `EndPass`); `snap`, `roll` and `todo` are what it has
read and not yet used. `ReadForRollup`, `ListForRollup` and `PutRollup` are the
three transactions of `updateSessionRollup`. `Send` puts an upload on the wire;
`StoreBytes` and `StoreManifest` are the two atomic writes of the server, and
`MarkFailed` may come while the server goes on. `Close` ends a chain anywhere.
`chosen` is a history variable, `signal` the assumption of the liveness property.

### The office log

`log` is the valid lines of the event file, `tail` the unfinished last line as
readers see it. Every action is one file operation together with what its
handler does up to the next. `AppendTears` writes a part of a line: the next
append of any request on either server is answered with success and lost.
`acked`, `hurt` and `tears` are history variables and no action reads them but
`Quotable`, which is what a client was answered; so are the `cards` of a job, the
surfaced cards its request read or was told it appended. A request is used once; one
that its first read refuses changes nothing and is not represented. `SignalSets`
is what extraction may find in a transcript: the severity and surfacing rules
are translated, the extraction is not. A projection file stands as the events it
was built from, each with its place in the file, because every field of it is a
function of these in their order (`Rebuild`). The file is of one tenant: the
code filters a project's events by `correlation_id` alone (`projections.ts:352`),
and what happens when two tenants use one project id is not modelled. `Tomorrow` passes one window of 24
hours.

### Policy gate and estimate run

`PolicyGate` is the pure function `runPolicyGate` over the facts of a packet it
looks at. V12 and V18 are left out because they cannot fail.

`EstimateRun` follows one request of `assemble-estimate`. `Estimate` is the
model's answer, the trust discipline, the builder's second check, the packet and
its verdict, in one action because nothing is shared in between. `AppendRow` is
one INSERT ... ON CONFLICT DO NOTHING, which may fail before or after it took
effect; the rows are named by a hash of the request's text, so that a repeated
request finds its rows there. `Connect` is a store's set-up, whose promise is
kept also when it rejects: until the next `Restart` every use of that store
fails, as in the code. A draft is reduced to the text it came from, its lines
and whether its gate is open. A raw answer, the bands and the scopes a text
names with a quantity are inputs. The board's write, which comes between the
appends and the draft, is `DealConversion`'s.

## What TLC checks

| Run | Bounds | Result |
|---|---|---|
| `InvoiceLedger` | 3 requests, 2 ledger ids, 2 milestones, 1 amount | holds |
| `InvoiceIssue` | 2 requests, 1 estimate, totals 5 and 30, cap 2 | holds |
| `InvoiceIssueContract` | the same | **violated** |
| `EstimateDraft` | 2 requests, 1 assembled line of two kinds, 1 workbook row, 1 amount, 2 lines | holds |
| `EstimateDraftEdits` | the same | **violated** |
| `EstimateDraftGate` | the same | **violated** |
| `DealConversion` | 2 requests, 2 drafts, 2 project ids | holds |
| `DealConversionOneWay` | the same | **violated** |
| `CaptureSync` | 2 chains of awaits, 1 capture, 1 destination | holds, liveness included |
| `CaptureSyncPromise` | the same | **violated** |
| `OfficeLog` | 2 requests out of 2 of the field day and 2 sends, 2 projects (one a fixture), 1 entry id, 2 proposals, 2 torn appends, 2 windows | holds |
| `EstimateRun` | 2 requests, repeated without bound, 2 texts, 2 scopes, 5 answers, 3 sets of bands | holds |

Why the bounds suffice for what the runs are to show. In the ledger a stale void
against a re-issue takes three requests and a clash of milestones two ids. With
totals 5 and 30 and a cap of 2 the down payment is 0 in one contract and capped
in the other. A workbook row and an assembled line are one line each kind of
request disagrees about; the two assemblies are the lines an edit or an approval
can open the fences for. Two project ids let a second conversion show; two drafts
let a conversion stop half way. `MaxLines` bounds the rows an import may add.

Stale sessions, overlapping passes and a late store after a failed upload all
need two chains on one capture; with a second capture or a second destination the
run passes ten million states, and the theorems cover those sizes. With its one
destination the run tells only a chosen destination from none; that a capture is
never filed under another destination than one chosen is `FiledChosen`, proved. In the office
log every hazard is about two requests: an entry and the request whose torn
append spoils it, a review and its card, a send and the evaluation it quotes, two
rebuilds, two posts of one entry. `MaxRequests` bounds the log, which only grows;
a third request passes ten million states. `MaxTears = 2` lets the torn line and
its victim both be torn, `MaxClock = 2` a card be fresh, and stale. In the
estimate run the answers are the ones the branches distinguish: a company price
without a total, a word that is no confidence, a price without a source, and
itemized lines on and off the rate card, and one whose quantity rounds to no
cent and leaves the total null; the bands give each scope each kind.
The log and the draft are sets and rows that repeat, so nothing is bounded.
Every property has a mutant of a mapped definition that TLC finds violating it.

Deadlock is checked in every run but those of the office log, whose requests are
used up: elsewhere a stopped request can always end and an idle caller can always
call.

Fairness is assumed in one place, `CaptureSync`, where the code retries by
itself. The event loop runs a chain of awaits on (weak fairness of each chain's
own next step, `Proceed`); the server finishes what it received (`Serve`, weak);
the page starts passes again and again, at its load, when the connection returns
and when the app becomes visible (`StartPass`, strong, since a chain may be busy);
and the signal comes back for good some time (`SignalComesBack`, weak), after
which pages stay open, answers arrive and nothing is refused. The last is an
assumption on the uploads too: a capture that the route refuses for good, an
empty one or one above 250 MB (`lane3Work.ts:295-300`, 413), is retried and
refused for ever, and `NoCaptureStarves` does not speak of it. Faults are never fair. Everywhere else
the code retries nothing, and whether a request ever finishes is up to the client
and the platform, so the properties are safety properties; what a dead request
leaves behind is the question, and `End`, `Fail`, `Crash` and `Restart` are
always possible.

### What is not as documented

- `NoBillingPastTheContract`. The projection throws rather than bill past the
  contract, but with sums read before the ledger write. After a re-pricing, two
  overlapping issues pass the check and together exceed the contract the later
  one was built from. What does hold, and is proved: they fit into the larger of
  the contracts the draft has come to (`BilledWithinAContract`), and a request
  passes its contract only when the sum it read has grown since
  (`CurrentSumsKeepTheContract`); an older draft alone never does it.
- `EditsNeverGraduate`. A line edit copies approvals from the draft it has read,
  and saves them over a draft that no longer has them. Overlap is all it fails by:
  `UndisturbedEditsNeverGraduate` proves it of drafts that stand still while an
  edit holds a copy.
- `GateFollowsLines`. A workbook row is added without the recomputation that
  every other edit makes; the gate stays open over an unapproved price. The render
  fence still holds it back from the client (`ClientSeesOnlyCompanyData`).
- `OneProjectPerLead`. The one-way marker is checked first and written last;
  overlapping or repeated conversions create two projects. Nothing else does:
  `OrderlyMeansOneProject` proves the promise for requests that come one at a
  time, of which none dies between its `project.created` and the write of the
  marked deal; failures and restarts elsewhere are allowed.

- `SavedCapturesSync`. "Right Hand will sync when signal comes back", but a
  capture marked `needs_attention` before its destination was chosen is not
  counted as retryable and nothing moves it back.

Shown by the models, and no run of its own, since the repository promises
nothing that speaks of it or only a comment does:

- A slower rebuild replaces a newer projection, and the API's entries never
  refresh the projection of the slice server (`ProjectionIsPast` allows an older
  past; `projections.ts:341`).
- Two overlapping posts of one entry each raise a card, neither history holding
  the other's.
- `eventStore.ts:26-27` says a failed append leaves the file unchanged: so it
  does when nothing was written.
- Because of that, a call that was answered with success may have lost what it
  wrote to the torn line before it (`eventStore.ts:156`). A post whose card went
  that way is answered 201 without `play_error`, and the office never sees the
  warning: `NoWarningUnseen` names this one exemption, and
  `UntornWarningsAreRead` proves there is no other. In the same way the
  evaluation a sent proposal quotes may be gone (`SentIsGated`), and the card of
  a review (`ReviewedWasSurfaced`): both speak of what was written before, lost
  events counted in.
- Sending a proposal is not idempotent, `override_eligible` is not enforced, and
  the quoted `send_gate_event_id` is not validated.
- `estimator/orchestration/types.ts:60` says a line's confidence is re-derived
  from its band. It is only coerced: a HIGH claimed for a price on a directional
  band stays HIGH and becomes company data in the draft. With a total the policy
  gate blocks it as model inference; with a null total the gate sees no money and
  the draft is open. `packetBuilder.ts:170` likewise speaks of MODEL_INFERENCE
  lines where the code reads only bands.
- The rows of a repeated assembly are those of its first attempt: the log may mix
  two model answers, and the verdict of the retry is never queued.

## What is proved

All for any finite or infinite sets of requests, ids and amounts, under the
assumptions named in the modules (`LedgerAssumption`, `IssueAssumption`,
`DraftAssumption`, `DealAssumption`, `CaptureAssumption`, `EstimateRunAssumption`,
`StoreAssumption`, `FieldAssumption`, `SaleAssumption`, `OfficeAssumption`):
amounts are naturals, invoice amounts positive, the inputs are typed, and the
model values are distinct from the data they stand beside.

`InvoiceLedgerProofs`. The inductive invariant `LedgerInv` adds to the types what
a request inside an operation knows of its row, above all that a row that exists
never disappears, that live copies agree, and that the columns obey the unique
index. `OneLiveInvoicePerMilestone` is not inductive without the copies'
agreement: the index guards the columns, the property speaks of the documents.
Theorems: types, agreement, one live invoice, earned conflicts, and the
refinement of `LiveInvoices`: an insert or a re-issue is an atomic issue, a void
of a live row an atomic void, everything else a stutter.

`InvoiceIssueProofs`. `RouteRefinesLedger` shows that the route takes only steps
of the ledger, so the ledger's invariant is at hand. `IssueInv` adds that every
live invoice carries its own milestone and is at most that milestone of a total
in `seen`, and, while only one total has been seen, all of it. The arithmetic of
`NeverOverbilled` is that the down payment and the balance both grow with the
total, so the instalments of two totals fit into the larger.
`CurrentSumsBillWithin` needs `AsksWithinTheContract` besides: a request inside
the ledger carries the invoice of its own instalment, and that ties out with the
sum it read; the row it writes over is not live, so its amount is all it adds.

`EstimateDraftProofs`. `DraftInv` says of the stored draft and of every copy a
request holds that its gate follows the lines (but for workbook rows) and that a
line is company data exactly by assembly or approval. It must speak of the
copies: each may be saved at any time. Under `UndisturbedSpec`, where nobody
changes the draft while another request holds a copy, `EditsApproveNothing` says
that an edit's copy has no approval the stored draft lacks.

`DealConversionProofs`. `DealInv` says of each request that the projects it holds
are created, the drafts it will carry have a lead, and that a draft is saved only
when the lead is in Postgres; `Keeps` is what a step guarantees to the other
requests. `OrderlySpec` lets one request work at a time, and `OrderlyInv` adds
what it may then count on: the board is the one it saw, and a project that exists
has its mark on both boards, but for a conversion halfway.

`CaptureSyncProofs`. The type invariant says of each chain of awaits what its
place in the code needs (`TaskOK`). `ReceiptInv` adds that an answer on the wire
that says stored has its bytes and manifest behind it, and gives
`SyncedIsReceived`; `DestInv`, that every destination in the session, in a stale
copy of it, on the wire and on the server was chosen, gives `FiledWhereChosen`.

`PolicyGateProofs`. About every packet and every set of roles, with no invariant
to find: altitude is never lowered; acting without a human needs every validator
to pass, an altitude below the operator's, and neither money nor a message;
missing consent is what a recording is blocked for, because some position of the
precedence always decides and V4 is the first (`SomeoneDecides`); guessed money
is never allowed.

`EstimateRunProofs`. `RunInv` says at each place in the code which rows of the
trail are in the log already, which no later failure takes back since the log
only grows; and that a draft is backed wherever it is held. The latter rests on
two lemmas about the trust discipline, for any answer and any bands:
`ParserSatisfiesBuilder`, and `HighIsBacked`, that a price still called HIGH
after the discipline names the rate card and stands on comparables.

`OfficeLogProofs`. `Seen` is what was written and not taken back: the events of
the file and those a torn line may cost. It only grows, through tears and
crashes (`FileOnlyGrows`), which is what makes a read survive until it is used.
`OfficeInv` says that every event of the file rests on events before it or lost
(`Grounded`), and, since a check is made long before the append it is for, that
every request holds, at its place in the code, what its next event will rest on:
an entry its project, a review its card, a send its evaluation or its classified
override. A request that met an urgent drift holds a card about it among those it
read or appended, all of them seen, or among what it still has to append. Seen is
not read: a torn line may take the card later, which `WarningsAreSeen` exempts by
name. Until the first torn append nothing is lost, by `TearsAreContained`, and
`UntornWarningsAreRead` says that every such card is in the file. A projection, written or about to be, is
`Built`: what the file said of its project up to some line, lost events aside.
`TearsAreContained` needs that the unfinished line is itself among the lost ones
and that it has not cost a second event yet, which is one conjunct of `StoreInv`
and the reason for the factor 2. What a lemma says of one request (`FieldMoves`,
`SaleMoves`) carries over to the others because all they hold lasts under
`Grows` (`JobLasts`, `SaleLasts`, `BuiltLasts`, `GroundLasts`).

Only model-checked: the five violations, which are facts about small instances,
and `NoCaptureStarves`, which is liveness and out of the prover's reach. No
module of the project has a recursive operator.

## Not modelled, and the plan

Not modelled, because there is no promise to check or no state to keep:

- Save as standard: a loop of upserts that a retry repeats whole.
- Conversation snapshots: one file, replaced by what the client sends last. Two
  pages of one conversation lose each other's turns, and nothing says otherwise.
- The follow-up workflows, payment milestones, operator actions, learning signals
  and authority profile: pure functions that no server calls.
- `rewriteEventStore`, knowledge ingestion and the file log of the demos: offline
  tooling.
- The attention feed: a fixture.
- Event validation in `persistence/events.ts`: shapes of records.
- Left out for good: the language-model calls (their answers are inputs), voice
  transcription, statistics over floating-point numbers, HTML, i18n and styling,
  and the stub clients of other platforms.

Planned, in this order:

1. `EstimateDraft` under `InvoiceIssue` in place of `SaveDraft`, so that the
   totals billed are those of lines the render fence lets through.
