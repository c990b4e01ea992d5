----------------------------- MODULE EstimateRun ------------------------------
(***************************************************************************)
(* POST right-hand/assemble-estimate (src/src/api/routes/rightHandTurn.ts):*)
(* a model's answer goes through the trust discipline of the estimator     *)
(* (src/src/estimator/orchestration/), the packet made of it through the   *)
(* policy gate; the run leaves three rows in the Postgres event log and    *)
(* the draft in the estimate store.  Requests overlap and are repeated,    *)
(* every statement may fail, also after it took effect, and the machine    *)
(* stops and starts.                                                       *)
(***************************************************************************)
EXTENDS PolicyGate, Sequences

CONSTANTS Requests,   \* requests under way at once; each is used again
          Texts,      \* what the drafts of one conversation are assembled from
          FallbackOf, \* for each text the scopes whose quantity it states
          Scopes,     \* scope tags
          Bands,      \* the bands the comparables may give the scopes
          Answers     \* raw answers of the model

VARIABLES log,        \* kerf_event_log: <<invocation id, row>>
          draft,      \* the conversation's row in the estimate store
          run,        \* per request: where it is, its text and its draft
          connection  \* the cached promise of each Postgres store

vars == <<log, draft, run, connection>>

-----------------------------------------------------------------------------
(* The trust discipline.  A raw answer has summary lines (a price, or none,*)
(* under the confidence and the source the model claims), itemized lines   *)
(* (rated: found on the rate card; counts: its quantity comes to a cent or *)
(* more there), its total, and scopes it calls gaps.                       *)

Confidences == {"HIGH", "LOW", "MODEL_INFERENCE"}

NoDraft == [text |-> "none", open |-> FALSE, lines |-> {}]

\* Anything the model invents as a confidence.
CoerceNothing(says) == says

\* coerceConfidence
Coerce(says) == IF says \in Confidences THEN says ELSE "MODEL_INFERENCE"

\* A scope that is asked for has three comparables of the project's kind, or
\* three of any kind, or neither.
BandKinds == {"HIGH", "LOW", "none", "unasked"}

ASSUME EstimateRunAssumption ==
  /\ "none" \notin Texts
  /\ FallbackOf \in [Texts -> SUBSET Scopes]
  /\ Bands \subseteq [Scopes -> BandKinds]
  /\ \A raw \in Answers :
       /\ \A l \in raw.summary : l.scope \in Scopes /\ {l.priced, l.carded} \subseteq BOOLEAN
       /\ \A i \in raw.items : i.scope \in Scopes /\ {i.rated, i.counts} \subseteq BOOLEAN

\* precision_allowed
Precise(band) == band \in {"HIGH", "LOW"}

\* A summary price as it comes.
KeepsAnyPrice(line) == line.priced

\* requireRateCardPricing: a summary price without a rate-card source is dropped.
KeepsPrice(line) == line.priced /\ line.carded

Summary(line, bands) ==
  [scope |-> line.scope, priced |-> KeepsPrice(line), carded |-> line.carded,
   band |-> bands[line.scope],
   says |-> IF line.priced /\ (~KeepsPrice(line) \/ ~Precise(bands[line.scope]))
            THEN "MODEL_INFERENCE" ELSE Coerce(line.says)]

\* A line priced from the rate card is a starting point, whatever the band.
Seeded(scope, bands) ==
  [scope |-> scope, priced |-> TRUE, carded |-> TRUE,
   band |-> bands[scope], says |-> "MODEL_INFERENCE"]

\* The gaps without those of the itemized lines.
GapsOfSummary(raw, bands) ==
  raw.gaps \cup {l.scope : l \in {s \in raw.summary : s.priced /\ ~KeepsPrice(s)}}
           \cup {l.scope : l \in {s \in raw.summary :
                                     KeepsPrice(s) /\ ~Precise(bands[s.scope])}}

\* The scopes with a visible gap: an itemized line has one, rated or not.
Gaps(raw, bands) ==
  raw.gaps \cup {l.scope : l \in {s \in raw.summary : s.priced /\ ~KeepsPrice(s)}}
           \cup {l.scope : l \in {s \in raw.summary :
                                     KeepsPrice(s) /\ ~Precise(bands[s.scope])}}
           \cup {i.scope : i \in raw.items}

\* enforceTrustDiscipline; raw.total is empty where the model gives no integer,
\* and amount 0 stands for no total.
Response(raw, bands) ==
  LET rated == {i \in raw.items : i.rated}
  IN  [summary |-> {Summary(l, bands) : l \in raw.summary},
       items |-> {Seeded(i.scope, bands) : i \in rated},
       gaps |-> Gaps(raw, bands),
       amount |-> IF raw.total # {} THEN CHOOSE t \in raw.total : TRUE
                  ELSE IF \E i \in rated : i.counts THEN 1 ELSE 0]

PriceBearing(resp) == {l \in resp.summary : l.priced} \cup resp.items

\* The builder checks the parser again and throws where it slipped.
BuilderAccepts(resp) ==
  \A l \in PriceBearing(resp) :
    ~Precise(l.band) => l.says = "MODEL_INFERENCE" /\ l.scope \in resp.gaps

\* aggregateConfidenceAndSource: the bands alone decide, not the lines' words.
Historical(resp, bands) ==
  /\ PriceBearing(resp) # {}
  /\ \A l \in PriceBearing(resp) : bands[l.scope] = "HIGH"

\* buildEstimatorAltitudePacket: evidence is always named, claims are one per
\* scope asked for, and every such scope's band names its sources.
PacketOf(resp, bands) ==
  LET backed == Historical(resp, bands)
  IN  [workflow |-> "proposal_generation", action |-> "draft_internal_summary",
       suggested |-> 2, amount |-> resp.amount, intent |-> "propose",
       class |-> IF backed THEN "historical_actual" ELSE "model_inference",
       label |-> IF backed THEN "DIRECT_EVIDENCE" ELSE "INFERRED",
       confidence |-> IF backed THEN "HIGH" ELSE "LOW",
       sourced |-> \E s \in Scopes : bands[s] # "unasked",
       privileged |-> FALSE, sendRequested |-> FALSE, sendApproved |-> FALSE,
       recordingVerb |-> FALSE, recordingRequested |-> FALSE, twoParty |-> FALSE,
       consent |-> None, identified |-> TRUE, overBudget |-> FALSE, wordy |-> FALSE]

\* buildRightHandEstimateArtifact: itemized lines, rate-card lines read off the
\* scope text where there are none, and summary lines for the scopes left.
\* Lines without a price beyond those play no part in its gate.
Artifact(text, resp, bands) ==
  LET fallback == FallbackOf[text] \ {l.scope : l \in resp.items}
      itemized == {l.scope : l \in resp.items} \cup fallback
      lines == resp.items
               \cup {Seeded(s, bands) : s \in fallback}
               \cup {l \in resp.summary : l.scope \notin itemized}
  IN  [text |-> text, lines |-> lines,
       open |-> /\ Decision(PacketOf(resp, bands), DefaultRoles).allowed
                /\ \A l \in lines : l.priced => l.says = "HIGH"]

-----------------------------------------------------------------------------
(* The request.                                                            *)

\* The invocation id is a hash of tenant, conversation, project and text: the
\* rows of a repeated request are those of the first.
InvocationId(text) == text

TrailQueueFirst == <<"drafted", "queue", "audit">>

\* The rows of a run, in the order they are appended.
Trail == <<"drafted", "audit", "queue">>

Over == {"idle", "failed", "violation"}

Idle(at) == [at |-> at, step |-> 0, text |-> "none", draft |-> NoDraft]

Init ==
  /\ log = {}
  /\ draft = NoDraft
  /\ run = [r \in Requests |-> Idle("idle")]
  /\ connection = [s \in {"log", "drafts"} |-> "none"]

Fails(r) == run' = [run EXCEPT ![r] = Idle("failed")]

Ask(r, text) ==
  /\ run[r].at \in Over
  /\ run' = [run EXCEPT ![r] = [Idle("connect") EXCEPT !.text = text]]
  /\ UNCHANGED <<log, draft, connection>>

\* A store's pool is set up once and its promise kept, also one that rejected.
Connect(store, next, r) ==
  \/ /\ connection[store] # "rejected"
     /\ connection' = [connection EXCEPT ![store] = "ready"]
     /\ run' = [run EXCEPT ![r].at = next]
  \/ /\ connection[store] # "ready"
     /\ connection' = [connection EXCEPT ![store] = "rejected"]
     /\ Fails(r)

\* estimateEventLogFor, awaited before the run begins.
ConnectLog(r) ==
  /\ run[r].at = "connect"
  /\ Connect("log", "estimate", r)
  /\ UNCHANGED <<log, draft>>

\* estimateProject and the gate; the model may fail or answer what no parser
\* reads.
Estimate(r) ==
  /\ run[r].at = "estimate"
  /\ \/ Fails(r)
     \/ \E raw \in Answers, bands \in Bands :
          LET resp == Response(raw, bands)
          IN  run' = [run EXCEPT ![r] =
                IF BuilderAccepts(resp)
                THEN [at |-> "append", step |-> 1, text |-> run[r].text,
                      draft |-> Artifact(run[r].text, resp, bands)]
                ELSE Idle("violation")]
  /\ UNCHANGED <<log, draft, connection>>

Inserted(r) ==
  log' = log \cup {<<InvocationId(run[r].text), Trail[run[r].step]>>}

Advances(r) ==
  run' = [run EXCEPT ![r].step = @ + 1,
                     ![r].at = IF run[r].step = Len(Trail) THEN "ready" ELSE "append"]

\* Appends whose failures are logged and passed over.
AppendBestEffort(r) ==
  /\ run[r].at = "append"
  /\ Advances(r)
  /\ Inserted(r) \/ UNCHANGED log
  /\ UNCHANGED <<draft, connection>>

\* One INSERT ... ON CONFLICT DO NOTHING: done; done and the answer lost; or
\* not done.
AppendRow(r) ==
  /\ run[r].at = "append"
  /\ \/ Inserted(r) /\ Advances(r)
     \/ Inserted(r) /\ Fails(r)
     \/ UNCHANGED log /\ Fails(r)
  /\ UNCHANGED <<draft, connection>>

\* The first use of the estimate store sets it up.
ConnectDrafts(r) ==
  /\ run[r].at = "ready"
  /\ Connect("drafts", "save", r)
  /\ UNCHANGED <<log, draft>>

\* The upsert of the draft, with the same three outcomes; what follows it
\* changes neither store.
SaveDraft(r) ==
  /\ run[r].at = "save"
  /\ \/ draft' = run[r].draft /\ run' = [run EXCEPT ![r] = Idle("idle")]
     \/ draft' = run[r].draft /\ Fails(r)
     \/ draft' = draft /\ Fails(r)
  /\ UNCHANGED <<log, connection>>

\* The machine stops, when idle or not, and starts again.
Restart ==
  /\ run' = [r \in Requests |-> IF run[r].at \in Over THEN run[r] ELSE Idle("failed")]
  /\ connection' = [s \in {"log", "drafts"} |-> "none"]
  /\ UNCHANGED <<log, draft>>

Next ==
  \/ \E r \in Requests :
       \/ \E text \in Texts : Ask(r, text)
       \/ ConnectLog(r)
       \/ Estimate(r)
       \/ AppendRow(r)
       \/ ConnectDrafts(r)
       \/ SaveDraft(r)
  \/ Restart

Spec == Init /\ [][Next]_vars

-----------------------------------------------------------------------------
Line == [scope : Scopes, priced : BOOLEAN, carded : BOOLEAN,
         band : BandKinds, says : Confidences]

Draft == [text : {"none"} \cup Texts, open : BOOLEAN, lines : SUBSET Line]

Run == [at : Over \cup {"connect", "estimate", "append", "ready", "save"},
        step : 0 .. 4, text : {"none"} \cup Texts, draft : Draft]

\* The types of the stores and the requests.
TypeOK ==
  /\ log \subseteq Texts \X {"drafted", "audit", "queue"}
  /\ draft \in Draft
  /\ run \in [Requests -> Run]
  /\ connection \in [{"log", "drafts"} -> {"none", "ready", "rejected"}]

\* A row of the trail stands in the log only with the row it names as its
\* cause (causedBy): a decision surfaced to the queue has its gate audit, and
\* an audit the packet it audits, through failures, retries and overlaps.
TrailIsCausal ==
  \A row \in log :
    /\ row[2] = "queue" => <<row[1], "audit">> \in log
    /\ row[2] = "audit" => <<row[1], "drafted">> \in log

\* No draft is stored whose run left an incomplete trail ("Nothing was filed",
\* rightHandTurn.ts:913, is said of every run that could not append).
SavedDraftHasTrail ==
  draft # NoDraft =>
    \A row \in {"drafted", "audit", "queue"} :
      <<InvocationId(draft.text), row>> \in log

\* Every price in a stored draft whose gate is open names the rate card, stands
\* on a band of real comparables, and is one the model called HIGH.  The verdict
\* on the packet does not give it, since the packet's source class does not look
\* at what the lines say: the discipline and the draft's own gate have to.  The band may be the
\* directional one: the word HIGH is the model's, not the band's.
OpenDraftIsBacked ==
  draft.open =>
    \A l \in draft.lines : l.priced => l.carded /\ Precise(l.band) /\ l.says = "HIGH"

\* The parser never hands the builder a response that the builder refuses
\* ("Parser should have forced MODEL_INFERENCE; this is a P0 invariant
\* violation", packetBuilder.ts:55-74).
ParserNeverSlips == \A r \in Requests : run[r].at # "violation"
=============================================================================
