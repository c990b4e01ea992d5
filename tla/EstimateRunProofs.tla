-------------------------- MODULE EstimateRunProofs ---------------------------
(***************************************************************************)
(* Proofs about the assembly of an estimate, for any number of overlapping *)
(* requests, any texts and scopes, and whatever the model answers.         *)
(***************************************************************************)
EXTENDS EstimateRun, TLAPS

Rows == {"drafted", "audit", "queue"}

(* A draft keeps its promise by itself, wherever it is held.               *)
Backed(d) ==
  d.open => \A l \in d.lines : l.priced => l.carded /\ Precise(l.band) /\ l.says = "HIGH"

Whole(text) == \A row \in Rows : <<text, row>> \in log

(* What a request's place in the code says of what it holds.               *)
RunOK(q) ==
  /\ q.at # "violation"
  /\ q.at \in {"connect", "estimate", "append", "ready", "save"} => q.text \in Texts
  /\ q.at \in {"append", "ready", "save"} => q.draft.text = q.text /\ Backed(q.draft)
  /\ q.at = "append" =>
       /\ q.step \in 1 .. 3
       /\ \A i \in 1 .. q.step - 1 : <<q.text, Trail[i]>> \in log
  /\ q.at \in {"ready", "save"} => Whole(q.text)

(* The inductive invariant: the rows of a trail are in the log as far as   *)
(* its request has come, and no request loses them again.                  *)
RunInv ==
  /\ TypeOK
  /\ TrailIsCausal
  /\ \A r \in Requests : RunOK(run[r])
  /\ draft # NoDraft => Whole(draft.text) /\ Backed(draft)

-----------------------------------------------------------------------------
(* A line of the disciplined answer has its type.                          *)
LEMMA SummaryTyped ==
  ASSUME NEW raw \in Answers, NEW bands \in Bands, NEW l \in raw.summary
  PROVE  Summary(l, bands) \in Line
  <1>1. l.scope \in Scopes /\ l.priced \in BOOLEAN /\ l.carded \in BOOLEAN
    BY EstimateRunAssumption
  <1>2. bands[l.scope] \in BandKinds
    BY <1>1, EstimateRunAssumption
  <1>3. KeepsPrice(l) \in BOOLEAN
    BY DEF KeepsPrice
  <1>4. Coerce(l.says) \in Confidences /\ "MODEL_INFERENCE" \in Confidences
    BY DEF Coerce, Confidences
  <1>5. QED
    BY <1>1, <1>2, <1>3, <1>4 DEF Summary, Line

LEMMA SeededTyped ==
  ASSUME NEW scope \in Scopes, NEW bands \in Bands
  PROVE  Seeded(scope, bands) \in Line
  <1>1. bands[scope] \in BandKinds
    BY EstimateRunAssumption
  <1>2. QED
    BY <1>1 DEF Seeded, Line, Confidences

(* A price that stays under the word HIGH is the rate card's, on a band of *)
(* comparables.                                                            *)
LEMMA HighIsBacked ==
  ASSUME NEW l, NEW bands, Summary(l, bands).priced, Summary(l, bands).says = "HIGH"
  PROVE  Summary(l, bands).carded /\ Precise(Summary(l, bands).band)
  <1>1. KeepsPrice(l)
    BY DEF Summary
  <1>2. l.priced /\ l.carded
    BY <1>1 DEF KeepsPrice
  <1>3. Precise(bands[l.scope])
    BY <1>1, <1>2 DEF Summary
  <1>4. QED
    BY <1>2, <1>3 DEF Summary

(* The parser leaves the builder nothing to refuse, whatever the answer    *)
(* and the bands.                                                          *)
LEMMA ParserSatisfiesBuilder ==
  ASSUME NEW raw \in Answers, NEW bands \in Bands
  PROVE  BuilderAccepts(Response(raw, bands))
  <1> DEFINE resp == Response(raw, bands)
  <1>1. /\ resp.summary = {Summary(l, bands) : l \in raw.summary}
        /\ resp.items = {Seeded(i.scope, bands) : i \in {j \in raw.items : j.rated}}
        /\ resp.gaps = Gaps(raw, bands)
    BY DEF Response
  <1> HIDE DEF resp
  <1>2. SUFFICES ASSUME NEW l \in PriceBearing(resp), ~Precise(l.band)
                 PROVE  l.says = "MODEL_INFERENCE" /\ l.scope \in Gaps(raw, bands)
    BY <1>1 DEF BuilderAccepts, resp
  <1>3. CASE l \in resp.summary /\ l.priced
    <2>1. PICK s \in raw.summary : l = Summary(s, bands)
      BY <1>1, <1>3
    <2>2. KeepsPrice(s) /\ s.priced
      BY <1>3, <2>1 DEF Summary, KeepsPrice
    <2>3. l.scope = s.scope /\ ~Precise(bands[s.scope])
      BY <1>2, <2>1 DEF Summary
    <2>4. l.says = "MODEL_INFERENCE"
      BY <2>1, <2>2, <2>3 DEF Summary
    <2>5. l.scope \in Gaps(raw, bands)
      BY <2>2, <2>3 DEF Gaps
    <2>6. QED
      BY <2>4, <2>5
  <1>4. CASE l \in resp.items
    <2>1. PICK i \in raw.items : l = Seeded(i.scope, bands)
      BY <1>1, <1>4
    <2>2. l.says = "MODEL_INFERENCE" /\ l.scope = i.scope
      BY <2>1 DEF Seeded
    <2>3. QED
      BY <2>2 DEF Gaps
  <1>5. QED
    BY <1>2, <1>3, <1>4 DEF PriceBearing

(* The draft that comes of it has its type and keeps the promise.          *)
LEMMA ArtifactBacked ==
  ASSUME NEW text \in Texts, NEW raw \in Answers, NEW bands \in Bands
  PROVE  LET d == Artifact(text, Response(raw, bands), bands)
         IN  d \in Draft /\ d.text = text /\ Backed(d)
  <1> DEFINE resp == Response(raw, bands)
             fallback == FallbackOf[text] \ {l.scope : l \in resp.items}
             itemized == {l.scope : l \in resp.items} \cup fallback
             seeds == {Seeded(s, bands) : s \in fallback}
             lines == resp.items \cup seeds
                      \cup {l \in resp.summary : l.scope \notin itemized}
             high == \A l \in lines : l.priced => l.says = "HIGH"
             verdict == Decision(PacketOf(resp, bands), DefaultRoles).allowed
             d == Artifact(text, resp, bands)
  <1>1. /\ resp.summary = {Summary(l, bands) : l \in raw.summary}
        /\ resp.items = {Seeded(i.scope, bands) : i \in {j \in raw.items : j.rated}}
    BY DEF Response
  <1>2. d = [text |-> text, lines |-> lines, open |-> verdict /\ high]
    BY DEF Artifact
  <1>3. resp.items \subseteq Line /\ \A l \in resp.items : l.priced /\ l.says = "MODEL_INFERENCE"
    <2>1. SUFFICES ASSUME NEW l \in resp.items
                   PROVE  l \in Line /\ l.priced /\ l.says = "MODEL_INFERENCE"
      OBVIOUS
    <2>2. PICK i \in raw.items : l = Seeded(i.scope, bands)
      BY <1>1
    <2>3. l \in Line
      BY <2>2, SeededTyped, EstimateRunAssumption
    <2>4. QED
      BY <2>2, <2>3 DEF Seeded
  <1>4. seeds \subseteq Line /\ \A l \in seeds : l.priced /\ l.says = "MODEL_INFERENCE"
    <2>1. fallback \subseteq Scopes
      BY EstimateRunAssumption
    <2>2. SUFFICES ASSUME NEW s \in fallback
                   PROVE  /\ Seeded(s, bands) \in Line
                          /\ Seeded(s, bands).priced
                          /\ Seeded(s, bands).says = "MODEL_INFERENCE"
      OBVIOUS
    <2>3. QED
      BY <2>1, SeededTyped DEF Seeded
  <1>5. resp.summary \subseteq Line
    BY <1>1, SummaryTyped
  <1> HIDE DEF resp, seeds, itemized, verdict
  <1>6. lines \subseteq Line
    BY <1>3, <1>4, <1>5
  <1>7. (verdict /\ high) \in BOOLEAN
    OBVIOUS
  <1> HIDE DEF lines
  <1>8. d.text = text /\ d.lines = lines /\ d.open = (verdict /\ high)
    BY <1>2
  <1>9. d \in Draft
    BY <1>2, <1>6, <1>7 DEF Draft
  <1>10. Backed(d)
    <2>1. SUFFICES ASSUME high, NEW l \in lines, l.priced
                   PROVE  l.carded /\ Precise(l.band) /\ l.says = "HIGH"
      BY <1>8 DEF Backed
    <2>2. l.says = "HIGH"
      BY <2>1
    <2>3. l \in resp.summary
      BY <1>3, <1>4, <2>2 DEF lines
    <2>4. PICK s \in raw.summary : l = Summary(s, bands)
      BY <1>1, <2>3
    <2>5. QED
      BY <2>1, <2>2, <2>4, HighIsBacked
  <1>11. QED
    BY <1>8, <1>9, <1>10 DEF resp

-----------------------------------------------------------------------------
(* The log only grows, which leaves the other requests' places true.       *)
LEMMA OthersKeep ==
  ASSUME log \subseteq log', NEW q, RunOK(q)
  PROVE  RunOK(q)'
  BY DEF RunOK, Whole, Backed

(* A step of one request, which leaves it in a state that is true of it.   *)
LEMMA OneMoves ==
  ASSUME RunInv, NEW r \in Requests, NEW q \in Run, RunOK(q)',
         run' = [run EXCEPT ![r] = q],
         log \subseteq log', log' \subseteq Texts \X Rows, TrailIsCausal',
         draft' \in Draft, (draft # NoDraft => Whole(draft.text) /\ Backed(draft))',
         connection' \in [{"log", "drafts"} -> {"none", "ready", "rejected"}]
  PROVE  RunInv'
  <1>1. run \in [Requests -> Run]
    BY DEF RunInv, TypeOK
  <1>2. run' \in [Requests -> Run]
    BY <1>1
  <1>3. TypeOK'
    BY <1>2 DEF TypeOK, Rows
  <1>4. ASSUME NEW o \in Requests
        PROVE  RunOK(run[o])'
    <2>1. CASE o = r
      <3>1. run'[o] = q
        BY <1>1, <2>1
      <3>2. QED
        BY <3>1
    <2>2. CASE o # r
      <3>1. run'[o] = run[o] /\ RunOK(run[o])
        BY <1>1, <2>2 DEF RunInv
      <3>2. QED
        BY <3>1, OthersKeep
    <2>3. QED
      BY <2>1, <2>2
  <1>5. QED
    BY <1>3, <1>4 DEF RunInv

(* The same, of a step that leaves log and draft alone.                    *)
LEMMA OneMovesAlone ==
  ASSUME RunInv, NEW r \in Requests, NEW q \in Run, RunOK(q),
         run' = [run EXCEPT ![r] = q], UNCHANGED <<log, draft>>,
         connection' \in [{"log", "drafts"} -> {"none", "ready", "rejected"}]
  PROVE  RunInv'
  <1>1. /\ log \subseteq Texts \X Rows
        /\ draft \in Draft
        /\ TrailIsCausal
        /\ draft # NoDraft => Whole(draft.text) /\ Backed(draft)
    BY DEF RunInv, TypeOK, Rows
  <1>2. TrailIsCausal'
    BY <1>1 DEF TrailIsCausal
  <1>3. (draft # NoDraft => Whole(draft.text) /\ Backed(draft))'
    BY <1>1 DEF Whole, Backed
  <1>4. RunOK(q)'
    BY OthersKeep
  <1>5. QED
    BY <1>1, <1>2, <1>3, <1>4, OneMoves

LEMMA NoDraftTyped == NoDraft \in Draft
  BY DEF NoDraft, Draft

LEMMA IdleFits ==
  ASSUME NEW at \in {"idle", "failed"}
  PROVE  Idle(at) \in Run /\ RunOK(Idle(at))
  BY NoDraftTyped DEF Idle, Run, RunOK, Over

LEMMA AskKeeps ==
  ASSUME RunInv, NEW r \in Requests, NEW text \in Texts, Ask(r, text)
  PROVE  RunInv'
  <1> DEFINE q == [Idle("connect") EXCEPT !.text = text]
  <1>1. q = [at |-> "connect", step |-> 0, text |-> text, draft |-> NoDraft]
    BY DEF Idle
  <1>2. q \in Run /\ RunOK(q)
    BY <1>1, NoDraftTyped DEF Run, RunOK, Over
  <1>3. connection' \in [{"log", "drafts"} -> {"none", "ready", "rejected"}]
    BY DEF Ask, RunInv, TypeOK
  <1>4. run' = [run EXCEPT ![r] = q] /\ UNCHANGED <<log, draft>>
    BY DEF Ask
  <1> HIDE DEF q
  <1>5. QED
    BY <1>2, <1>3, <1>4, OneMovesAlone

(* Setting a store up moves a request on, or ends it.                      *)
LEMMA ConnectKeeps ==
  ASSUME RunInv, NEW r \in Requests, NEW store \in {"log", "drafts"}, NEW next,
         [run[r] EXCEPT !.at = next] \in Run, RunOK([run[r] EXCEPT !.at = next]),
         Connect(store, next, r), UNCHANGED <<log, draft>>
  PROVE  RunInv'
  <1>1. connection' \in [{"log", "drafts"} -> {"none", "ready", "rejected"}]
    BY DEF Connect, RunInv, TypeOK
  <1>2. CASE run' = [run EXCEPT ![r].at = next]
    <2> DEFINE q == [run[r] EXCEPT !.at = next]
    <2>1. run' = [run EXCEPT ![r] = q]
      BY <1>2
    <2> HIDE DEF q
    <2>2. q \in Run /\ RunOK(q)
      BY DEF q
    <2>3. QED
      BY <1>1, <2>1, <2>2, OneMovesAlone
  <1>3. CASE Fails(r)
    <2>1. run' = [run EXCEPT ![r] = Idle("failed")]
      BY <1>3 DEF Fails
    <2>2. QED
      BY <1>1, <2>1, IdleFits, OneMovesAlone
  <1>4. QED
    BY <1>2, <1>3 DEF Connect

LEMMA ConnectLogKeeps ==
  ASSUME RunInv, NEW r \in Requests, ConnectLog(r)
  PROVE  RunInv'
  <1>1. run[r] \in Run /\ RunOK(run[r]) /\ run[r].at = "connect"
    BY DEF ConnectLog, RunInv, TypeOK
  <1>2. /\ [run[r] EXCEPT !.at = "estimate"] \in Run
        /\ RunOK([run[r] EXCEPT !.at = "estimate"])
    BY <1>1 DEF Run, RunOK
  <1>3. QED
    BY <1>2, ConnectKeeps DEF ConnectLog

LEMMA ConnectDraftsKeeps ==
  ASSUME RunInv, NEW r \in Requests, ConnectDrafts(r)
  PROVE  RunInv'
  <1>1. run[r] \in Run /\ RunOK(run[r]) /\ run[r].at = "ready"
    BY DEF ConnectDrafts, RunInv, TypeOK
  <1>2. /\ [run[r] EXCEPT !.at = "save"] \in Run
        /\ RunOK([run[r] EXCEPT !.at = "save"])
    BY <1>1 DEF Run, RunOK
  <1>3. QED
    BY <1>2, ConnectKeeps DEF ConnectDrafts

LEMMA EstimateKeeps ==
  ASSUME RunInv, NEW r \in Requests, Estimate(r)
  PROVE  RunInv'
  <1>1. /\ connection' \in [{"log", "drafts"} -> {"none", "ready", "rejected"}]
        /\ UNCHANGED <<log, draft>>
    BY DEF Estimate, RunInv, TypeOK
  <1>2. CASE Fails(r)
    <2>1. run' = [run EXCEPT ![r] = Idle("failed")]
      BY <1>2 DEF Fails
    <2>2. QED
      BY <1>1, <2>1, IdleFits, OneMovesAlone
  <1>3. ASSUME NEW raw \in Answers, NEW bands \in Bands,
               run' = [run EXCEPT ![r] =
                 IF BuilderAccepts(Response(raw, bands))
                 THEN [at |-> "append", step |-> 1, text |-> run[r].text,
                       draft |-> Artifact(run[r].text, Response(raw, bands), bands)]
                 ELSE Idle("violation")]
        PROVE  RunInv'
    <2> DEFINE text == run[r].text
               made == Artifact(text, Response(raw, bands), bands)
               q == [at |-> "append", step |-> 1, text |-> text, draft |-> made]
    <2>1. text \in Texts
      BY DEF Estimate, RunInv, RunOK
    <2>2. made \in Draft /\ made.text = text /\ Backed(made)
      BY <2>1, ArtifactBacked
    <2>3. run' = [run EXCEPT ![r] = q]
      BY <1>3, ParserSatisfiesBuilder
    <2> HIDE DEF text, made
    <2>4. q \in Run /\ RunOK(q)
      BY <2>1, <2>2 DEF Run, RunOK, Over
    <2> HIDE DEF q
    <2>5. QED
      BY <1>1, <2>3, <2>4, OneMovesAlone
  <1>4. QED
    BY <1>2, <1>3 DEF Estimate

(* A row is inserted after the rows before it in the trail.                *)
LEMMA InsertKeepsTrail ==
  ASSUME RunInv, NEW r \in Requests, run[r].at = "append", Inserted(r)
  PROVE  /\ log \subseteq log' /\ log' \subseteq Texts \X Rows
         /\ TrailIsCausal'
         /\ \A i \in 1 .. run[r].step : <<run[r].text, Trail[i]>> \in log'
  <1> DEFINE text == run[r].text
             step == run[r].step
  <1>1. /\ text \in Texts /\ step \in 1 .. 3
        /\ \A i \in 1 .. step - 1 : <<text, Trail[i]>> \in log
    BY DEF RunInv, RunOK
  <1>2. Trail[1] = "drafted" /\ Trail[2] = "audit" /\ Trail[3] = "queue"
    BY DEF Trail
  <1>3. log' = log \cup {<<text, Trail[step]>>}
    BY DEF Inserted, InvocationId
  <1>4. log \subseteq Texts \X Rows /\ TrailIsCausal
    BY DEF RunInv, TypeOK, Rows
  <1> HIDE DEF text, step
  <1>5. Trail[step] \in Rows
    BY <1>1, <1>2 DEF Rows
  <1>6. /\ Trail[step] = "queue" => <<text, "audit">> \in log
        /\ Trail[step] = "audit" => <<text, "drafted">> \in log
    <2>1. CASE step = 1
      BY <1>2, <2>1
    <2>2. CASE step = 2
      <3>1. <<text, Trail[1]>> \in log
        BY <1>1, <2>2
      <3>2. QED
        BY <1>2, <2>2, <3>1
    <2>3. CASE step = 3
      <3>1. <<text, Trail[2]>> \in log
        BY <1>1, <2>3
      <3>2. QED
        BY <1>2, <2>3, <3>1
    <2>4. QED
      BY <1>1, <2>1, <2>2, <2>3
  <1>7. TrailIsCausal'
    <2>1. SUFFICES ASSUME NEW row \in log'
                   PROVE  /\ row[2] = "queue" => <<row[1], "audit">> \in log'
                          /\ row[2] = "audit" => <<row[1], "drafted">> \in log'
      BY DEF TrailIsCausal
    <2>2. CASE row \in log
      BY <1>3, <1>4, <2>2 DEF TrailIsCausal
    <2>3. CASE row = <<text, Trail[step]>>
      BY <1>3, <1>6, <2>3
    <2>4. QED
      BY <1>3, <2>2, <2>3
  <1>8. \A i \in 1 .. step : <<text, Trail[i]>> \in log'
    BY <1>1, <1>3
  <1>9. QED
    BY <1>1, <1>3, <1>4, <1>5, <1>7, <1>8 DEF text, step

LEMMA AppendKeeps ==
  ASSUME RunInv, NEW r \in Requests, AppendRow(r)
  PROVE  RunInv'
  <1>1. /\ run[r] \in Run /\ RunOK(run[r]) /\ run[r].at = "append"
        /\ UNCHANGED <<draft, connection>>
    BY DEF AppendRow, RunInv, TypeOK
  <1>2. /\ connection' \in [{"log", "drafts"} -> {"none", "ready", "rejected"}]
        /\ draft' \in Draft
        /\ draft # NoDraft => Whole(draft.text) /\ Backed(draft)
    BY <1>1 DEF RunInv, TypeOK
  <1>3. ASSUME log \subseteq log'
        PROVE  (draft # NoDraft => Whole(draft.text) /\ Backed(draft))'
    BY <1>1, <1>2, <1>3 DEF Whole, Backed
  <1>4. CASE Inserted(r) /\ Advances(r)
    <2>1. run[r].step \in 1 .. 3 /\ Len(Trail) = 3
      BY <1>1 DEF RunOK, Trail
    <2>2. PICK q \in Run : /\ run' = [run EXCEPT ![r] = q]
                           /\ q.text = run[r].text /\ q.draft = run[r].draft
                           /\ q.step = run[r].step + 1
                           /\ q.at = IF run[r].step = 3 THEN "ready" ELSE "append"
      <3> DEFINE at == IF run[r].step = 3 THEN "ready" ELSE "append"
                 moved == [at |-> at, step |-> run[r].step + 1,
                           text |-> run[r].text, draft |-> run[r].draft]
      <3>1. /\ run[r].text \in {"none"} \cup Texts /\ run[r].draft \in Draft
            /\ run[r].step + 1 \in 0 .. 4
        BY <1>1, <2>1 DEF Run
      <3>2. moved \in Run
        BY <3>1 DEF Run
      <3>3. run' = [run EXCEPT ![r].step = @ + 1, ![r].at = at]
        BY <1>4, <2>1 DEF Advances
      <3> HIDE DEF at
      <3>4. run[r] = [at |-> run[r].at, step |-> run[r].step,
                      text |-> run[r].text, draft |-> run[r].draft]
        BY <1>1 DEF Run
      <3>5. run' = [run EXCEPT ![r] = moved]
        <4>1. run \in [Requests -> Run] /\ run' \in [Requests -> Run]
          BY <3>2, <3>3, <3>4 DEF RunInv, TypeOK
        <4>2. run'[r] = moved
          BY <3>3, <3>4, <4>1
        <4>3. QED
          BY <3>3, <4>1, <4>2
      <3>6. QED
        BY <3>2, <3>5 DEF at
    <2>3. q \in Run /\ run' = [run EXCEPT ![r] = q]
      BY <2>2
    <2>4. /\ q.text = run[r].text /\ q.draft = run[r].draft
          /\ q.step = run[r].step + 1
          /\ q.at = IF run[r].step = 3 THEN "ready" ELSE "append"
      BY <2>2
    <2>5. /\ log \subseteq log' /\ log' \subseteq Texts \X Rows /\ TrailIsCausal'
          /\ \A i \in 1 .. run[r].step : <<q.text, Trail[i]>> \in log'
      BY <1>1, <1>4, <2>4, InsertKeepsTrail
    <2>6. q.text \in Texts /\ q.draft.text = q.text /\ Backed(q.draft)
      BY <1>1, <2>4 DEF RunOK
    <2>7. CASE run[r].step = 3
      <3>1. /\ <<q.text, Trail[1]>> \in log' /\ <<q.text, Trail[2]>> \in log'
            /\ <<q.text, Trail[3]>> \in log'
        BY <2>5, <2>7
      <3>2. Whole(q.text)'
        BY <3>1 DEF Whole, Rows, Trail
      <3>3. RunOK(q)'
        BY <2>4, <2>6, <2>7, <3>2 DEF RunOK, Backed
      <3>4. QED
        BY <1>2, <1>3, <2>3, <2>5, <3>3, OneMoves
    <2>8. CASE run[r].step # 3
      <3>1. q.at = "append" /\ q.step \in 1 .. 3 /\ q.step - 1 = run[r].step
        BY <2>1, <2>4, <2>8
      <3>2. RunOK(q)'
        BY <2>5, <2>6, <3>1 DEF RunOK, Backed
      <3>3. QED
        BY <1>2, <1>3, <2>3, <2>5, <3>2, OneMoves
    <2>9. QED
      BY <2>7, <2>8
  <1>5. CASE Inserted(r) /\ Fails(r)
    <2>1. run' = [run EXCEPT ![r] = Idle("failed")]
      BY <1>5 DEF Fails
    <2>2. log \subseteq log' /\ log' \subseteq Texts \X Rows /\ TrailIsCausal'
      BY <1>1, <1>5, InsertKeepsTrail
    <2>3. Idle("failed") \in Run /\ RunOK(Idle("failed"))'
      BY <2>2, IdleFits, OthersKeep
    <2>4. QED
      BY <1>2, <1>3, <2>1, <2>2, <2>3, OneMoves
  <1>6. CASE UNCHANGED log /\ Fails(r)
    <2>1. run' = [run EXCEPT ![r] = Idle("failed")]
      BY <1>6 DEF Fails
    <2>2. QED
      BY <1>1, <1>2, <1>6, <2>1, IdleFits, OneMovesAlone
  <1>7. QED
    BY <1>4, <1>5, <1>6 DEF AppendRow

(* A saved draft has its trail: the request got here only with all of it.  *)
LEMMA SaveKeeps ==
  ASSUME RunInv, NEW r \in Requests, SaveDraft(r)
  PROVE  RunInv'
  <1>1. /\ run[r] \in Run /\ RunOK(run[r]) /\ run[r].at = "save"
        /\ UNCHANGED <<log, connection>>
    BY DEF SaveDraft, RunInv, TypeOK
  <1>2. /\ connection' \in [{"log", "drafts"} -> {"none", "ready", "rejected"}]
        /\ log' \subseteq Texts \X Rows /\ log \subseteq log'
        /\ draft \in Draft
        /\ draft # NoDraft => Whole(draft.text) /\ Backed(draft)
    BY <1>1 DEF RunInv, TypeOK, Rows
  <1>3. TrailIsCausal'
    BY <1>1 DEF RunInv, TrailIsCausal
  <1>4. /\ run[r].draft \in Draft /\ Whole(run[r].draft.text) /\ Backed(run[r].draft)
    BY <1>1 DEF RunOK, Run
  <1>5. draft' = run[r].draft \/ draft' = draft
    BY DEF SaveDraft
  <1>6. draft' \in Draft /\ (draft # NoDraft => Whole(draft.text) /\ Backed(draft))'
    BY <1>1, <1>2, <1>4, <1>5 DEF Whole, Backed
  <1>7. PICK at \in {"idle", "failed"} : run' = [run EXCEPT ![r] = Idle(at)]
    BY DEF SaveDraft, Fails
  <1>8. Idle(at) \in Run /\ RunOK(Idle(at))'
    BY <1>2, IdleFits, OthersKeep
  <1>9. QED
    BY <1>2, <1>3, <1>6, <1>7, <1>8, OneMoves

LEMMA RestartKeeps ==
  ASSUME RunInv, Restart
  PROVE  RunInv'
  <1>1. /\ log \subseteq Texts \X Rows /\ draft \in Draft /\ TrailIsCausal
        /\ draft # NoDraft => Whole(draft.text) /\ Backed(draft)
        /\ UNCHANGED <<log, draft>>
    BY DEF RunInv, TypeOK, Rows, Restart
  <1>2. \A r \in Requests : run[r] \in Run /\ RunOK(run[r])
    BY DEF RunInv, TypeOK
  <1>3. /\ run' = [r \in Requests |-> IF run[r].at \in Over THEN run[r] ELSE Idle("failed")]
        /\ connection' = [s \in {"log", "drafts"} |-> "none"]
    BY DEF Restart
  <1>4. ASSUME NEW r \in Requests
        PROVE  run'[r] \in Run /\ RunOK(run[r])'
    <2>1. run'[r] = run[r] \/ run'[r] = Idle("failed")
      BY <1>3
    <2>2. run'[r] \in Run /\ RunOK(run'[r])
      BY <1>2, <2>1, IdleFits
    <2>3. log \subseteq log'
      BY <1>1
    <2>4. QED
      BY <2>2, <2>3, OthersKeep
  <1>5. run' \in [Requests -> Run]
    BY <1>3, <1>4
  <1>6. TypeOK'
    BY <1>1, <1>3, <1>5 DEF TypeOK, Rows
  <1>7. TrailIsCausal' /\ (draft # NoDraft => Whole(draft.text) /\ Backed(draft))'
    BY <1>1 DEF TrailIsCausal, Whole, Backed
  <1>8. QED
    BY <1>4, <1>6, <1>7 DEF RunInv

-----------------------------------------------------------------------------
LEMMA RunInitEstablishes == Init => RunInv
  <1> SUFFICES ASSUME Init PROVE RunInv
    OBVIOUS
  <1>1. \A r \in Requests : run[r] = Idle("idle")
    BY DEF Init
  <1>2. \A r \in Requests : run[r] \in Run /\ RunOK(run[r])
    BY <1>1, IdleFits
  <1>3. TypeOK
    BY <1>2, NoDraftTyped DEF Init, TypeOK
  <1>4. QED
    BY <1>2, <1>3 DEF Init, RunInv, TrailIsCausal

LEMMA RunStepKeeps == RunInv /\ [Next]_vars => RunInv'
  <1> SUFFICES ASSUME RunInv, [Next]_vars PROVE RunInv'
    OBVIOUS
  <1>1. ASSUME NEW r \in Requests, NEW text \in Texts, Ask(r, text) PROVE RunInv'
    BY <1>1, AskKeeps
  <1>2. ASSUME NEW r \in Requests, ConnectLog(r) PROVE RunInv'
    BY <1>2, ConnectLogKeeps
  <1>3. ASSUME NEW r \in Requests, Estimate(r) PROVE RunInv'
    BY <1>3, EstimateKeeps
  <1>4. ASSUME NEW r \in Requests, AppendRow(r) PROVE RunInv'
    BY <1>4, AppendKeeps
  <1>5. ASSUME NEW r \in Requests, ConnectDrafts(r) PROVE RunInv'
    BY <1>5, ConnectDraftsKeeps
  <1>6. ASSUME NEW r \in Requests, SaveDraft(r) PROVE RunInv'
    BY <1>6, SaveKeeps
  <1>7. CASE Restart
    BY <1>7, RestartKeeps
  <1>8. CASE UNCHANGED vars
    BY <1>8 DEF vars, RunInv, TypeOK, TrailIsCausal, RunOK, Whole, Backed
  <1>9. QED
    BY <1>1, <1>2, <1>3, <1>4, <1>5, <1>6, <1>7, <1>8 DEF Next

THEOREM RunInvariant == Spec => []RunInv
  BY RunInitEstablishes, RunStepKeeps, PTL DEF Spec

(* The log, the draft, the requests and the connections keep their types.  *)
THEOREM RunTypesHold == Spec => []TypeOK
  <1>1. RunInv => TypeOK
    BY DEF RunInv
  <1>2. QED
    BY <1>1, RunInvariant, PTL

(* No row stands in the log without the row it names as its cause.         *)
THEOREM TrailStaysCausal == Spec => []TrailIsCausal
  <1>1. RunInv => TrailIsCausal
    BY DEF RunInv
  <1>2. QED
    BY <1>1, RunInvariant, PTL

(* A stored draft has all three rows of its run.                           *)
THEOREM DraftsHaveTrails == Spec => []SavedDraftHasTrail
  <1>1. RunInv => SavedDraftHasTrail
    BY DEF RunInv, SavedDraftHasTrail, Whole, Rows, InvocationId
  <1>2. QED
    BY <1>1, RunInvariant, PTL

(* An open draft's prices are the rate card's, on comparables, called HIGH.*)
THEOREM OpenDraftsAreBacked == Spec => []OpenDraftIsBacked
  <1>1. RunInv => OpenDraftIsBacked
    BY DEF RunInv, OpenDraftIsBacked, Backed, NoDraft
  <1>2. QED
    BY <1>1, RunInvariant, PTL

(* The builder's P0 check of the parser never fires.                       *)
THEOREM ParserHolds == Spec => []ParserNeverSlips
  <1>1. RunInv => ParserNeverSlips
    BY DEF RunInv, RunOK, ParserNeverSlips
  <1>2. QED
    BY <1>1, RunInvariant, PTL
=============================================================================
