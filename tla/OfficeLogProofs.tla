--------------------------- MODULE OfficeLogProofs ----------------------------
(***************************************************************************)
(* Proofs about the field day and proposal sending on one event file, for  *)
(* any number of requests, projects, entries, proposals, torn appends and  *)
(* days.                                                                   *)
(***************************************************************************)
EXTENDS OfficeLog, FiniteSetTheorems, SequenceTheorems, TLAPS

(* What has been written and not taken back: the events of the file, and   *)
(* those a torn line may cost.                                             *)
Seen == Events(log) \cup hurt

(* The file.  A line left open was torn, and it has not cost a second      *)
(* event yet.                                                              *)
StoreInv ==
  /\ log \in Seq(Event)
  /\ open \in BOOLEAN
  /\ tail \in Seq(Event)
  /\ tears \in 0 .. MaxTears
  /\ acked \subseteq Event
  /\ hurt \subseteq Event
  /\ ~open => tail = <<>>
  /\ Events(tail) \subseteq hurt
  /\ acked \subseteq Seen
  /\ \A e \in acked : e.type = "gate" => e.by \in SaleReqs
  /\ IsFiniteSet(hurt)
  /\ Cardinality(hurt) <= 2 * tears
  /\ open => Cardinality(hurt) + 1 <= 2 * tears

-----------------------------------------------------------------------------
(* What an event rests on, among the events before it.                     *)

CreatedAmong(p, events) ==
  \E c \in events : c.type = "project.created" /\ c.project = p

FiledBy(server, p, events) ==
  CreatedAmong(p, events) \/ (p \in FixtureProjects /\ server = "api")

CardAmong(card, p, events) ==
  \E c \in events : c.type = "surfaced" /\ c.by = card /\ c.project = p

Overridden(r, q, events) ==
  On("overridden", r, q, events) /\ On("classified", r, q, events)

Grounded(e, events) ==
  /\ e.type \in {"entry", "capture"} =>
       /\ e.by \in FieldReqs
       /\ job[e.by].op # "none"
       /\ FiledBy(job[e.by].server, e.project, events)
  /\ e.type = "reviewed" => CardAmong(e.cites, e.project, events)
  /\ e.type = "sent" =>
       /\ On("gate", e.cites, e.about, events)
       /\ GatePasses(e.about) \/ Overridden(e.by, e.about, events)

LogInv == \A i \in DOMAIN log : Grounded(log[i], Earlier(i))

(* A projection, or one about to be written.                               *)
Built(p, lines) ==
  /\ lines \subseteq Nat \X Event
  /\ \A l \in lines : l[2] \in Seen
  /\ Created(p, lines)
  /\ \E n \in 0 .. Len(log) : Sound(lines) = Sound(LinesUpTo(n, p))

InTodo(j) == {j.todo[k] : k \in DOMAIN j.todo}

(* The cards entry request j goes by were written, and the one the office  *)
(* is owed is among them or still to be appended.                          *)
Warned(j) ==
  /\ j.cards \subseteq Seen
  /\ j.urgent /\ ~j.error => \E c \in j.cards \cup InTodo(j) : Warns(c, j)

(* What a request in state j holds at its place in the code.               *)
JobOK(j) ==
  /\ j \in Job
  /\ j.op = "none" => j = Unused
  /\ j.at \notin {"idle", "done", "stopped"} => j.op # "none" /\ j.project \in Projects
  /\ j.at \in {"append", "history", "orchestrate", "derive"} =>
       /\ j.op = "entry" => j.about \in Entries
       /\ j.at # "append" => j.op = "entry"
  /\ j.at = "append" =>
       /\ j.op \in {"project", "capture", "entry", "review"}
       /\ j.op \in {"entry", "capture"} => FiledBy(j.server, j.project, Seen)
       /\ j.op = "review" =>
            j.about \in FieldReqs /\ CardAmong(j.about, j.project, Seen)
  /\ j.at = "orchestrate" => \A c \in j.cards : c.type = "surfaced"
  /\ j.at = "derive" <=> j.todo # <<>>
  /\ \A e \in InTodo(j) : e.type \in {"facts", "drift", "surfaced"}
  /\ j.at \in {"idle", "append", "history", "orchestrate"} => ~j.urgent
  /\ Warned(j)
  /\ j.at = "write" => Built(j.project, j.next)

JobInv ==
  /\ job \in [FieldReqs -> Job]
  /\ \A r \in FieldReqs : JobOK(job[r])

PageInv ==
  /\ page \in [Projects -> SUBSET (Nat \X Event)]
  /\ \A p \in Projects : page[p] # NoPage => Built(p, page[p])

Sale == [op : {"none", "gate", "send", "any"}, proposal : {"none"} \cup Proposals,
         quoted : {NoReq} \cup SaleReqs, at : SaleOver \cup {"classify", "gate", "send"}]

(* A send carries with it what its proposal.sent will rest on.             *)
SaleOK(r, s, events) ==
  /\ s \in Sale
  /\ s.at \in {"classify", "gate", "send"} =>
       /\ s.proposal \in Proposals
       /\ s.quoted # NoReq => On("gate", s.quoted, s.proposal, events)
  /\ s.at = "classify" => On("overridden", r, s.proposal, events)
  /\ s.at \in {"gate", "send"} =>
       GatePasses(s.proposal) \/ Overridden(r, s.proposal, events)
  /\ s.at = "send" => On("gate", r, s.proposal, events)

SaleInv ==
  /\ sale \in [SaleReqs -> Sale]
  /\ \A r \in SaleReqs : SaleOK(r, sale[r], Seen)

(* The inductive invariant.                                                *)
OfficeInv ==
  /\ StoreInv
  /\ LogInv
  /\ JobInv
  /\ PageInv
  /\ SaleInv
  /\ clock \in 0 .. MaxClock

-----------------------------------------------------------------------------
(* The file only grows: what was seen stays seen, under its place.         *)
Grows ==
  /\ Seen \subseteq Seen'
  /\ hurt \subseteq hurt'
  /\ Len(log) <= Len(log')
  /\ \A i \in 1 .. Len(log) : log'[i] = log[i]

LEMMA FileTyped ==
  ASSUME StoreInv
  PROVE  /\ Len(log) \in Nat /\ DOMAIN log = 1 .. Len(log)
         /\ \A i \in 1 .. Len(log) : log[i] \in Event /\ log[i] \in Seen
         /\ Seen \subseteq Event
  <1>1. log \in Seq(Event) /\ hurt \subseteq Event
    BY DEF StoreInv
  <1>2. QED
    BY <1>1 DEF Seen, Events

(* What a reader gets was written.                                         *)
LEMMA ReadersSeeTheSeen ==
  ASSUME StoreInv
  PROVE  /\ Readable \in Seq(Event)
         /\ Events(Readable) \subseteq Seen
         /\ Events(log) \subseteq Events(Readable)
         /\ Len(log) <= Len(Readable)
         /\ \A i \in 1 .. Len(log) : Readable[i] = log[i]
         /\ \A i \in DOMAIN Readable : i \notin DOMAIN log => Readable[i] \in hurt
  <1>1. log \in Seq(Event) /\ tail \in Seq(Event) /\ Events(tail) \subseteq hurt
    BY DEF StoreInv
  <1>2. /\ Readable \in Seq(Event)
        /\ Len(Readable) = Len(log) + Len(tail)
        /\ \A i \in 1 .. Len(log) + Len(tail) :
             Readable[i] = IF i <= Len(log) THEN log[i] ELSE tail[i - Len(log)]
    BY <1>1, ConcatProperties DEF Readable
  <1>3. Len(log) \in Nat /\ Len(tail) \in Nat
    BY <1>1
  <1>4. \A i \in 1 .. Len(log) : Readable[i] = log[i] /\ i \in DOMAIN Readable
    BY <1>2, <1>3
  <1>5. ASSUME NEW i \in DOMAIN Readable, i \notin DOMAIN log
        PROVE  Readable[i] \in hurt
    <2>1. i - Len(log) \in DOMAIN tail /\ Readable[i] = tail[i - Len(log)]
      BY <1>1, <1>2, <1>3, <1>5
    <2>2. QED
      BY <1>1, <2>1 DEF Events
  <1>6. Events(log) \subseteq Events(Readable)
    BY <1>1, <1>4 DEF Events
  <1>7. Events(Readable) \subseteq Seen
    BY <1>1, <1>2, <1>4, <1>5 DEF Events, Seen
  <1>8. QED
    BY <1>2, <1>3, <1>4, <1>5, <1>6, <1>7

(* An append that returns makes its event seen, in the file or lost.       *)
LEMMA ReturnKeeps ==
  ASSUME StoreInv, NEW e \in Event, AppendReturns(e),
         e.type = "gate" => e.by \in SaleReqs
  PROVE  /\ StoreInv' /\ Grows /\ e \in Seen'
         /\ log' = log \/ log' = Append(log, e)
  <1>1. acked' = acked \cup {e} /\ tears' = tears
    BY DEF AppendReturns
  <1>2. CASE ~open /\ log' = Append(log, e) /\ UNCHANGED <<open, tail, hurt>>
    <2>1. /\ log' \in Seq(Event) /\ Len(log') = Len(log) + 1 /\ Len(log) \in Nat
          /\ \A i \in 1 .. Len(log) : log'[i] = log[i]
          /\ log'[Len(log) + 1] = e
      BY <1>2, AppendProperties DEF StoreInv
    <2>2. Events(log') = Events(log) \cup {e}
      <3>1. DOMAIN log = 1 .. Len(log) /\ DOMAIN log' = 1 .. Len(log) + 1
        BY <2>1 DEF StoreInv
      <3>2. Events(log') \subseteq Events(log) \cup {e}
        BY <2>1, <3>1 DEF Events
      <3>3. Events(log) \cup {e} \subseteq Events(log')
        BY <2>1, <3>1 DEF Events
      <3>4. QED
        BY <3>2, <3>3
    <2>3. Grows /\ e \in Seen'
      BY <1>2, <2>1, <2>2 DEF Grows, Seen
    <2>4. Events(tail') \subseteq hurt'
      BY <1>2 DEF StoreInv, Events
    <2>5. acked' \subseteq Seen'
      BY <1>1, <2>3 DEF StoreInv, Grows
    <2>6. StoreInv'
      BY <1>1, <1>2, <2>1, <2>4, <2>5 DEF StoreInv
    <2>7. QED
      BY <1>2, <2>3, <2>6
  <1>3. CASE open /\ open' = FALSE /\ tail' = <<>> /\ hurt' = hurt \cup {e} /\ log' = log
    <2>1. Grows /\ e \in Seen'
      <3>1. Len(log) \in Nat
        BY DEF StoreInv
      <3>2. QED
        BY <1>3, <3>1 DEF Grows, Seen
    <2>2. /\ IsFiniteSet(hurt') /\ Cardinality(hurt) \in Nat
          /\ Cardinality(hurt') \in {Cardinality(hurt), Cardinality(hurt) + 1}
      BY <1>3, FS_AddElement, FS_CardinalityType DEF StoreInv
    <2>3. tears \in Nat
      BY StoreAssumption DEF StoreInv
    <2>4. Cardinality(hurt') <= 2 * tears'
      BY <1>1, <1>3, <2>2, <2>3 DEF StoreInv
    <2>5. tail' \in Seq(Event) /\ Events(tail') = {}
      BY <1>3 DEF Events
    <2>6. acked' \subseteq Seen'
      BY <1>1, <2>1 DEF StoreInv, Grows
    <2>7. StoreInv'
      BY <1>1, <1>3, <2>2, <2>4, <2>5, <2>6 DEF StoreInv
    <2>8. QED
      BY <1>3, <2>1, <2>7
  <1>4. QED
    BY <1>2, <1>3 DEF AppendReturns

LEMMA ThrowKeeps ==
  ASSUME StoreInv, NEW e \in Event, AppendThrows(e)
  PROVE  StoreInv' /\ Grows /\ log' = log
  <1>1. Len(log) \in Nat
    BY DEF StoreInv
  <1>2. CASE AppendRefused
    <2>1. UNCHANGED <<log, open, tail, tears, acked, hurt>>
      BY <1>2 DEF AppendRefused, storeVars
    <2>2. QED
      BY <1>1, <2>1 DEF StoreInv, Grows, Seen, Events
  <1>3. CASE AppendTears(e)
    <2>1. /\ tears < MaxTears /\ tears' = tears + 1 /\ open' = TRUE
          /\ tail' \in {<<>>, <<e>>} /\ hurt' = hurt \cup {e}
          /\ UNCHANGED <<log, acked>>
      BY <1>3 DEF AppendTears
    <2>2. Grows
      BY <1>1, <2>1 DEF Grows, Seen
    <2>3. /\ IsFiniteSet(hurt') /\ Cardinality(hurt) \in Nat
          /\ Cardinality(hurt') \in {Cardinality(hurt), Cardinality(hurt) + 1}
      BY <2>1, FS_AddElement, FS_CardinalityType DEF StoreInv
    <2>4. tears \in Nat /\ tears' \in 0 .. MaxTears
      BY <2>1, StoreAssumption DEF StoreInv
    <2>5. Cardinality(hurt') + 1 <= 2 * tears' /\ Cardinality(hurt') <= 2 * tears'
      BY <2>1, <2>3, <2>4 DEF StoreInv
    <2>6. tail' \in Seq(Event) /\ Events(tail') \subseteq hurt'
      <3>1. CASE tail' = <<>>
        BY <3>1 DEF Events
      <3>2. CASE tail' = <<e>>
        BY <2>1, <3>2 DEF Events
      <3>3. QED
        BY <2>1, <3>1, <3>2
    <2>7. acked' \subseteq Seen'
      BY <2>1, <2>2 DEF StoreInv, Grows
    <2>8. StoreInv'
      BY <2>1, <2>3, <2>4, <2>5, <2>6, <2>7 DEF StoreInv
    <2>9. QED
      BY <2>1, <2>2, <2>8
  <1>4. QED
    BY <1>2, <1>3 DEF AppendThrows

LEMMA FileStays ==
  ASSUME StoreInv, UNCHANGED storeVars
  PROVE  StoreInv' /\ Grows /\ log' = log
  <1>1. UNCHANGED <<log, open, tail, tears, acked, hurt>>
    BY DEF storeVars
  <1>2. Len(log) \in Nat
    BY DEF StoreInv
  <1>3. QED
    BY <1>1, <1>2 DEF StoreInv, Grows, Seen, Events

-----------------------------------------------------------------------------
(* What holds before a step of the file holds after it.                    *)

LEMMA LinesLast ==
  ASSUME StoreInv, Grows, NEW p, NEW n \in 0 .. Len(log)
  PROVE  LinesUpTo(n, p)' = LinesUpTo(n, p)
  <1>1. \A i \in 1 .. n : log'[i] = log[i]
    BY FileTyped DEF Grows
  <1>2. QED
    BY <1>1 DEF LinesUpTo

LEMMA BuiltLasts ==
  ASSUME StoreInv, Grows, NEW p, NEW lines, Built(p, lines)
  PROVE  Built(p, lines)'
  <1>1. PICK n \in 0 .. Len(log) : Sound(lines) = Sound(LinesUpTo(n, p))
    BY DEF Built
  <1>2. n \in 0 .. Len(log')
    BY <1>1, FileTyped DEF Grows
  <1>3. LinesUpTo(n, p)' = LinesUpTo(n, p)
    BY <1>1, LinesLast
  <1>4. Sound(lines)' = Sound(LinesUpTo(n, p))'
    BY <1>1, <1>3 DEF Sound, Grows
  <1>5. /\ lines \subseteq Nat \X Event
        /\ \A l \in lines : l[2] \in Seen'
        /\ Created(p, lines)
    BY DEF Built, Grows
  <1>6. QED
    BY <1>2, <1>4, <1>5 DEF Built, Created

LEMMA JobLasts ==
  ASSUME StoreInv, Grows, NEW j, JobOK(j)
  PROVE  JobOK(j)'
  <1>1. Seen \subseteq Seen'
    BY DEF Grows
  <1>2. \A p, server : FiledBy(server, p, Seen) => FiledBy(server, p, Seen')
    BY <1>1 DEF FiledBy, CreatedAmong
  <1>3. \A p, card : CardAmong(card, p, Seen) => CardAmong(card, p, Seen')
    BY <1>1 DEF CardAmong
  <1>4. j.at = "write" => Built(j.project, j.next)'
    BY BuiltLasts DEF JobOK
  <1>5. Warned(j)'
    BY <1>1 DEF JobOK, Warned
  <1>6. QED
    BY <1>1, <1>2, <1>3, <1>4, <1>5 DEF JobOK

LEMMA SaleLasts ==
  ASSUME NEW S, NEW T, S \subseteq T, NEW r, NEW s, SaleOK(r, s, S)
  PROVE  SaleOK(r, s, T)
  BY DEF SaleOK, On, Overridden

(* A request that was sent stays at its server.                            *)
Stable ==
  \A r \in FieldReqs :
    job[r].op # "none" => job'[r].op # "none" /\ job'[r].server = job[r].server

LEMMA GroundLasts ==
  ASSUME Stable, NEW e, NEW S, NEW T, S \subseteq T, Grounded(e, S)
  PROVE  Grounded(e, T)'
  BY DEF Stable, Grounded, FiledBy, CreatedAmong, CardAmong, On, Overridden, GatePasses

LEMMA LogKeeps ==
  ASSUME StoreInv, LogInv, Grows, Stable, NEW e,
         log' = log \/ (log' = Append(log, e) /\ Grounded(e, Seen))
  PROVE  LogInv'
  <1> SUFFICES ASSUME NEW i \in DOMAIN log'
               PROVE  Grounded(log[i], Earlier(i))'
    BY DEF LogInv
  <1>1. DOMAIN log = 1 .. Len(log) /\ Len(log) \in Nat
    BY FileTyped
  <1>2. CASE i \in DOMAIN log
    <2>1. log'[i] = log[i] /\ Earlier(i) \subseteq Earlier(i)'
      BY <1>1, <1>2 DEF Grows, Earlier
    <2>2. QED
      BY <1>2, <2>1, GroundLasts DEF LogInv
  <1>3. CASE i \notin DOMAIN log
    <2>1. log' = Append(log, e) /\ Grounded(e, Seen)
      BY <1>3
    <2>2. i = Len(log) + 1 /\ log'[i] = e
      BY <1>1, <1>3, <2>1 DEF StoreInv
    <2>3. Seen \subseteq Earlier(i)'
      BY <1>1, <2>2 DEF Seen, Events, Grows, Earlier
    <2>4. QED
      BY <2>1, <2>2, <2>3, GroundLasts
  <1>4. QED
    BY <1>2, <1>3

(* A step of the file, and of what stands on it.                           *)
LEMMA OfficeKept ==
  ASSUME OfficeInv, StoreInv', Grows, Stable, NEW e,
         log' = log \/ (log' = Append(log, e) /\ Grounded(e, Seen)),
         job' \in [FieldReqs -> Job],
         \A r \in FieldReqs : job'[r] = job[r] \/ JobOK(job[r])',
         page' \in [Projects -> SUBSET (Nat \X Event)],
         \A p \in Projects : page'[p] = page[p] \/ Built(p, page'[p]),
         sale' \in [SaleReqs -> Sale],
         \A r \in SaleReqs : sale'[r] = sale[r] \/ SaleOK(r, sale[r], Seen)',
         clock' \in 0 .. MaxClock
  PROVE  OfficeInv'
  <1>1. StoreInv /\ LogInv
    BY DEF OfficeInv
  <1>2. LogInv'
    BY <1>1, LogKeeps
  <1>3. JobInv'
    BY <1>1, JobLasts DEF OfficeInv, JobInv
  <1>4. PageInv'
    <2>1. \A p \in Projects : page'[p] # NoPage => Built(p, page'[p])
      BY DEF OfficeInv, PageInv, NoPage
    <2>2. \A p \in Projects : (page[p] # NoPage => Built(p, page[p]))'
      BY <1>1, <2>1, BuiltLasts DEF NoPage
    <2>3. QED
      BY <2>2 DEF PageInv, NoPage
  <1>5. SaleInv'
    BY SaleLasts DEF OfficeInv, SaleInv, Grows
  <1>6. QED
    BY <1>2, <1>3, <1>4, <1>5 DEF OfficeInv

(* One request of the field day takes a step.                              *)
LEMMA FieldMoves ==
  ASSUME OfficeInv, StoreInv', Grows, NEW e,
         log' = log \/ (log' = Append(log, e) /\ Grounded(e, Seen)),
         NEW r \in FieldReqs, NEW j, job' = [job EXCEPT ![r] = j],
         JobOK(j)', j.op # "none", job[r].op # "none" => j.server = job[r].server,
         page' \in [Projects -> SUBSET (Nat \X Event)],
         \A p \in Projects : page'[p] = page[p] \/ Built(p, page'[p]),
         UNCHANGED <<clock, sale>>
  PROVE  OfficeInv'
  <1>1. /\ job \in [FieldReqs -> Job] /\ sale \in [SaleReqs -> Sale]
        /\ clock \in 0 .. MaxClock
    BY DEF OfficeInv, JobInv, SaleInv
  <1>2. j \in Job
    BY DEF JobOK
  <1>3. \A q \in FieldReqs : job'[q] = IF q = r THEN j ELSE job[q]
    BY <1>1
  <1>4. Stable
    BY <1>3 DEF Stable
  <1>5. job' \in [FieldReqs -> Job]
    BY <1>1, <1>2
  <1>6. \A q \in FieldReqs : job'[q] = job[q] \/ JobOK(job[q])'
    BY <1>3
  <1>7. QED
    BY <1>1, <1>4, <1>5, <1>6, OfficeKept

(* One request of proposal sending takes a step.                           *)
LEMMA SaleMoves ==
  ASSUME OfficeInv, StoreInv', Grows, NEW e,
         log' = log \/ (log' = Append(log, e) /\ Grounded(e, Seen)),
         NEW r \in SaleReqs, NEW s, sale' = [sale EXCEPT ![r] = s],
         SaleOK(r, s, Seen'), UNCHANGED fieldVars
  PROVE  OfficeInv'
  <1>1. /\ job \in [FieldReqs -> Job] /\ sale \in [SaleReqs -> Sale]
        /\ page \in [Projects -> SUBSET (Nat \X Event)]
        /\ clock \in 0 .. MaxClock
        /\ UNCHANGED <<job, page, clock>>
    BY DEF OfficeInv, JobInv, PageInv, SaleInv, fieldVars
  <1>2. s \in Sale
    BY DEF SaleOK
  <1>3. \A q \in SaleReqs : sale'[q] = IF q = r THEN s ELSE sale[q]
    BY <1>1
  <1>4. Stable
    BY <1>1 DEF Stable
  <1>5. sale' \in [SaleReqs -> Sale]
    BY <1>1, <1>2
  <1>6. \A q \in SaleReqs : sale'[q] = sale[q] \/ SaleOK(q, sale[q], Seen)'
    BY <1>3
  <1>7. QED
    BY <1>1, <1>4, <1>5, <1>6, OfficeKept

-----------------------------------------------------------------------------
(* The requests of the field day.                                          *)

LEMMA StoppedOK ==
  ASSUME NEW server \in Servers
  PROVE  JobOK(Stopped(server))' /\ Stopped(server).op = "any" /\ Stopped(server).server = server
  <1> DEFINE s == [op |-> "any", server |-> server, project |-> "none",
           about |-> "none", at |-> "stopped", cards |-> {}, todo |-> <<>>,
           next |-> NoPage, urgent |-> FALSE, day |-> 0, error |-> FALSE]
  <1>1. ASSUME NEW t, t = Stopped(server)
        PROVE  t = s
    BY <1>1 DEF Stopped, Unused
  <1>2. s \in Job
    BY FieldAssumption DEF Job, Over, NoPage
  <1>3. Warned(s)' /\ InTodo(s) = {}
    BY DEF InTodo, Warned
  <1>4. JobOK(s)'
    BY <1>2, <1>3 DEF JobOK
  <1>5. Stopped(server) = s
    BY <1>1
  <1>6. QED
    BY <1>4, <1>5

LEMMA AnsweredOK ==
  ASSUME NEW j \in Job, j.op # "none", j.todo = <<>>, Warned(j)'
  PROVE  /\ JobOK(Answered(j))'
         /\ Answered(j).op # "none" /\ Answered(j).server = j.server
  <1>1. CASE j.urgent
    <2> DEFINE a == [op |-> j.op, server |-> j.server, project |-> j.project,
             about |-> j.about, at |-> "done", cards |-> j.cards, todo |-> j.todo,
             next |-> NoPage, urgent |-> j.urgent, day |-> j.day, error |-> j.error]
    <2>1. Answered(j) = a
      BY <1>1 DEF Answered, Job
    <2>2. a \in Job
      BY DEF Job, Over, NoPage
    <2>3. Warned(a)' /\ InTodo(a) = {}
      BY DEF Warned, InTodo, Warns
    <2>4. JobOK(a)'
      BY <2>2, <2>3 DEF JobOK
    <2>5. QED
      BY <2>1, <2>4
  <1>2. CASE ~j.urgent
    <2> DEFINE a == [op |-> "any", server |-> j.server, project |-> "none",
             about |-> "none", at |-> "done", cards |-> {}, todo |-> <<>>,
             next |-> NoPage, urgent |-> FALSE, day |-> 0, error |-> FALSE]
    <2>1. Answered(j) = a
      BY <1>2 DEF Answered, Stopped, Unused
    <2>2. a \in Job
      BY FieldAssumption DEF Job, Over, NoPage
    <2>3. Warned(a)' /\ InTodo(a) = {}
      BY DEF Warned, InTodo
    <2>4. JobOK(a)'
      BY <2>2, <2>3 DEF JobOK
    <2>5. QED
      BY <2>1, <2>4
  <1>3. QED
    BY <1>1, <1>2

(* Request j, moved to a place that asks nothing of it but its derived     *)
(* events.                                                                 *)
LEMMA MovedOK ==
  ASSUME NEW j \in Job, NEW step \in {"derive", "reread"},
         j.op = "entry" => j.about \in Entries, j.project \in Projects,
         j.op # "none", step = "derive" => j.op = "entry",
         step = "derive" <=> j.todo # <<>>,
         \A e \in InTodo(j) : e.type \in {"facts", "drift", "surfaced"}, Warned(j)'
  PROVE  /\ JobOK([j EXCEPT !.at = step])'
         /\ [j EXCEPT !.at = step].op # "none"
         /\ [j EXCEPT !.at = step].server = j.server
  <1> DEFINE a == [op |-> j.op, server |-> j.server, project |-> j.project,
           about |-> j.about, at |-> step, cards |-> j.cards, todo |-> j.todo,
           next |-> j.next, urgent |-> j.urgent, day |-> j.day, error |-> j.error]
  <1>1. ASSUME NEW t, t = [j EXCEPT !.at = step]
        PROVE  t = a
    BY <1>1 DEF Job
  <1>2. a \in Job
    BY DEF Job
  <1>3. InTodo(a) = InTodo(j)
    BY DEF InTodo
  <1>4. Warned(a)'
    BY <1>3 DEF Warned, Warns
  <1>5. JobOK(a)'
    BY <1>2, <1>3, <1>4 DEF JobOK
  <1>6. [j EXCEPT !.at = step] = a
    BY <1>1
  <1>7. QED
    BY <1>5, <1>6

LEMMA ContinuesOK ==
  ASSUME NEW r \in FieldReqs, NEW j \in Job, Continues(r, j),
         j.op = "entry", j.about \in Entries, j.project \in Projects,
         \A e \in InTodo(j) : e.type \in {"facts", "drift", "surfaced"}, Warned(j)'
  PROVE  \E m : /\ job' = [job EXCEPT ![r] = m]
                /\ JobOK(m)' /\ m.op # "none" /\ m.server = j.server
  <1>1. j.server \in {"slice", "api"}
    BY DEF Job, Servers
  <1>2. CASE j.todo # <<>>
    <2>1. job' = [job EXCEPT ![r] = [j EXCEPT !.at = "derive"]]
      BY <1>2 DEF Continues
    <2>2. QED
      BY <1>2, <2>1, MovedOK
  <1>3. CASE j.todo = <<>> /\ j.server = "slice"
    <2>1. job' = [job EXCEPT ![r] = [j EXCEPT !.at = "reread"]]
      BY <1>3 DEF Continues
    <2>2. QED
      BY <1>3, <2>1, MovedOK
  <1>4. CASE j.todo = <<>> /\ j.server = "api"
    <2>1. job' = [job EXCEPT ![r] = Answered(j)]
      BY <1>4 DEF Continues
    <2>2. QED
      BY <1>4, <2>1, AnsweredOK
  <1>5. QED
    BY <1>1, <1>2, <1>3, <1>4

(* A request comes in.                                                     *)
LEMMA Arrival ==
  ASSUME OfficeInv, NEW r \in FieldReqs, UNCHANGED sale,
         NEW op \in {"project", "capture", "entry", "review", "get"},
         NEW server \in Servers, NEW p \in Projects,
         NEW about \in {"none"} \cup Entries \cup FieldReqs,
         NEW step \in {"append", "reread"}, Starts(r, op, server, p, about, step),
         step = "append" => op # "get",
         op = "entry" => about \in Entries,
         op \in {"entry", "capture"} => FiledBy(server, p, Seen),
         op = "review" => about \in FieldReqs /\ CardAmong(about, p, Seen)
  PROVE  OfficeInv'
  <1> DEFINE a == [op |-> op, server |-> server, project |-> p,
           about |-> about, at |-> step, cards |-> {}, todo |-> <<>>,
           next |-> NoPage, urgent |-> FALSE, day |-> 0, error |-> FALSE]
  <1>1. /\ job \in [FieldReqs -> Job] /\ JobOK(job[r]) /\ job[r] = Unused
        /\ job[r].op = "none"
    BY DEF OfficeInv, JobInv, JobOK, Starts
  <1>2. /\ job' = [job EXCEPT ![r].op = op, ![r].server = server, ![r].project = p,
                              ![r].about = about, ![r].at = step]
        /\ UNCHANGED <<page, clock, storeVars>>
    BY DEF Starts
  <1>3. job' = [job EXCEPT ![r] = a]
    <2>1. ASSUME NEW t, t = job'[r]
          PROVE  t = a
      BY <1>1, <1>2, <2>1 DEF Unused
    <2>2. \A q \in FieldReqs : q # r => job'[q] = job[q]
      BY <1>1, <1>2
    <2>3. QED
      BY <1>1, <1>2, <2>1, <2>2
  <1>4. StoreInv /\ StoreInv' /\ Grows /\ log' = log
    BY <1>2, FileStays DEF OfficeInv
  <1>5. JobOK(a)
    <2>1. a \in Job
      BY FieldAssumption DEF Job, NoPage
    <2>2. Warned(a) /\ InTodo(a) = {}
      BY DEF Warned, InTodo
    <2>3. QED
      BY <2>1, <2>2 DEF JobOK
  <1>6. JobOK(a)'
    BY <1>4, <1>5, JobLasts
  <1>7. PageInv
    BY DEF OfficeInv
  <1>8. QED
    BY <1>1, <1>2, <1>3, <1>4, <1>6, <1>7, FieldMoves DEF PageInv

LEMMA LinesSeen ==
  ASSUME StoreInv, NEW l \in InOrder(Readable)
  PROVE  l \in Nat \X Event /\ l[2] \in Seen
  <1>1. PICK i \in DOMAIN Readable : l = <<i, Readable[i]>>
    BY DEF InOrder
  <1>2. i \in Nat /\ Readable[i] \in Event
    BY ReadersSeeTheSeen
  <1>3. Readable[i] \in Seen
    BY ReadersSeeTheSeen DEF Events
  <1>4. QED
    BY <1>1, <1>2, <1>3

(* Whichever way a server looks, the project was created or is a fixture.  *)
LEMMA FoundIsFiled ==
  ASSUME OfficeInv, NEW server, NEW p \in Projects, ProjectExists(server, p)
  PROVE  FiledBy(server, p, Seen)
  <1>1. ASSUME NEW lines, Created(p, lines), \A l \in lines : l[2] \in Seen
        PROVE  CreatedAmong(p, Seen)
    BY <1>1 DEF Created, CreatedAmong
  <1>2. CASE page[p] # NoPage
    BY <1>1, <1>2 DEF OfficeInv, PageInv, Built, FiledBy
  <1>3. CASE server = "api" /\ p \in FixtureProjects
    BY <1>3 DEF FiledBy
  <1>4. CASE Created(p, ReadProject(p))
    <2>1. \A l \in ReadProject(p) : l[2] \in Seen
      BY LinesSeen DEF OfficeInv, ReadProject
    <2>2. QED
      BY <1>1, <1>4, <2>1 DEF FiledBy
  <1>5. QED
    BY <1>2, <1>3, <1>4 DEF ProjectExists

LEMMA CardIsSeen ==
  ASSUME StoreInv, NEW card, NEW e \in Surfaced(card)
  PROVE  e.project \in Projects /\ CardAmong(card, e.project, Seen)
  <1>1. e \in Seen /\ e \in Event /\ e.type = "surfaced" /\ e.by = card
    BY ReadersSeeTheSeen, FileTyped DEF Surfaced
  <1>2. QED
    BY <1>1 DEF CardAmong, Event

LEMMA Arrivals ==
  ASSUME OfficeInv, NEW r \in FieldReqs, FieldArrives(r), UNCHANGED sale
  PROVE  OfficeInv'
  <1>1. "slice" \in Servers
    BY DEF Servers
  <1>2. ASSUME NEW p \in Projects, PostProject(r, p)
        PROVE  OfficeInv'
    BY <1>1, <1>2, Arrival DEF PostProject
  <1>3. ASSUME NEW p \in Projects, PostCapture(r, p)
        PROVE  OfficeInv'
    BY <1>1, <1>3, FoundIsFiled, Arrival DEF PostCapture
  <1>4. ASSUME NEW p \in Projects, GetProject(r, p)
        PROVE  OfficeInv'
    BY <1>1, <1>4, Arrival DEF GetProject
  <1>5. ASSUME NEW server \in Servers, NEW p \in Projects, NEW e \in Entries,
               PostEntry(r, server, p, e)
        PROVE  OfficeInv'
    BY <1>5, FoundIsFiled, Arrival DEF PostEntry
  <1>6. ASSUME NEW server \in Servers, NEW card \in FieldReqs \ {r},
               PostReview(r, server, card)
        PROVE  OfficeInv'
    <2>1. PICK e \in Surfaced(card) :
            Starts(r, "review", server, e.project, card, "append")
      BY <1>6 DEF PostReview
    <2>2. e.project \in Projects /\ CardAmong(card, e.project, Seen)
      BY CardIsSeen DEF OfficeInv
    <2>3. QED
      BY <2>1, <2>2, Arrival
  <1>7. QED
    BY <1>2, <1>3, <1>4, <1>5, <1>6 DEF FieldArrives

(* The event a request is there to append, and what it rests on.           *)
LEMMA RecordedGrounded ==
  ASSUME OfficeInv, NEW r \in FieldReqs, job[r].at = "append"
  PROVE  /\ Recorded(r) \in Event
         /\ Grounded(Recorded(r), Seen)
         /\ Recorded(r).type # "gate"
  <1> DEFINE j == job[r]
  <1>1. JobOK(j) /\ j \in Job /\ j.at = "append"
    BY DEF OfficeInv, JobInv, JobOK
  <1>2. /\ j.op \in {"project", "capture", "entry", "review"}
        /\ j.project \in Projects
        /\ j.op = "entry" => j.about \in Entries
        /\ j.op \in {"entry", "capture"} => FiledBy(j.server, j.project, Seen)
        /\ j.op = "review" => j.about \in FieldReqs /\ CardAmong(j.about, j.project, Seen)
    BY <1>1 DEF JobOK
  <1>3. 0 \in 0 .. MaxClock
    BY FieldAssumption
  <1>4. CASE j.op = "project"
    <2>1. Recorded(r) = New("project.created", r, j.project, "none", NoReq, 0)
      BY <1>4 DEF Recorded
    <2>2. QED
      BY <1>2, <1>3, <2>1 DEF New, Event, AllReqs, Grounded
  <1>5. CASE j.op = "capture"
    <2>1. Recorded(r) = New("capture", r, j.project, "none", NoReq, 0)
      BY <1>5 DEF Recorded
    <2>2. QED
      BY <1>2, <1>3, <1>5, <2>1 DEF New, Event, AllReqs, Grounded
  <1>6. CASE j.op = "entry"
    <2>1. Recorded(r) = New("entry", r, j.project, j.about, NoReq, 0)
      BY <1>6 DEF Recorded
    <2>2. QED
      BY <1>2, <1>3, <1>6, <2>1 DEF New, Event, AllReqs, Grounded
  <1>7. CASE j.op = "review"
    <2>1. Recorded(r) = New("reviewed", r, j.project, "none", j.about, 0)
      BY <1>7 DEF Recorded
    <2>2. QED
      BY <1>2, <1>3, <1>7, <2>1 DEF New, Event, AllReqs, Grounded
  <1>8. QED
    BY <1>2, <1>4, <1>5, <1>6, <1>7

LEMMA RecordedAppended ==
  ASSUME OfficeInv, NEW r \in FieldReqs, AppendRecorded(r), UNCHANGED sale
  PROVE  OfficeInv'
  <1>1. PICK e : e = Recorded(r)
    OBVIOUS
  <1>2. PICK j : j = job[r]
    OBVIOUS
  <1>3. /\ StoreInv /\ JobOK(j) /\ j \in Job /\ j.at = "append" /\ PageInv
        /\ job \in [FieldReqs -> Job]
    BY <1>2 DEF OfficeInv, JobInv, JobOK, AppendRecorded
  <1>4. e \in Event /\ Grounded(e, Seen) /\ e.type # "gate"
    BY <1>1, <1>2, <1>3, RecordedGrounded
  <1>5. /\ j.op \in {"project", "capture", "entry", "review"}
        /\ j.project \in Projects /\ j.todo = <<>> /\ ~j.urgent /\ InTodo(j) = {}
        /\ j.op = "entry" => j.about \in Entries
    BY <1>3 DEF JobOK, InTodo
  <1>6. UNCHANGED <<page, clock, sale>> /\ j.server \in {"slice", "api"}
    BY <1>3 DEF AppendRecorded, Job, Servers
  <1>7. CASE AppendThrows(e) /\ Stops(r)
    <2>1. job' = [job EXCEPT ![r] = Stopped(j.server)]
      BY <1>2, <1>3, <1>7 DEF Stops
    <2>2. StoreInv' /\ Grows /\ log' = log
      BY <1>3, <1>4, <1>7, ThrowKeeps
    <2>3. QED
      BY <1>2, <1>3, <1>6, <2>1, <2>2, StoppedOK, FieldMoves DEF PageInv, Servers
  <1>8. CASE AppendReturns(e) /\ ~(AppendThrows(e) /\ Stops(r))
    <2>1. StoreInv' /\ Grows /\ (log' = log \/ log' = Append(log, e))
      BY <1>3, <1>4, <1>8, ReturnKeeps
    <2>2. Warned(j)'
      BY <1>3, <2>1, JobLasts DEF JobOK
    <2>3. ASSUME NEW m, job' = [job EXCEPT ![r] = m], JobOK(m)', m.op # "none",
                 m.server = j.server
          PROVE  OfficeInv'
      BY <1>2, <1>3, <1>4, <1>6, <2>1, <2>3, FieldMoves DEF PageInv
    <2>4. CASE j.op = "entry" /\ Goes(r, "history")
      <3> DEFINE a == [op |-> j.op, server |-> j.server, project |-> j.project,
               about |-> j.about, at |-> "history", cards |-> j.cards, todo |-> j.todo,
               next |-> j.next, urgent |-> j.urgent, day |-> j.day, error |-> j.error]
      <3>1. ASSUME NEW t, t = [j EXCEPT !.at = "history"]
            PROVE  t = a
        BY <1>3, <3>1 DEF Job
      <3>2. job' = [job EXCEPT ![r] = a]
        <4>1. job' = [job EXCEPT ![r] = [j EXCEPT !.at = "history"]]
          BY <1>2, <1>3, <2>4 DEF Goes
        <4>2. QED
          BY <3>1, <4>1
      <3>3. JobOK(a)'
        <4>1. a \in Job
          BY <1>3 DEF Job
        <4>2. Warned(a)' /\ InTodo(a) = {}
          BY <1>5, <2>2 DEF Warned, InTodo
        <4>3. QED
          BY <1>5, <2>4, <4>1, <4>2 DEF JobOK
      <3>4. QED
        BY <1>5, <2>3, <3>2, <3>3
    <2>5. CASE j.op # "entry" /\ Goes(r, "reread")
      <3>1. job' = [job EXCEPT ![r] = [j EXCEPT !.at = "reread"]]
        BY <1>2, <1>3, <2>5 DEF Goes
      <3>2. QED
        BY <1>3, <1>5, <2>2, <2>3, <2>5, <3>1, MovedOK
    <2>6. CASE j.op # "entry" /\ Ends(r)
      <3>1. job' = [job EXCEPT ![r] = Answered(j)]
        BY <1>2, <1>3, <2>6 DEF Ends
      <3>2. QED
        BY <1>3, <1>5, <2>2, <2>3, <3>1, AnsweredOK
    <2>7. CASE j.op = "entry"
      <3>1. Goes(r, "history")
        BY <1>1, <1>2, <1>8, <2>7 DEF AppendRecorded
      <3>2. QED
        BY <2>4, <2>7, <3>1
    <2>8. CASE j.op # "entry" /\ j.server = "slice"
      <3>1. Goes(r, "reread")
        BY <1>1, <1>2, <1>8, <2>8 DEF AppendRecorded
      <3>2. QED
        BY <2>5, <2>8, <3>1
    <2>9. CASE j.op # "entry" /\ j.server = "api"
      <3>1. Ends(r)
        BY <1>1, <1>2, <1>8, <2>9 DEF AppendRecorded
      <3>2. QED
        BY <2>6, <2>9, <3>1
    <2>10. QED
      BY <1>6, <2>7, <2>8, <2>9
  <1>9. QED
    BY <1>1, <1>7, <1>8 DEF AppendRecorded

LEMMA HistoryRead ==
  ASSUME OfficeInv, NEW r \in FieldReqs, ReadHistory(r), UNCHANGED sale
  PROVE  OfficeInv'
  <1>1. PICK cards : cards = {e \in Events(Readable) : e.type = "surfaced"}
    OBVIOUS
  <1>2. PICK j : j = job[r]
    OBVIOUS
  <1>3. /\ StoreInv /\ JobOK(j) /\ j \in Job /\ j.at = "history" /\ PageInv
        /\ job \in [FieldReqs -> Job]
        /\ job' = [job EXCEPT ![r].at = "orchestrate", ![r].cards = cards]
        /\ UNCHANGED <<page, clock, storeVars>>
    BY <1>1, <1>2 DEF OfficeInv, JobInv, JobOK, ReadHistory
  <1>4. /\ j.op = "entry" /\ j.about \in Entries /\ j.project \in Projects
        /\ j.todo = <<>> /\ ~j.urgent
    BY <1>3 DEF JobOK
  <1> DEFINE a == [op |-> j.op, server |-> j.server, project |-> j.project,
           about |-> j.about, at |-> "orchestrate", cards |-> cards, todo |-> j.todo,
           next |-> j.next, urgent |-> j.urgent, day |-> j.day, error |-> j.error]
  <1>5. job' = [job EXCEPT ![r] = a]
    <2>1. ASSUME NEW t, t = job'[r]
          PROVE  t = a
      BY <1>2, <1>3, <2>1 DEF Job
    <2>2. \A q \in FieldReqs : q # r => job'[q] = job[q]
      BY <1>3
    <2>3. QED
      BY <1>3, <2>1, <2>2
  <1>6. StoreInv' /\ Grows /\ log' = log
    BY <1>3, FileStays
  <1>7. JobOK(a)
    <2>1. cards \subseteq Event /\ \A c \in cards : c \in Seen /\ c.type = "surfaced"
      BY <1>1, <1>3, ReadersSeeTheSeen, FileTyped
    <2>2. a \in Job
      BY <1>3, <2>1 DEF Job
    <2>3. Warned(a) /\ InTodo(a) = {}
      BY <1>4, <2>1 DEF Warned, InTodo
    <2>4. QED
      BY <1>4, <2>1, <2>2, <2>3 DEF JobOK
  <1>8. JobOK(a)' /\ a.op # "none" /\ a.server = j.server
    BY <1>3, <1>4, <1>6, <1>7, JobLasts
  <1>9. QED
    BY <1>2, <1>3, <1>5, <1>6, <1>8, FieldMoves DEF PageInv

(* The events an orchestrator run derives.                                 *)
LEMMA DerivedTyped ==
  ASSUME NEW r \in FieldReqs, NEW j \in Job, j = job[r],
         j.project \in Projects, j.about \in Entries, clock \in 0 .. MaxClock, NEW S
  PROVE  /\ Derived(r, S) \in Seq(Event)
         /\ \A k \in DOMAIN Derived(r, S) :
              Derived(r, S)[k].type \in {"facts", "drift", "surfaced"}
         /\ Surfaces(S, j.about, j.cards, clock) =>
              \E k \in DOMAIN Derived(r, S) :
                Derived(r, S)[k] = New("surfaced", r, j.project, j.about, NoReq, clock)
  <1> DEFINE D == {e \in Event : e.type \in {"facts", "drift", "surfaced"}}
             F == New("facts", r, j.project, j.about, NoReq, 0)
             G == New("drift", r, j.project, j.about, NoReq, 0)
             H == New("surfaced", r, j.project, j.about, NoReq, clock)
             A == <<F>>
             B == IF Severity(S) # "none" THEN <<G>> ELSE <<>>
             C == IF Surfaces(S, j.about, j.cards, clock) THEN <<H>> ELSE <<>>
  <1>1. Derived(r, S) = A \o B \o C
    BY DEF Derived
  <1>2. F \in D /\ G \in D /\ H \in D
    <2>1. 0 \in 0 .. MaxClock
      BY FieldAssumption
    <2>2. QED
      BY <2>1 DEF New, Event, AllReqs
  <1> HIDE DEF D, F, G, H
  <1>3. A \in Seq(D) /\ B \in Seq(D) /\ C \in Seq(D)
    <2>1. <<F>> \in Seq(D) /\ <<G>> \in Seq(D) /\ <<H>> \in Seq(D) /\ <<>> \in Seq(D)
      BY <1>2
    <2>2. QED
      BY <2>1
  <1> HIDE DEF A, B, C
  <1>4. A \o B \in Seq(D) /\ A \o B \o C \in Seq(D)
    BY <1>3, ConcatProperties
  <1>5. /\ Derived(r, S) \in Seq(Event)
        /\ \A k \in DOMAIN Derived(r, S) :
             Derived(r, S)[k].type \in {"facts", "drift", "surfaced"}
    BY <1>1, <1>4 DEF D
  <1>6. ASSUME Surfaces(S, j.about, j.cards, clock)
        PROVE  \E k \in DOMAIN Derived(r, S) : Derived(r, S)[k] = H
    <2>1. C = <<H>>
      BY <1>6 DEF C
    <2> DEFINE n == Len(A \o B) + 1
    <2>2. n \in DOMAIN (A \o B \o C) /\ (A \o B \o C)[n] = H
      BY <1>3, <1>4, <2>1, ConcatProperties
    <2>3. QED
      BY <1>1, <2>2
  <1>7. QED
    BY <1>5, <1>6 DEF H

(* A run over an entry of the day: a card is raised, or one was read.      *)
LEMMA Orchestrated ==
  ASSUME OfficeInv, NEW r \in FieldReqs, Orchestrate(r), UNCHANGED sale
  PROVE  OfficeInv'
  <1>1. PICK j : j = job[r]
    OBVIOUS
  <1>2. /\ StoreInv /\ JobOK(j) /\ j \in Job /\ j.at = "orchestrate" /\ PageInv
        /\ UNCHANGED <<page, clock, storeVars>> /\ clock \in 0 .. MaxClock
    BY <1>1 DEF OfficeInv, JobInv, JobOK, Orchestrate
  <1>3. /\ j.op = "entry" /\ j.about \in Entries /\ j.project \in Projects
        /\ j.todo = <<>> /\ ~j.urgent
        /\ j.cards \subseteq Seen /\ \A c \in j.cards : c.type = "surfaced"
    BY <1>2 DEF JobOK, Warned
  <1>4. StoreInv' /\ Grows /\ log' = log /\ Seen' = Seen
    BY <1>2, FileStays DEF Seen, storeVars
  <1>5. ASSUME NEW m \in Job, Continues(r, m), m.server = j.server, m.op = "entry",
               m.about \in Entries, m.project \in Projects,
               \A e \in InTodo(m) : e.type \in {"facts", "drift", "surfaced"}, Warned(m)'
        PROVE  OfficeInv'
    <2>1. PICK n : /\ job' = [job EXCEPT ![r] = n]
                   /\ JobOK(n)' /\ n.op # "none" /\ n.server = j.server
      BY <1>5, ContinuesOK
    <2>2. QED
      BY <1>1, <1>2, <1>4, <2>1, FieldMoves DEF PageInv
  <1>6. ASSUME NEW throws \in BOOLEAN,
               Continues(r, [job[r] EXCEPT !.error = throws, !.cards = {}])
        PROVE  OfficeInv'
    <2> DEFINE a == [op |-> j.op, server |-> j.server, project |-> j.project,
             about |-> j.about, at |-> j.at, cards |-> {}, todo |-> j.todo,
             next |-> j.next, urgent |-> j.urgent, day |-> j.day, error |-> throws]
    <2>1. ASSUME NEW t, t = [j EXCEPT !.error = throws, !.cards = {}]
          PROVE  t = a
      BY <1>2, <2>1 DEF Job
    <2>2. Continues(r, a)
      BY <1>1, <1>6, <2>1
    <2>3. a \in Job
      BY <1>2 DEF Job
    <2>4. Warned(a)' /\ InTodo(a) = {}
      BY <1>3 DEF Warned, InTodo
    <2>5. QED
      BY <1>3, <1>5, <2>2, <2>3, <2>4
  <1>7. ASSUME NEW S \in SignalSets,
               LET urgent == Severity(S) \in {"block", "warn"}
               IN  Continues(r, [job[r] EXCEPT !.todo = Derived(r, S), !.day = clock,
                                               !.cards = IF urgent THEN @ ELSE {},
                                               !.urgent = urgent])
        PROVE  OfficeInv'
    <2>1. PICK todo, day, urgent, cards :
            /\ todo = Derived(r, S) /\ day = clock
            /\ urgent = (Severity(S) \in {"block", "warn"})
            /\ cards = IF urgent THEN j.cards ELSE {}
      OBVIOUS
    <2> DEFINE a == [op |-> j.op, server |-> j.server, project |-> j.project,
             about |-> j.about, at |-> j.at, cards |-> cards, todo |-> todo,
             next |-> j.next, urgent |-> urgent, day |-> day, error |-> j.error]
    <2>2. ASSUME NEW t, t = [j EXCEPT !.todo = todo, !.day = day, !.cards = cards,
                                      !.urgent = urgent]
          PROVE  t = a
      BY <1>2, <2>2 DEF Job
    <2>3. Continues(r, a)
      <3>1. Continues(r, [j EXCEPT !.todo = todo, !.day = day, !.cards = cards,
                                   !.urgent = urgent])
        BY <1>1, <1>7, <2>1
      <3>2. QED
        BY <2>2, <3>1
    <2>4. /\ todo \in Seq(Event)
          /\ \A k \in DOMAIN todo : todo[k].type \in {"facts", "drift", "surfaced"}
          /\ Surfaces(S, j.about, j.cards, day) =>
               \E k \in DOMAIN todo :
                 todo[k] = New("surfaced", r, j.project, j.about, NoReq, day)
      BY <1>1, <1>2, <1>3, <2>1, DerivedTyped
    <2>5. cards \subseteq j.cards /\ a.cards \subseteq Seen
      BY <1>3, <2>1
    <2>6. a \in Job
      BY <1>2, <2>1, <2>4, <2>5 DEF Job
    <2>7. \A e \in InTodo(a) : e.type \in {"facts", "drift", "surfaced"}
      BY <2>4 DEF InTodo
    <2>8. Warned(a)
      <3>1. CASE Surfaces(S, j.about, j.cards, day)
        <4>1. PICK k \in DOMAIN todo :
                todo[k] = New("surfaced", r, j.project, j.about, NoReq, day)
          BY <2>4, <3>1
        <4>2. todo[k] \in InTodo(a)
          BY DEF InTodo
        <4>3. Warns(todo[k], a)
          BY <1>2, <2>1, <4>1 DEF New, Warns
        <4>4. QED
          BY <2>5, <4>2, <4>3 DEF Warned
      <3>2. CASE ~Surfaces(S, j.about, j.cards, day) /\ urgent
        <4>1. PICK c \in j.cards : c.about = j.about /\ c.at >= day
          BY <2>1, <3>2 DEF Surfaces
        <4>2. c \in a.cards /\ Warns(c, a)
          BY <1>3, <2>1, <3>2, <4>1 DEF Warns
        <4>3. QED
          BY <2>5, <4>2 DEF Warned
      <3>3. QED
        BY <2>5, <3>1, <3>2 DEF Warned
    <2>9. Warned(a)'
      BY <1>4, <2>8 DEF Warned
    <2>10. QED
      BY <1>3, <1>5, <2>3, <2>6, <2>7, <2>9
  <1>8. QED
    BY <1>6, <1>7 DEF Orchestrate

LEMMA DerivedAppended ==
  ASSUME OfficeInv, NEW r \in FieldReqs, AppendDerived(r), UNCHANGED sale
  PROVE  OfficeInv'
  <1>1. PICK j : j = job[r]
    OBVIOUS
  <1>2. /\ StoreInv /\ JobOK(j) /\ j \in Job /\ j.at = "derive" /\ PageInv
        /\ UNCHANGED <<page, clock>>
    BY <1>1 DEF OfficeInv, JobInv, JobOK, AppendDerived
  <1>3. /\ j.op = "entry" /\ j.about \in Entries /\ j.project \in Projects
        /\ j.todo # <<>> /\ j.todo \in Seq(Event) /\ Warned(j)
        /\ \A e \in InTodo(j) : e.type \in {"facts", "drift", "surfaced"}
    BY <1>2 DEF JobOK, Job
  <1> DEFINE e == Head(j.todo)
             rest == Tail(j.todo)
  <1>4. /\ e \in Event /\ rest \in Seq(Event)
        /\ e \in InTodo(j)
        /\ \A f \in InTodo(j) : f = e \/ \E k \in DOMAIN rest : f = rest[k]
        /\ \A k \in DOMAIN rest : rest[k] \in InTodo(j)
    <2>1. /\ e \in Event /\ rest \in Seq(Event) /\ Len(rest) = Len(j.todo) - 1
          /\ \A i \in 1 .. Len(rest) : rest[i] = j.todo[i + 1]
          /\ e = j.todo[1] /\ Len(j.todo) \in Nat \ {0}
      BY <1>3, HeadTailProperties
    <2> HIDE DEF e, rest
    <2>2. DOMAIN rest = 1 .. Len(rest) /\ DOMAIN j.todo = 1 .. Len(j.todo)
      BY <1>3, <2>1
    <2>3. e \in InTodo(j)
      BY <2>1, <2>2 DEF InTodo
    <2>4. \A k \in DOMAIN rest : rest[k] \in InTodo(j)
      BY <2>1, <2>2 DEF InTodo
    <2>5. ASSUME NEW i \in DOMAIN j.todo, i # 1
          PROVE  \E k \in DOMAIN rest : j.todo[i] = rest[k]
      <3>1. i - 1 \in DOMAIN rest /\ rest[i - 1] = j.todo[i]
        BY <2>1, <2>2, <2>5
      <3>2. QED
        BY <3>1
    <2>6. \A f \in InTodo(j) : f = e \/ \E k \in DOMAIN rest : f = rest[k]
      BY <2>1, <2>5 DEF InTodo
    <2>7. QED
      BY <2>1, <2>3, <2>4, <2>6
  <1>5. e.type \in {"facts", "drift", "surfaced"} /\ Grounded(e, Seen)
    BY <1>3, <1>4 DEF Grounded
  <1> HIDE DEF e, rest
  <1>6. ASSUME NEW failed \in BOOLEAN, StoreInv', Grows,
               log' = log \/ log' = Append(log, e),
               NEW raised \in SUBSET {e}, raised \subseteq Seen',
               failed \/ (e.type = "surfaced" => e \in raised),
               Continues(r, [job[r] EXCEPT !.todo = Tail(@), !.error = @ \/ failed,
                                           !.cards = @ \cup raised])
        PROVE  OfficeInv'
    <2>1. PICK error, cards : error = (j.error \/ failed) /\ cards = j.cards \cup raised
      OBVIOUS
    <2> DEFINE a == [op |-> j.op, server |-> j.server, project |-> j.project,
             about |-> j.about, at |-> j.at, cards |-> cards, todo |-> rest,
             next |-> j.next, urgent |-> j.urgent, day |-> j.day, error |-> error]
    <2>2. ASSUME NEW t, t = [j EXCEPT !.todo = rest, !.error = error, !.cards = cards]
          PROVE  t = a
      BY <1>2, <2>2 DEF Job
    <2>3. Continues(r, a)
      <3>1. Continues(r, [j EXCEPT !.todo = rest, !.error = error, !.cards = cards])
        BY <1>1, <1>6, <2>1 DEF rest
      <3>2. QED
        BY <2>2, <3>1
    <2>4. a \in Job
      BY <1>2, <1>4, <1>6, <2>1 DEF Job
    <2>5. cards \subseteq Seen'
      BY <1>3, <1>6, <2>1 DEF Warned, Grows
    <2>6. InTodo(a) \subseteq InTodo(j) /\ InTodo(j) \subseteq InTodo(a) \cup {e}
      BY <1>4 DEF InTodo
    <2>7. Warned(a)'
      <3>1. CASE a.urgent /\ ~a.error
        <4>1. ~failed /\ j.urgent /\ ~j.error
          BY <2>1, <3>1
        <4>2. PICK c \in j.cards \cup InTodo(j) : Warns(c, j)
          BY <1>3, <4>1 DEF Warned
        <4>3. c \in a.cards \cup InTodo(a)
          BY <1>6, <2>1, <2>6, <4>1, <4>2 DEF Warns
        <4>4. Warns(c, a)
          BY <4>2 DEF Warns
        <4>5. QED
          BY <2>5, <4>3, <4>4 DEF Warned
      <3>2. QED
        BY <2>5, <3>1 DEF Warned
    <2>8. PICK n : /\ job' = [job EXCEPT ![r] = n]
                   /\ JobOK(n)' /\ n.op # "none" /\ n.server = j.server
      BY <1>3, <2>3, <2>4, <2>6, <2>7, ContinuesOK
    <2>9. QED
      BY <1>1, <1>2, <1>5, <1>6, <2>8, FieldMoves DEF PageInv
  <1>7. CASE /\ AppendReturns(e)
             /\ Continues(r, [job[r] EXCEPT !.todo = Tail(@), !.error = @ \/ FALSE,
                        !.cards = @ \cup {c \in {e} : c.type = "surfaced"}])
    <2>1. /\ StoreInv' /\ Grows /\ e \in Seen'
          /\ log' = log \/ log' = Append(log, e)
      BY <1>2, <1>4, <1>5, <1>7, ReturnKeeps
    <2> DEFINE raised == {c \in {e} : c.type = "surfaced"}
    <2>2. /\ raised \in SUBSET {e} /\ raised \subseteq Seen'
          /\ e.type = "surfaced" => e \in raised
          /\ Continues(r, [job[r] EXCEPT !.todo = Tail(@), !.error = @ \/ FALSE,
                                         !.cards = @ \cup raised])
      BY <1>7, <2>1
    <2> HIDE DEF raised
    <2>3. QED
      BY <1>6, <2>1, <2>2
  <1>8. CASE /\ AppendThrows(e)
             /\ Continues(r, [job[r] EXCEPT !.todo = Tail(@), !.error = @ \/ TRUE,
                                            !.cards = @ \cup {}])
    <2>1. StoreInv' /\ Grows /\ log' = log
      BY <1>2, <1>4, <1>8, ThrowKeeps
    <2>2. PICK raised : raised = {}
      OBVIOUS
    <2>3. /\ raised \in SUBSET {e} /\ raised \subseteq Seen'
          /\ Continues(r, [job[r] EXCEPT !.todo = Tail(@), !.error = @ \/ TRUE,
                                         !.cards = @ \cup raised])
      BY <1>8, <2>2
    <2>4. QED
      BY <1>6, <2>1, <2>3
  <1>9. QED
    BY <1>1, <1>7, <1>8 DEF AppendDerived, e

(* What a rebuild returns is what the file said of the project so far.     *)
LEMMA RebuiltIsBuilt ==
  ASSUME StoreInv, NEW p \in Projects, Rebuild(p, InOrder(Readable)) # NoPage
  PROVE  Built(p, Rebuild(p, InOrder(Readable)))
  <1> DEFINE lines == {l \in InOrder(Readable) : l[2].project = p}
  <1>1. Rebuild(p, InOrder(Readable)) = lines /\ Created(p, InOrder(Readable))
    BY DEF Rebuild
  <1>2. lines \subseteq Nat \X Event /\ \A l \in lines : l[2] \in Seen
    BY LinesSeen
  <1>3. Created(p, lines)
    BY <1>1 DEF Created
  <1>4. Sound(lines) = Sound(LinesUpTo(Len(log), p))
    <2>1. DOMAIN log = 1 .. Len(log) /\ DOMAIN log \subseteq DOMAIN Readable
      BY FileTyped, ReadersSeeTheSeen
    <2>2. ASSUME NEW i \in DOMAIN Readable, Readable[i] \notin hurt
          PROVE  i \in 1 .. Len(log) /\ Readable[i] = log[i]
      BY <2>1, <2>2, ReadersSeeTheSeen
    <2>3. Sound(lines) \subseteq Sound(LinesUpTo(Len(log), p))
      BY <2>2 DEF Sound, LinesUpTo, InOrder
    <2>4. Sound(LinesUpTo(Len(log), p)) \subseteq Sound(lines)
      BY <2>1, ReadersSeeTheSeen DEF Sound, LinesUpTo, InOrder
    <2>5. QED
      BY <2>3, <2>4
  <1>5. Len(log) \in 0 .. Len(log)
    BY FileTyped
  <1>6. QED
    BY <1>1, <1>2, <1>3, <1>4, <1>5 DEF Built

LEMMA Rereads ==
  ASSUME OfficeInv, NEW r \in FieldReqs, Reread(r), UNCHANGED sale
  PROVE  OfficeInv'
  <1>1. PICK j : j = job[r]
    OBVIOUS
  <1>2. PICK built : built = Rebuild(j.project, InOrder(Readable))
    OBVIOUS
  <1>3. /\ StoreInv /\ JobOK(j) /\ j \in Job /\ j.at = "reread" /\ PageInv
        /\ job \in [FieldReqs -> Job]
        /\ UNCHANGED <<page, clock, storeVars>>
    BY <1>1 DEF OfficeInv, JobInv, JobOK, Reread
  <1>4. /\ j.op # "none" /\ j.project \in Projects /\ j.todo = <<>>
        /\ InTodo(j) = {}
    BY <1>3 DEF JobOK, InTodo
  <1>5. StoreInv' /\ Grows /\ log' = log
    BY <1>3, FileStays
  <1>6. JobOK(j)'
    BY <1>3, <1>5, JobLasts
  <1>7. CASE Ends(r)
    <2>1. job' = [job EXCEPT ![r] = Answered(j)]
      BY <1>1, <1>3, <1>7 DEF Ends
    <2>2. Warned(j)'
      BY <1>6 DEF JobOK
    <2>3. QED
      BY <1>1, <1>3, <1>4, <1>5, <2>1, <2>2, AnsweredOK, FieldMoves DEF PageInv
  <1>8. CASE /\ built # NoPage
             /\ job' = [job EXCEPT ![r].at = "write", ![r].next = built]
    <2> DEFINE a == [op |-> j.op, server |-> j.server, project |-> j.project,
             about |-> j.about, at |-> "write", cards |-> j.cards, todo |-> j.todo,
             next |-> built, urgent |-> j.urgent, day |-> j.day, error |-> j.error]
    <2>1. job' = [job EXCEPT ![r] = a]
      <3>1. ASSUME NEW t, t = job'[r]
            PROVE  t = a
        BY <1>1, <1>3, <1>8, <3>1 DEF Job
      <3>2. \A q \in FieldReqs : q # r => job'[q] = job[q]
        BY <1>3, <1>8
      <3>3. QED
        BY <1>3, <1>8, <3>1, <3>2
    <2>2. Built(j.project, built)
      BY <1>2, <1>3, <1>4, <1>8, RebuiltIsBuilt
    <2>3. JobOK(a)
      <3>1. a \in Job
        BY <1>3, <2>2 DEF Job, Built
      <3>2. InTodo(a) = {} /\ Warned(a)
        BY <1>3, <1>4 DEF InTodo, Warned, JobOK, Warns
      <3>3. QED
        BY <1>4, <2>2, <3>1, <3>2 DEF JobOK
    <2>4. JobOK(a)'
      BY <1>3, <1>5, <2>3, JobLasts
    <2>5. QED
      BY <1>1, <1>3, <1>4, <1>5, <2>1, <2>4, FieldMoves DEF PageInv
  <1>9. QED
    BY <1>1, <1>2, <1>7, <1>8 DEF Reread

LEMMA ProjectionWritten ==
  ASSUME OfficeInv, NEW r \in FieldReqs, WriteProjection(r), UNCHANGED sale
  PROVE  OfficeInv'
  <1>1. PICK j : j = job[r]
    OBVIOUS
  <1>2. /\ StoreInv /\ JobOK(j) /\ j \in Job /\ j.at = "write" /\ PageInv
        /\ job \in [FieldReqs -> Job] /\ Ends(r)
        /\ page' = [page EXCEPT ![j.project] = j.next]
        /\ UNCHANGED <<clock, storeVars>>
    BY <1>1 DEF OfficeInv, JobInv, JobOK, WriteProjection
  <1>3. /\ j.op # "none" /\ j.project \in Projects /\ j.todo = <<>>
        /\ Built(j.project, j.next)
    BY <1>2 DEF JobOK
  <1>4. StoreInv' /\ Grows /\ log' = log
    BY <1>2, FileStays
  <1>5. Warned(j)'
    BY <1>2, <1>4, JobLasts DEF JobOK
  <1>6. job' = [job EXCEPT ![r] = Answered(j)]
    BY <1>1, <1>2 DEF Ends
  <1>7. /\ page' \in [Projects -> SUBSET (Nat \X Event)]
        /\ \A p \in Projects : page'[p] = page[p] \/ Built(p, page'[p])
    BY <1>2, <1>3 DEF PageInv, Built
  <1>8. QED
    BY <1>1, <1>2, <1>3, <1>4, <1>5, <1>6, <1>7, AnsweredOK, FieldMoves

LEMMA DayPasses ==
  ASSUME OfficeInv, Tomorrow, UNCHANGED sale
  PROVE  OfficeInv'
  <1>1. /\ UNCHANGED <<job, page, sale, storeVars>>
        /\ clock' = clock + 1 /\ clock < MaxClock
    BY DEF Tomorrow
  <1>2. clock' \in 0 .. MaxClock
    BY <1>1, FieldAssumption DEF OfficeInv
  <1>3. StoreInv' /\ Grows /\ log' = log
    BY <1>1, FileStays DEF OfficeInv
  <1>4. Stable
    BY <1>1 DEF Stable
  <1>5. QED
    BY <1>1, <1>2, <1>3, <1>4, OfficeKept DEF OfficeInv, JobInv, PageInv, SaleInv

-----------------------------------------------------------------------------
(* The requests of proposal sending.                                       *)

StoppedRecord ==
  [op |-> "any", proposal |-> "none", quoted |-> NoReq, at |-> "over"]

LEMMA StoppedSaleOK ==
  ASSUME NEW r, NEW events
  PROVE  StoppedSale = StoppedRecord /\ SaleOK(r, StoppedSale, events)
  <1>1. ASSUME NEW t, t = StoppedSale
        PROVE  t = StoppedRecord
    BY <1>1 DEF StoppedSale, NoSale, StoppedRecord
  <1>2. StoppedSale = StoppedRecord
    BY <1>1
  <1>3. StoppedRecord \in Sale
    BY DEF StoppedRecord, Sale, SaleOver
  <1>4. SaleOK(r, StoppedRecord, events)
    BY <1>3 DEF SaleOK, StoppedRecord
  <1>5. QED
    BY <1>2, <1>4

SaleAt(s, place) ==
  [op |-> s.op, proposal |-> s.proposal, quoted |-> s.quoted, at |-> place]

(* One append of a send; what the send will rest on from then on counts    *)
(* the event among what was seen.                                          *)
LEMMA SaleAppends ==
  ASSUME OfficeInv, NEW r \in SaleReqs, NEW s \in Sale, s.proposal \in Proposals,
         NEW type \in {"gate", "overridden", "classified", "sent"},
         NEW cites \in {NoReq} \cup AllReqs,
         NEW next \in {"over", "classify", "gate", "send"},
         Appends(r, s, type, cites, next), UNCHANGED fieldVars,
         NEW e, e = New(type, r, ProposalProject[s.proposal], s.proposal, cites, 0),
         Grounded(e, Seen),
         next # "over" => SaleOK(r, SaleAt(s, next), Seen \cup {e})
  PROVE  OfficeInv'
  <1> DEFINE a == SaleAt(s, next)
  <1>1. /\ StoreInv /\ sale \in [SaleReqs -> Sale]
        /\ e.type = type /\ e.by = r
    BY DEF OfficeInv, SaleInv, New
  <1>2. e \in Event
    <2>1. ProposalProject[s.proposal] \in Projects /\ 0 \in 0 .. MaxClock
      BY OfficeAssumption, FieldAssumption
    <2>2. QED
      BY <2>1 DEF New, Event, AllReqs
  <1>3. ASSUME NEW t, t = [s EXCEPT !.at = next]
        PROVE  t = a
    BY <1>3 DEF Sale, SaleAt
  <1>4. CASE AppendThrows(e) /\ sale' = [sale EXCEPT ![r] = StoppedSale]
    <2>1. StoreInv' /\ Grows /\ log' = log
      BY <1>1, <1>2, <1>4, ThrowKeeps
    <2>2. QED
      BY <1>4, <2>1, StoppedSaleOK, SaleMoves
  <1>5. CASE /\ AppendReturns(e)
             /\ sale' = [sale EXCEPT ![r] = IF next = "over" THEN StoppedSale
                                            ELSE [s EXCEPT !.at = next]]
    <2>1. /\ StoreInv' /\ Grows /\ e \in Seen'
          /\ log' = log \/ log' = Append(log, e)
      BY <1>1, <1>2, <1>5, ReturnKeeps
    <2>2. CASE next = "over"
      <3>1. sale' = [sale EXCEPT ![r] = StoppedSale]
        BY <1>5, <2>2
      <3>2. QED
        BY <2>1, <3>1, StoppedSaleOK, SaleMoves
    <2>3. CASE next # "over"
      <3>1. sale' = [sale EXCEPT ![r] = a]
        BY <1>3, <1>5, <2>3
      <3>2. Seen \cup {e} \subseteq Seen'
        BY <2>1 DEF Grows
      <3>3. SaleOK(r, a, Seen')
        BY <2>3, <3>2, SaleLasts
      <3>4. QED
        BY <2>1, <3>1, <3>3, SaleMoves
    <2>4. QED
      BY <2>2, <2>3
  <1>6. QED
    BY <1>4, <1>5 DEF Appends

LEMMA QuotedIsSeen ==
  ASSUME StoreInv, NEW p, NEW quoted \in Quotable(p)
  PROVE  /\ quoted \in {NoReq} \cup SaleReqs
         /\ quoted # NoReq => On("gate", quoted, p, Seen)
  BY DEF StoreInv, Quotable, On

LEMMA GatePosted ==
  ASSUME OfficeInv, NEW r \in SaleReqs, NEW p \in Proposals, PostGate(r, p),
         UNCHANGED fieldVars
  PROVE  OfficeInv'
  <1> DEFINE s == Arriving("gate", p, NoReq)
             e == New("gate", r, ProposalProject[s.proposal], s.proposal, NoReq, 0)
  <1>1. s \in Sale /\ s.proposal \in Proposals
    BY DEF Arriving, Sale, SaleOver
  <1>2. Grounded(e, Seen)
    BY DEF New, Grounded
  <1>3. Appends(r, s, "gate", NoReq, "over")
    BY DEF PostGate
  <1> HIDE DEF s
  <1>4. QED
    BY <1>1, <1>2, <1>3, SaleAppends

LEMMA SendPosted ==
  ASSUME OfficeInv, NEW r \in SaleReqs, NEW p \in Proposals, PostSend(r, p),
         UNCHANGED fieldVars
  PROVE  OfficeInv'
  <1>1. PICK quoted \in Quotable(p) :
          Appends(r, Arriving("send", p, quoted), "gate", NoReq, "send")
    BY DEF PostSend
  <1>2. /\ quoted \in {NoReq} \cup SaleReqs
        /\ quoted # NoReq => On("gate", quoted, p, Seen)
    BY QuotedIsSeen DEF OfficeInv
  <1> DEFINE s == Arriving("send", p, quoted)
             e == New("gate", r, ProposalProject[s.proposal], s.proposal, NoReq, 0)
  <1>3. s \in Sale /\ s.proposal = p /\ s.quoted = quoted /\ s.op = "send"
    BY <1>2 DEF Arriving, Sale, SaleOver
  <1>4. Grounded(e, Seen) /\ e.type = "gate" /\ e.by = r /\ e.about = p
    BY <1>3 DEF New, Grounded
  <1>5. Appends(r, s, "gate", NoReq, "send")
    BY <1>1
  <1> HIDE DEF s, e
  <1> DEFINE a == SaleAt(s, "send")
  <1>6. SaleOK(r, a, Seen \cup {e})
    <2>1. a \in Sale
      BY <1>3 DEF Sale, SaleAt
    <2>2. GatePasses(p)
      BY DEF PostSend
    <2>3. On("gate", r, p, Seen \cup {e})
      BY <1>4 DEF On
    <2>4. quoted # NoReq => On("gate", quoted, p, Seen \cup {e})
      BY <1>2 DEF On
    <2>5. QED
      BY <1>3, <2>1, <2>2, <2>3, <2>4 DEF SaleOK, SaleAt
  <1>7. e = New("gate", r, ProposalProject[s.proposal], s.proposal, NoReq, 0)
    BY DEF e
  <1>8. s \in Sale /\ s.proposal \in Proposals /\ Grounded(e, Seen)
    BY <1>3, <1>4
  <1>9. QED
    BY <1>5, <1>6, <1>7, <1>8, SaleAppends

LEMMA OverridePosted ==
  ASSUME OfficeInv, NEW r \in SaleReqs, NEW p \in Proposals, PostOverride(r, p),
         UNCHANGED fieldVars
  PROVE  OfficeInv'
  <1>1. PICK quoted \in Quotable(p) :
          Appends(r, Arriving("send", p, quoted), "overridden", NoReq, "classify")
    BY DEF PostOverride
  <1>2. /\ quoted \in {NoReq} \cup SaleReqs
        /\ quoted # NoReq => On("gate", quoted, p, Seen)
    BY QuotedIsSeen DEF OfficeInv
  <1> DEFINE s == Arriving("send", p, quoted)
             e == New("overridden", r, ProposalProject[s.proposal], s.proposal, NoReq, 0)
  <1>3. s \in Sale /\ s.proposal = p /\ s.quoted = quoted /\ s.op = "send"
    BY <1>2 DEF Arriving, Sale, SaleOver
  <1>4. Grounded(e, Seen) /\ e.type = "overridden" /\ e.by = r /\ e.about = p
    BY <1>3 DEF New, Grounded
  <1>5. Appends(r, s, "overridden", NoReq, "classify")
    BY <1>1
  <1> HIDE DEF s, e
  <1> DEFINE a == SaleAt(s, "classify")
  <1>6. SaleOK(r, a, Seen \cup {e})
    <2>1. a \in Sale
      BY <1>3 DEF Sale, SaleAt
    <2>2. On("overridden", r, p, Seen \cup {e})
      BY <1>4 DEF On
    <2>3. quoted # NoReq => On("gate", quoted, p, Seen \cup {e})
      BY <1>2 DEF On
    <2>4. QED
      BY <1>3, <2>1, <2>2, <2>3 DEF SaleOK, SaleAt
  <1>7. e = New("overridden", r, ProposalProject[s.proposal], s.proposal, NoReq, 0)
    BY DEF e
  <1>8. QED
    BY <1>3, <1>4, <1>5, <1>6, <1>7, SaleAppends

LEMMA ClassifiedAppended ==
  ASSUME OfficeInv, NEW r \in SaleReqs, AppendClassified(r), UNCHANGED fieldVars
  PROVE  OfficeInv'
  <1>1. PICK s : s = sale[r]
    OBVIOUS
  <1> DEFINE e == New("classified", r, ProposalProject[s.proposal], s.proposal, r, 0)
             a == SaleAt(s, "gate")
  <1>2. /\ SaleOK(r, s, Seen) /\ s \in Sale /\ s.at = "classify"
        /\ Appends(r, s, "classified", r, "gate")
    BY <1>1 DEF OfficeInv, SaleInv, SaleOK, AppendClassified
  <1>3. SaleOK(r, s, Seen \cup {e}) /\ s.proposal \in Proposals
    BY <1>2, SaleLasts DEF SaleOK
  <1>4. Grounded(e, Seen) /\ e.type = "classified" /\ e.by = r /\ e.about = s.proposal
    BY DEF New, Grounded
  <1> HIDE DEF e
  <1>5. SaleOK(r, a, Seen \cup {e})
    <2>1. a \in Sale
      BY <1>2 DEF Sale, SaleAt
    <2>2. Overridden(r, s.proposal, Seen \cup {e})
      BY <1>2, <1>3, <1>4 DEF SaleOK, Overridden, On
    <2>3. QED
      BY <1>2, <1>3, <2>1, <2>2 DEF SaleOK, SaleAt
  <1>6. QED
    BY <1>2, <1>3, <1>4, <1>5, SaleAppends DEF e, AllReqs

LEMMA GateAppended ==
  ASSUME OfficeInv, NEW r \in SaleReqs, AppendGate(r), UNCHANGED fieldVars
  PROVE  OfficeInv'
  <1>1. PICK s : s = sale[r]
    OBVIOUS
  <1> DEFINE e == New("gate", r, ProposalProject[s.proposal], s.proposal, NoReq, 0)
             a == SaleAt(s, "send")
  <1>2. /\ SaleOK(r, s, Seen) /\ s \in Sale /\ s.at = "gate"
        /\ Appends(r, s, "gate", NoReq, "send")
    BY <1>1 DEF OfficeInv, SaleInv, SaleOK, AppendGate
  <1>3. SaleOK(r, s, Seen \cup {e}) /\ s.proposal \in Proposals
    BY <1>2, SaleLasts DEF SaleOK
  <1>4. Grounded(e, Seen) /\ e.type = "gate" /\ e.by = r /\ e.about = s.proposal
    BY DEF New, Grounded
  <1> HIDE DEF e
  <1>5. SaleOK(r, a, Seen \cup {e})
    <2>1. a \in Sale
      BY <1>2 DEF Sale, SaleAt
    <2>2. On("gate", r, s.proposal, Seen \cup {e})
      BY <1>4 DEF On
    <2>3. QED
      BY <1>2, <1>3, <2>1, <2>2 DEF SaleOK, SaleAt
  <1>6. QED
    BY <1>2, <1>3, <1>4, <1>5, SaleAppends DEF e

LEMMA SentAppended ==
  ASSUME OfficeInv, NEW r \in SaleReqs, AppendSent(r), UNCHANGED fieldVars
  PROVE  OfficeInv'
  <1>1. PICK s : s = sale[r]
    OBVIOUS
  <1>2. PICK cites : cites = IF s.quoted = NoReq THEN r ELSE s.quoted
    OBVIOUS
  <1> DEFINE e == New("sent", r, ProposalProject[s.proposal], s.proposal, cites, 0)
  <1>3. /\ SaleOK(r, s, Seen) /\ s \in Sale /\ s.at = "send"
        /\ Appends(r, s, "sent", cites, "over")
    BY <1>1, <1>2 DEF OfficeInv, SaleInv, SaleOK, AppendSent
  <1>4. /\ s.proposal \in Proposals /\ cites \in {NoReq} \cup AllReqs
        /\ On("gate", cites, s.proposal, Seen)
        /\ GatePasses(s.proposal) \/ Overridden(r, s.proposal, Seen)
    BY <1>2, <1>3 DEF SaleOK, Sale, AllReqs
  <1>5. Grounded(e, Seen)
    BY <1>4 DEF New, Grounded
  <1>6. QED
    BY <1>3, <1>4, <1>5, SaleAppends

-----------------------------------------------------------------------------
(* A server dies: what its requests held is forgotten, the files stay.     *)
LEMMA Crashes ==
  ASSUME OfficeInv, NEW server \in Servers, Crash(server)
  PROVE  OfficeInv'
  <1>1. /\ DropJobs(server)
        /\ DropSales \/ UNCHANGED sale
        /\ UNCHANGED <<page, clock, storeVars>>
    BY DEF Crash
  <1>2. /\ StoreInv /\ PageInv /\ clock \in 0 .. MaxClock
        /\ job \in [FieldReqs -> Job] /\ sale \in [SaleReqs -> Sale]
    BY DEF OfficeInv, JobInv, SaleInv
  <1>3. StoreInv' /\ Grows /\ log' = log
    BY <1>1, <1>2, FileStays
  <1>4. \A r \in FieldReqs :
          job'[r] = job[r] \/ (job'[r] = Stopped(server) /\ job[r].server = server)
    BY <1>1 DEF DropJobs
  <1>5. Stopped(server) \in Job /\ Stopped(server).server = server
        /\ Stopped(server).op # "none" /\ JobOK(Stopped(server))'
    BY StoppedOK DEF JobOK
  <1>6. job' \in [FieldReqs -> Job]
    BY <1>1, <1>2, <1>5 DEF DropJobs
  <1>7. Stable
    BY <1>4, <1>5 DEF Stable
  <1>8. \A r \in FieldReqs : job'[r] = job[r] \/ JobOK(job[r])'
    BY <1>4, <1>5
  <1>9. \A r \in SaleReqs : sale'[r] = sale[r] \/ sale'[r] = StoppedSale
    BY <1>1 DEF DropSales
  <1>10. sale' \in [SaleReqs -> Sale]
    <2>1. StoppedSale \in Sale
      BY StoppedSaleOK DEF SaleOK
    <2>2. QED
      BY <1>1, <1>2, <2>1 DEF DropSales
  <1>11. \A r \in SaleReqs : sale'[r] = sale[r] \/ SaleOK(r, sale[r], Seen)'
    BY <1>9, StoppedSaleOK
  <1>12. QED
    BY <1>1, <1>2, <1>3, <1>6, <1>7, <1>8, <1>10, <1>11, OfficeKept DEF PageInv

LEMMA Begins ==
  ASSUME Init
  PROVE  OfficeInv
  <1> USE DEF Init, StoreInit, FieldInit, SendInit
  <1>1. StoreInv
    <2>1. IsFiniteSet(hurt) /\ Cardinality(hurt) = 0
      BY FS_EmptySet
    <2>2. log \in Seq(Event) /\ tail \in Seq(Event) /\ Events(tail) = {}
      BY DEF Events
    <2>3. tears \in 0 .. MaxTears
      BY StoreAssumption
    <2>4. open = FALSE /\ tail = <<>> /\ acked = {} /\ hurt = {} /\ tears = 0
      OBVIOUS
    <2> HIDE DEF Init, StoreInit, FieldInit, SendInit
    <2>5. QED
      <3>1. Cardinality(hurt) <= 2 * tears /\ IsFiniteSet(hurt) /\ ~open
        BY <2>1, <2>4
      <3>2. acked \subseteq Event /\ hurt \subseteq Event /\ acked \subseteq Seen
        BY <2>4
      <3>3. Events(tail) \subseteq hurt /\ \A e \in acked : e.type = "gate" => e.by \in SaleReqs
        BY <2>2, <2>4
      <3>4. QED
        BY <2>2, <2>3, <2>4, <3>1, <3>2, <3>3 DEF StoreInv
  <1>2. LogInv
    BY DEF LogInv
  <1>3. JobInv
    <2>1. Unused \in Job
      BY FieldAssumption DEF Unused, Job, Over, Servers, NoPage
    <2>2. InTodo(Unused) = {} /\ Warned(Unused)
      BY DEF InTodo, Warned, Unused
    <2>3. JobOK(Unused)
      BY <2>1, <2>2 DEF JobOK, Unused
    <2>4. QED
      BY <2>1, <2>3 DEF JobInv
  <1>4. PageInv
    BY DEF PageInv, NoPage
  <1>5. SaleInv
    <2>1. NoSale \in Sale
      BY DEF NoSale, Sale, SaleOver
    <2>2. \A r : SaleOK(r, NoSale, Seen)
      BY <2>1 DEF SaleOK, NoSale
    <2>3. QED
      BY <2>1, <2>2 DEF SaleInv
  <1>6. clock \in 0 .. MaxClock
    BY FieldAssumption
  <1>7. QED
    BY <1>1, <1>2, <1>3, <1>4, <1>5, <1>6 DEF OfficeInv

LEMMA Rests ==
  ASSUME OfficeInv, UNCHANGED vars
  PROVE  OfficeInv'
  <1>1. UNCHANGED <<job, page, clock, sale, storeVars>>
    BY DEF vars, fieldVars
  <1>2. StoreInv' /\ Grows /\ log' = log
    BY <1>1, FileStays DEF OfficeInv
  <1>3. Stable
    BY <1>1 DEF Stable
  <1>4. QED
    BY <1>1, <1>2, <1>3, OfficeKept DEF OfficeInv, JobInv, PageInv, SaleInv

LEMMA Steps ==
  ASSUME OfficeInv, Next
  PROVE  OfficeInv'
  <1>1. ASSUME NEW r \in FieldReqs, FieldArrives(r) \/ FieldStep(r), UNCHANGED sale
        PROVE  OfficeInv'
    BY <1>1, Arrivals, RecordedAppended, HistoryRead, Orchestrated, DerivedAppended,
       Rereads, ProjectionWritten DEF FieldStep
  <1>2. CASE FieldActs
    BY <1>1, <1>2, DayPasses DEF FieldActs, FieldNext
  <1>3. CASE SaleActs
    BY <1>3, GatePosted, SendPosted, OverridePosted, ClassifiedAppended, GateAppended,
       SentAppended DEF SaleActs, SendNext
  <1>4. ASSUME NEW server \in Servers, Crash(server)
        PROVE  OfficeInv'
    BY <1>4, Crashes
  <1>5. QED
    BY <1>2, <1>3, <1>4 DEF Next

LEMMA OfficeInvariant == Spec => []OfficeInv
  <1>1. OfficeInv /\ [Next]_vars => OfficeInv'
    BY Steps, Rests
  <1>2. QED
    BY Begins, <1>1, PTL DEF Spec

-----------------------------------------------------------------------------
(* File, projections, requests and clock hold what the model says they     *)
(* hold.                                                                   *)
THEOREM OfficeTypesHold == Spec => []TypeOK
  <1>1. OfficeInv => TypeOK
    BY DEF OfficeInv, StoreInv, JobInv, PageInv, SaleInv, Sale, TypeOK
  <1>2. QED
    BY <1>1, OfficeInvariant, PTL

(* However many appends are torn, an event whose append returned is read,  *)
(* or was torn or put onto a torn line, and there are at most two of those *)
(* to a torn append.                                                       *)
THEOREM TearsStayContained == Spec => []TearsAreContained
  <1>1. OfficeInv => TearsAreContained
    BY ReadersSeeTheSeen DEF OfficeInv, StoreInv, Seen, TearsAreContained
  <1>2. QED
    BY <1>1, OfficeInvariant, PTL

(* No append, torn or whole, and no crash takes an event out of its place  *)
(* in the file (eventStore.ts, "append-only").                             *)
THEOREM FileOnlyGrows == Spec => [][Grows]_vars
  <1>1. ASSUME OfficeInv, [Next]_vars
        PROVE  Grows
    <2>1. StoreInv
      BY <1>1 DEF OfficeInv
    <2>2. ASSUME NEW e, AppendReturns(e) \/ AppendThrows(e)
          PROVE  Grows
      <3>1. Len(log) \in Nat /\ log \in Seq(Event \cup {e})
        BY <2>1 DEF StoreInv
      <3>2. CASE log' = log /\ hurt' \in {hurt, hurt \cup {e}}
        BY <3>1, <3>2 DEF Grows, Seen
      <3>3. CASE log' = Append(log, e) /\ hurt' = hurt
        <4>1. Len(log') = Len(log) + 1 /\ \A i \in 1 .. Len(log) : log'[i] = log[i]
          BY <3>1, <3>3, AppendProperties
        <4>2. DOMAIN log = 1 .. Len(log) /\ DOMAIN log' = 1 .. Len(log')
          BY <3>1, <3>3
        <4>3. Events(log) \subseteq Events(log')
          BY <3>1, <4>1, <4>2 DEF Events
        <4>4. QED
          BY <3>1, <3>3, <4>1, <4>3 DEF Grows, Seen
      <3>4. QED
        BY <2>2, <3>2, <3>3
           DEF AppendReturns, AppendThrows, AppendRefused, AppendTears, storeVars
    <2>3. ASSUME UNCHANGED storeVars
          PROVE  Grows
      BY <2>1, <2>3, FileStays
    <2>4. ASSUME NEW r \in FieldReqs, FieldArrives(r) \/ FieldStep(r)
          PROVE  Grows
      BY <2>2, <2>3, <2>4
         DEF FieldArrives, FieldStep, PostProject, PostCapture, PostEntry, PostReview,
             GetProject, Starts, AppendRecorded, ReadHistory, Orchestrate, AppendDerived,
             Reread, WriteProjection
    <2>5. ASSUME NEW r \in SaleReqs,
                 \/ \E p \in Proposals : PostGate(r, p) \/ PostSend(r, p) \/ PostOverride(r, p)
                 \/ AppendClassified(r) \/ AppendGate(r) \/ AppendSent(r)
          PROVE  Grows
      <3>1. ASSUME NEW s, NEW type, NEW cites, NEW next, Appends(r, s, type, cites, next)
            PROVE  Grows
        BY <2>2, <3>1 DEF Appends
      <3>2. QED
        BY <2>5, <3>1 DEF PostGate, PostSend, PostOverride, AppendClassified, AppendGate,
                          AppendSent
    <2>6. QED
      BY <1>1, <2>3, <2>4, <2>5
         DEF Next, FieldActs, FieldNext, Tomorrow, SaleActs, SendNext, Crash, vars
  <1>2. QED
    BY <1>1, OfficeInvariant, PTL DEF Spec

(* No interleaving, stale projection, torn line or crash files an entry or *)
(* a capture under a project nobody created.                               *)
THEOREM EntriesAreFiled == Spec => []EntryHasProject
  <1>1. OfficeInv => EntryHasProject
    BY DEF OfficeInv, LogInv, Grounded, FiledBy, CreatedAmong, EntryHasProject
  <1>2. QED
    BY <1>1, OfficeInvariant, PTL

(* An urgent drift answered without an error has its card of the last 24   *)
(* hours in the file; or a torn line took the very card its request was    *)
(* told it appended, or one it had read.                                   *)
THEOREM WarningsAreSeen == Spec => []NoWarningUnseen
  <1>1. ASSUME OfficeInv
        PROVE  NoWarningUnseen
    <2> SUFFICES ASSUME NEW r \in Urgent
                 PROVE  \/ \E e \in Events(Readable) : Warns(e, job[r])
                        \/ \E e \in job[r].cards \cap hurt : Warns(e, job[r])
      BY DEF NoWarningUnseen
    <2>1. Warned(job[r]) /\ job[r].todo = <<>> /\ job[r].urgent /\ ~job[r].error
      BY <1>1 DEF OfficeInv, JobInv, JobOK, Urgent
    <2>2. InTodo(job[r]) = {}
      BY <2>1 DEF InTodo
    <2>3. PICK e \in job[r].cards : e \in Seen /\ Warns(e, job[r])
      BY <2>1, <2>2 DEF Warned
    <2>4. e \in Events(Readable) \/ e \in hurt
      BY <1>1, <2>3, ReadersSeeTheSeen DEF OfficeInv, Seen
    <2>5. QED
      BY <2>3, <2>4
  <1>2. QED
    BY <1>1, OfficeInvariant, PTL

(* The same without an exemption, of the time before the first torn append.*)
WarningsAreReadable ==
  \A r \in Urgent : \E e \in Events(Readable) : Warns(e, job[r])

(* While no append has stopped part way, every urgent drift that was       *)
(* answered without an error has a card in the file, where the office reads*)
(* it: torn lines are all that takes one.                                  *)
THEOREM UntornWarningsAreRead == Spec => [](tears = 0 => WarningsAreReadable)
  <1>1. ASSUME OfficeInv, NoWarningUnseen, tears = 0
        PROVE  WarningsAreReadable
    <2>1. IsFiniteSet(hurt) /\ Cardinality(hurt) <= 2 * 0
      BY <1>1 DEF OfficeInv, StoreInv
    <2>2. Cardinality(hurt) = 0
      BY <2>1, FS_CardinalityType
    <2>3. hurt = {}
      BY <2>1, <2>2, FS_EmptySet
    <2>4. QED
      BY <1>1, <2>3 DEF NoWarningUnseen, WarningsAreReadable
  <1>2. QED
    BY <1>1, OfficeInvariant, WarningsAreSeen, PTL

(* A review stands after its card and in the card's project.               *)
THEOREM ReviewsHaveCards == Spec => []ReviewedWasSurfaced
  <1>1. OfficeInv => ReviewedWasSurfaced
    BY DEF OfficeInv, LogInv, Grounded, CardAmong, ReviewedWasSurfaced
  <1>2. QED
    BY <1>1, OfficeInvariant, PTL

(* Overlapping rebuilds may leave an older projection, never a mixture.    *)
THEOREM ProjectionsArePast == Spec => []ProjectionIsPast
  <1>1. OfficeInv => ProjectionIsPast
    BY DEF OfficeInv, PageInv, Built, ProjectionIsPast
  <1>2. QED
    BY <1>1, OfficeInvariant, PTL

(* A proposal.sent was written after its audit chain, through torn appends, *)
(* crashes and quoted evaluations; a torn line may have cost a part of it.  *)
THEOREM SendsAreGated == Spec => []SentIsGated
  <1>1. OfficeInv => SentIsGated
    BY DEF OfficeInv, LogInv, Grounded, Overridden, SentIsGated
  <1>2. QED
    BY <1>1, OfficeInvariant, PTL
=============================================================================
