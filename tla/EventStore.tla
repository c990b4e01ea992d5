------------------------------ MODULE EventStore ------------------------------
(***************************************************************************)
(* The JSONL file both servers append events to                            *)
(* (src/src/persistence/eventStore.ts).  An append is one appendFile of    *)
(* one line.  It succeeds, or it throws with nothing written, or it throws *)
(* (or the process dies) part way: then the file ends in a line without    *)
(* its newline, which may or may not be complete JSON, and the next append *)
(* continues that line.  A line that is not one valid event is skipped by  *)
(* every reader, so such an append is answered like any other and its      *)
(* event is never read.                                                    *)
(***************************************************************************)
EXTENDS Naturals, Sequences, FiniteSets

CONSTANT MaxTears   \* bound: how many appends stop part way

ASSUME StoreAssumption == MaxTears \in Nat

VARIABLES log,      \* the valid lines of the file, in file order
          open,     \* the file ends in a line without its newline
          tail,     \* that line as readers see it: one event, or nothing
          tears,    \* history: appends that stopped part way
          acked,    \* history: events whose append returned
          hurt      \* history: events torn, or on one line with a torn one

storeVars == <<log, open, tail, tears, acked, hurt>>

NoReq == "no request"

\* What an event's readers look at: its type, the request that appended it
\* (event ids are unique and a request appends one event of a type at most),
\* the correlation_id, what the event is about, and the request whose event
\* it refers to; and of a relay card when it was raised.
New(type, by, project, about, cites, at) ==
  [type |-> type, by |-> by, project |-> project,
   about |-> about, cites |-> cites, at |-> at]

StoreInit ==
  /\ log = <<>>
  /\ open = FALSE
  /\ tail = <<>>
  /\ tears = 0
  /\ acked = {}
  /\ hurt = {}

\* readAll: the valid lines, the unfinished last one included when it parses.
Readable == log \o tail

Events(seq) == {seq[i] : i \in DOMAIN seq}

\* Events as a reader gets them: in file order, which their places keep.
InOrder(seq) == {<<i, seq[i]>> : i \in DOMAIN seq}

\* readByCorrelation.
ReadProject(p) == {l \in InOrder(Readable) : l[2].project = p}

\* writeFile in the place of appendFile.
AppendOverwrites(e) ==
  /\ acked' = acked \cup {e}
  /\ log' = <<e>>
  /\ open' = FALSE
  /\ tail' = <<>>
  /\ UNCHANGED <<tears, hurt>>

\* append returns: the line is whole, or it closes the line left unfinished,
\* which is then no event at all.
AppendReturns(e) ==
  /\ acked' = acked \cup {e}
  /\ \/ /\ ~open
        /\ log' = Append(log, e)
        /\ UNCHANGED <<open, tail, hurt>>
     \/ /\ open
        /\ open' = FALSE
        /\ tail' = <<>>
        /\ hurt' = hurt \cup {e}
        /\ log' = log
  /\ UNCHANGED tears

\* append throws and nothing was written.
AppendRefused == UNCHANGED storeVars

\* append throws and a part of the line was written, whole or not.
AppendTears(e) ==
  /\ tears < MaxTears
  /\ tears' = tears + 1
  /\ open' = TRUE
  /\ tail' \in IF open THEN {<<>>} ELSE {<<>>, <<e>>}
  /\ hurt' = hurt \cup {e}
  /\ UNCHANGED <<log, acked>>

AppendThrows(e) == AppendRefused \/ AppendTears(e)

-----------------------------------------------------------------------------
\* The events that stand before place i, or were lost.  "Lost" is the part of
\* an unfinished line: an event readers saw there may be gone later, with the
\* one appended to it.
Earlier(i) == {log[k] : k \in 1 .. i - 1} \cup hurt

\* An event whose append returned is read ever after, unless it went onto an
\* unfinished line; and a torn append costs at most the torn event and the
\* next one ("the rest of the file is preserved", eventStore.ts:30-32).
TearsAreContained ==
  /\ acked \subseteq Events(Readable) \cup hurt
  /\ Cardinality(hurt) <= 2 * tears

=============================================================================
