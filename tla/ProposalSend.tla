----------------------------- MODULE ProposalSend -----------------------------
(***************************************************************************)
(* Evaluating a proposal's send gate and sending it                        *)
(* (src/src/api/routes/proposals.ts): one event for an evaluation, two or  *)
(* four for a send, appended one at a time to the file of EventStore.      *)
(***************************************************************************)
EXTENDS EventStore

CONSTANTS SaleReqs,          \* requests; each is used once, which bounds the log
          Proposals,
          PassingProposals,  \* those that pass all six checks of the gate
          ProposalProject    \* the project each proposal is for

ASSUME SaleAssumption ==
  /\ PassingProposals \subseteq Proposals
  /\ NoReq \notin SaleReqs

VARIABLE sale    \* per request: its operation and how far it is

NoSale == [op |-> "none", proposal |-> "none", quoted |-> NoReq, at |-> "idle"]

SendInit == sale = [r \in SaleReqs |-> NoSale]

\* evaluateSendGate: proposals are fixtures, so the answer never changes.
GatePasses(p) == p \in PassingProposals

-----------------------------------------------------------------------------
(* Each action is one append; what a request does before its first append   *)
(* reads no file.                                                           *)

\* Answered, failed or dead: the request takes no further step.
StoppedSale == [NoSale EXCEPT !.op = "any", !.at = "over"]

\* Request r, whose state is s, appends one event and goes on, or fails.
Appends(r, s, type, cites, next) ==
  LET e == New(type, r, ProposalProject[s.proposal], s.proposal, cites, 0)
  IN  \/ /\ AppendReturns(e)
         /\ sale' = [sale EXCEPT ![r] =
                       IF next = "over" THEN StoppedSale
                       ELSE [s EXCEPT !.at = next]]
      \/ /\ AppendThrows(e)
         /\ sale' = [sale EXCEPT ![r] = StoppedSale]

Arriving(op, p, quoted) ==
  [op |-> op, proposal |-> p, quoted |-> quoted, at |-> "idle"]

\* POST send-gate: every load of the page evaluates the gate again.
PostGate(r, p) ==
  /\ sale[r].op = "none"
  /\ Appends(r, Arriving("gate", p, NoReq), "gate", NoReq, "over")

\* What a client that sends p may quote: an evaluation of p it was answered,
\* or none, and then the send's own evaluation is quoted.
Quotable(p) == {NoReq} \cup {e.by : e \in {a \in acked : a.type = "gate" /\ a.about = p}}

\* POST send of a proposal that passes the gate.
PostSend(r, p) ==
  /\ sale[r].op = "none"
  /\ GatePasses(p)
  /\ \E quoted \in Quotable(p) :
       Appends(r, Arriving("send", p, quoted), "gate", NoReq, "send")

\* The send that overrides without the classification.
OverrideUnclassified(r, p) ==
  /\ sale[r].op = "none"
  /\ ~GatePasses(p)
  /\ \E quoted \in Quotable(p) :
       Appends(r, Arriving("send", p, quoted), "overridden", NoReq, "gate")

\* POST send of one that does not, with a reason (without one it is refused);
\* override_eligible is not asked.
PostOverride(r, p) ==
  /\ sale[r].op = "none"
  /\ ~GatePasses(p)
  /\ \E quoted \in Quotable(p) :
       Appends(r, Arriving("send", p, quoted), "overridden", NoReq, "classify")

AppendClassified(r) ==
  /\ sale[r].at = "classify"
  /\ Appends(r, sale[r], "classified", r, "gate")

AppendGate(r) ==
  /\ sale[r].at = "gate"
  /\ Appends(r, sale[r], "gate", NoReq, "send")

AppendSent(r) ==
  /\ sale[r].at = "send"
  /\ Appends(r, sale[r], "sent",
             IF sale[r].quoted = NoReq THEN r ELSE sale[r].quoted, "over")

SaleOver == {"idle", "over"}

DropSales ==
  sale' = [r \in SaleReqs |->
             IF sale[r].at \in SaleOver THEN sale[r]
             ELSE StoppedSale]

SendNext ==
  \E r \in SaleReqs :
    \/ \E p \in Proposals : PostGate(r, p) \/ PostSend(r, p) \/ PostOverride(r, p)
    \/ AppendClassified(r)
    \/ AppendGate(r)
    \/ AppendSent(r)

-----------------------------------------------------------------------------
\* One of the events is of the type, by the request, about the proposal.
On(type, by, about, events) ==
  \E e \in events : e.type = type /\ e.by = by /\ e.about = about

\* A proposal.sent was written after its whole audit chain ("emitted after
\* send-gate pass or operator override", events.ts:431-445): the evaluation it
\* quotes, of the same proposal; and when the gate fails, the override and its
\* classification by the same request.  Of the chain a reader finds each event
\* before it in the file, but for those that were answered or appended with
\* success and lost on a torn line: Earlier counts them in.
SentIsGated ==
  \A i \in DOMAIN log :
    log[i].type = "sent" =>
      /\ On("gate", log[i].cites, log[i].about, Earlier(i))
      /\ \/ GatePasses(log[i].about)
         \/ /\ On("overridden", log[i].by, log[i].about, Earlier(i))
            /\ On("classified", log[i].by, log[i].about, Earlier(i))
=============================================================================
