--------------------------- MODULE PolicyGateProofs ---------------------------
(***************************************************************************)
(* What the policy gate decides, for every packet and every set of roles.  *)
(***************************************************************************)
EXTENDS PolicyGate, TLAPS

Ids == {"V1", "V2", "V4", "V6", "V7", "V8", "V9", "V17"}

Places == 1 .. 8

(* Position i of the precedence decides for these failures.                *)
Decides(i, failures) ==
  /\ Precedence[i].id \in failures
  /\ \A j \in 1 .. i - 1 : Precedence[j].id \notin failures

-----------------------------------------------------------------------------
(* No packet ends below the altitude of its workflow or its action, money  *)
(* and sending never below the owner's, a recording whose other party has  *)
(* not consented never below the highest (computeFinalAltitude).           *)
THEOREM NeverLowered ==
  ASSUME NEW p \in Packet
  PROVE  /\ FinalAltitude(p) \in Altitudes
         /\ FinalAltitude(p) >= WorkflowBaseline(p.workflow)
         /\ FinalAltitude(p) >= ActionBaseline(p.action)
         /\ p.sendRequested \/ IsMoneyMutation(p) => FinalAltitude(p) >= 3
         /\ RequiresTwoPartyConsent(p) => FinalAltitude(p) = 4
  <1>1. WorkflowBaseline(p.workflow) \in Altitudes
    BY DEF Packet, Workflows, WorkflowBaseline, Altitudes
  <1>2. ActionBaseline(p.action) \in Altitudes
    BY DEF Packet, Actions, ActionBaseline, Altitudes
  <1>3. /\ EscalationFloor(p) \in {0, 3, 4}
        /\ p.sendRequested \/ IsMoneyMutation(p) => EscalationFloor(p) >= 3
        /\ RequiresTwoPartyConsent(p) => EscalationFloor(p) = 4
    BY DEF EscalationFloor, Higher
  <1>4. QED
    BY <1>1, <1>2, <1>3 DEF FinalAltitude, Baseline, Higher, Altitudes

(* Some position decides as soon as anything fails.                        *)
LEMMA SomeoneDecides ==
  ASSUME NEW failures \in SUBSET Ids, failures # {}
  PROVE  \E i \in Places : Decides(i, failures)
  <1>1. CASE "V4" \in failures
    <2>1. Decides(1, failures)
      BY <1>1 DEF Decides, Precedence
    <2>2. QED
      BY <2>1 DEF Places
  <1>2. CASE "V4" \notin failures /\ "V2" \in failures
    <2>1. Decides(2, failures)
      BY <1>2 DEF Decides, Precedence
    <2>2. QED
      BY <2>1 DEF Places
  <1>3. CASE failures \cap {"V4", "V2"} = {} /\ "V1" \in failures
    <2>1. Decides(3, failures)
      BY <1>3 DEF Decides, Precedence
    <2>2. QED
      BY <2>1 DEF Places
  <1>4. CASE failures \cap {"V4", "V2", "V1"} = {} /\ "V6" \in failures
    <2>1. Decides(4, failures)
      BY <1>4 DEF Decides, Precedence
    <2>2. QED
      BY <2>1 DEF Places
  <1>5. CASE failures \cap {"V4", "V2", "V1", "V6"} = {} /\ "V7" \in failures
    <2>1. Decides(5, failures)
      BY <1>5 DEF Decides, Precedence
    <2>2. QED
      BY <2>1 DEF Places
  <1>6. CASE failures \cap {"V4", "V2", "V1", "V6", "V7"} = {} /\ "V8" \in failures
    <2>1. Decides(6, failures)
      BY <1>6 DEF Decides, Precedence
    <2>2. QED
      BY <2>1 DEF Places
  <1>7. CASE failures \cap {"V4", "V2", "V1", "V6", "V7", "V8"} = {} /\ "V9" \in failures
    <2>1. Decides(7, failures)
      BY <1>7 DEF Decides, Precedence
    <2>2. QED
      BY <2>1 DEF Places
  <1>8. CASE failures = {"V17"}
    <2>1. Decides(8, failures)
      BY <1>8 DEF Decides, Precedence
    <2>2. QED
      BY <2>1 DEF Places
  <1>9. QED
    BY <1>1, <1>2, <1>3, <1>4, <1>5, <1>6, <1>7, <1>8 DEF Ids

(* The block comes from a position that decides.                           *)
LEMMA BlockOfTheFirst ==
  ASSUME NEW failures \in SUBSET Ids, failures # {}
  PROVE  \E i \in Places : /\ Decides(i, failures)
                           /\ BlockingAction(failures) = Precedence[i].action
  <1> DEFINE first == CHOOSE i \in Places : Decides(i, failures)
  <1>1. first \in Places /\ Decides(first, failures)
    BY SomeoneDecides
  <1>2. BlockingAction(failures) = Precedence[first].action
    BY DEF BlockingAction, Decides, Places
  <1>3. QED
    BY <1>1, <1>2

(* A failure never turns into a permission.                                *)
LEMMA BlocksBlock ==
  ASSUME NEW failures \in SUBSET Ids, failures # {}
  PROVE  BlockingAction(failures) \notin {"allow_commit", "allow_internal_summary"}
  <1>1. \A i \in Places : Precedence[i].action \notin {"allow_commit", "allow_internal_summary"}
    BY DEF Places, Precedence
  <1>2. QED
    BY <1>1, BlockOfTheFirst

LEMMA FailuresAreIds ==
  ASSUME NEW p, NEW roles
  PROVE  CriticalFailures(p, roles) \in SUBSET Ids
  BY DEF CriticalFailures, Ids

(* The gate lets an agent act by itself only when every validator passes,  *)
(* below the operator's altitude, and never on money or a message that     *)
(* leaves the house.                                                       *)
THEOREM AutonomyIsNarrow ==
  ASSUME NEW p \in Packet, NEW roles,
         SafeNextAction(p, roles) \in {"allow_commit", "allow_internal_summary"}
  PROVE  /\ Allowed(p, roles)
         /\ FinalAltitude(p) < 2
         /\ ~p.sendRequested
         /\ ~IsMoneyMutation(p)
  <1>1. CriticalFailures(p, roles) = {}
    BY FailuresAreIds, BlocksBlock DEF SafeNextAction
  <1>2. ~NeedsCompactPrompt(p)
    BY <1>1 DEF SafeNextAction
  <1>3. PermittedAction(p) \in {"allow_commit", "allow_internal_summary"}
    BY <1>1, <1>2 DEF SafeNextAction
  <1>4. FinalAltitude(p) \in 0 .. 4
    BY NeverLowered DEF Altitudes
  <1>5. FinalAltitude(p) < 2
    <2>1. CASE FinalAltitude(p) = 2
      BY <1>3, <2>1 DEF PermittedAction, ReviewRequirement
    <2>2. CASE FinalAltitude(p) = 3
      BY <1>3, <2>2 DEF PermittedAction, ReviewRequirement
    <2>3. CASE FinalAltitude(p) = 4
      BY <1>3, <2>3 DEF PermittedAction, ReviewRequirement
    <2>4. QED
      BY <1>4, <2>1, <2>2, <2>3
  <1>6. ~p.sendRequested /\ ~IsMoneyMutation(p)
    BY <1>4, <1>5, NeverLowered
  <1>7. QED
    BY <1>1, <1>2, <1>5, <1>6 DEF Allowed

(* Whatever else is wrong with a packet, a recording without consent is    *)
(* what it is blocked for.                                                 *)
THEOREM ConsentComesFirst ==
  ASSUME NEW p \in Packet, NEW roles, RecordingWithoutConsent(p)
  PROVE  SafeNextAction(p, roles) = "block_recording"
  <1> DEFINE failures == CriticalFailures(p, roles)
  <1>1. "V4" \in failures
    BY DEF CriticalFailures
  <1>2. failures \in SUBSET Ids
    BY FailuresAreIds
  <1> HIDE DEF failures
  <1>3. PICK i \in Places : /\ Decides(i, failures)
                            /\ BlockingAction(failures) = Precedence[i].action
    BY <1>1, <1>2, BlockOfTheFirst
  <1>4. i = 1
    <2>1. Precedence[1].id = "V4"
      BY DEF Precedence
    <2>2. QED
      BY <1>1, <1>3, <2>1 DEF Decides, Places
  <1>5. Precedence[1].action = "block_recording"
    BY DEF Precedence
  <1>6. QED
    BY <1>1, <1>3, <1>4, <1>5 DEF SafeNextAction, failures

(* Money proposed on the model's own inference waits for a source, in the  *)
(* verdict and in the status the draft shows.                              *)
THEOREM GuessedMoneyWaits ==
  ASSUME NEW p \in Packet, NEW roles,
         p.amount > 0, p.intent = "propose", p.class = "model_inference"
  PROVE  /\ ~Decision(p, roles).allowed
         /\ Decision(p, roles).status = "BLOCKED_PENDING_SOURCE"
  <1>1. "V7" \in CriticalFailures(p, roles)
    BY DEF CriticalFailures, SourceBasisMissing, IsMoneyMutation
  <1>2. ~Allowed(p, roles)
    BY <1>1 DEF Allowed
  <1>3. QED
    BY <1>1, <1>2 DEF Decision
=============================================================================
