------------------------------ MODULE PolicyGate ------------------------------
(***************************************************************************)
(* The altitude policy gate (src/src/altitude/gate.ts): a pure function    *)
(* from a packet an agent proposes to the altitude it needs, the           *)
(* validators it fails, and what may be done with it.  Validators that     *)
(* cannot fail (V12, V18: the results are built in their fixed order) are  *)
(* left out, and so are reasons, names and durations.                      *)
(***************************************************************************)
EXTENDS Integers, FiniteSets

None == "undefined"

Altitudes == 0 .. 4     \* L0 to L4

Workflows ==
  {"blackboard_update", "invoice_followup", "drift_detection", "proposal_followup",
   "proposal_generation", "field_capture", "intake", "memory_promotion",
   "voice_tour", "compliance"}

Actions ==
  {"no_action", "block", "draft_internal_summary", "draft_client_message",
   "request_human_review", "route_to_pm", "route_to_owner"}

\* What the gate looks at.  amount is 0 and class undefined without money
\* fields; sourced: source_refs, evidence_ids and claim_ids are not empty;
\* recordingVerb: the description speaks of recording; twoParty: the
\* jurisdiction is one of the ten; identified: the ids, the model and the time
\* are not empty; overBudget, wordy: against the caller's token limits, if any.
Packet ==
  [workflow : Workflows, action : Actions, suggested : Altitudes,
   amount : Int, intent : {None, "read", "quote", "propose", "approve", "commit"},
   class : {None, "tenant_catalog", "verified_quote", "historical_actual",
            "project_actual", "public_reference", "kerf_seed", "model_inference",
            "placeholder", "unsupported", "missing"},
   label : {None, "DIRECT_EVIDENCE", "INFERRED", "MODEL_GUESS", "NEEDS_REVIEW"},
   confidence : {"HIGH", "MEDIUM", "LOW"}, privileged : BOOLEAN, sourced : BOOLEAN,
   sendRequested : BOOLEAN, sendApproved : BOOLEAN,
   recordingVerb : BOOLEAN, recordingRequested : BOOLEAN, twoParty : BOOLEAN,
   consent : {None, "not_required", "single_party", "all_party_captured",
              "missing", "ambiguous", "unknown"},
   identified : BOOLEAN, overBudget : BOOLEAN, wordy : BOOLEAN]

-----------------------------------------------------------------------------
(* Altitude.                                                               *)

WorkflowBaseline(workflow) ==
  CASE workflow = "blackboard_update"                           -> 0
    [] workflow \in {"invoice_followup", "drift_detection"}     -> 1
    [] workflow \in {"proposal_followup", "proposal_generation",
                     "field_capture", "intake",
                     "memory_promotion", "voice_tour"}          -> 2
    [] workflow = "compliance"                                  -> 4

ActionBaseline(action) ==
  CASE action = "no_action"                                     -> 0
    [] action \in {"block", "draft_internal_summary"}           -> 1
    [] action \in {"draft_client_message", "request_human_review",
                   "route_to_pm"}                               -> 2
    [] action = "route_to_owner"                                -> 3

Higher(a, b) == IF a >= b THEN a ELSE b     \* maxAltitude

Baseline(p) == Higher(WorkflowBaseline(p.workflow), ActionBaseline(p.action))

IsMoneyMutation(p) ==
  p.amount > 0 /\ p.intent \in {None, "propose", "approve", "commit"}

RequiresTwoPartyConsent(p) ==
  p.recordingRequested /\ p.twoParty /\ p.consent # "all_party_captured"

EscalationFloor(p) ==
  Higher(IF p.sendRequested \/ IsMoneyMutation(p) THEN 3 ELSE 0,
         IF RequiresTwoPartyConsent(p) THEN 4 ELSE 0)

FinalAltitude(p) == Higher(Baseline(p), EscalationFloor(p))

ReviewRequirement(p) ==
  CASE FinalAltitude(p) = 4                             -> "FRONTIER_REVIEW"
    [] FinalAltitude(p) = 3                             -> "OWNER_REVIEW"
    [] FinalAltitude(p) = 2                             -> "OPERATOR_REVIEW"
    [] FinalAltitude(p) < 2 /\ p.sendRequested          -> "OPERATOR_REVIEW"
    [] FinalAltitude(p) < 2 /\ ~p.sendRequested         -> "AUTONOMOUS"

-----------------------------------------------------------------------------
(* Validators.                                                             *)

\* V1: money needs a pricing class that is not one of the empty ones.
UnpricedSource(p) ==
  p.amount > 0 /\ p.class \in {None, "placeholder", "unsupported", "missing"}

\* V2
UnapprovedSend(p) == p.sendRequested /\ ~p.sendApproved

\* V4: the pattern of an acknowledged consent risk only changes the reason.
RecordingWithoutConsent(p) ==
  /\ p.consent # "all_party_captured"
  /\ p.recordingVerb \/ (p.twoParty /\ p.recordingRequested)

\* V6
FinanceLeak(p, roles) == p.privileged /\ roles \cap {"field", "sub", "client"} # {}

\* V7
SourceBasisMissing(p) ==
  ~p.sourced \/ (IsMoneyMutation(p) /\ p.class = "model_inference")

SafeLabels == {"INFERRED", "MODEL_GUESS", "NEEDS_REVIEW"}

HasModelInferenceSource(p) == p.class = "model_inference" \/ p.label \in SafeLabels

\* V8, failing and correcting.
InferenceAsEvidence(p) == HasModelInferenceSource(p) /\ p.label = "DIRECT_EVIDENCE"

InferenceCorrected(p) ==
  /\ HasModelInferenceSource(p)
  /\ p.label = None \/ (p.confidence = "HIGH" /\ p.label \in SafeLabels)

LearningSignals(p) ==
  {s \in {"model_inference_correction", "source_basis_required", "altitude_divergence"} :
     \/ s = "model_inference_correction" /\ InferenceCorrected(p)
     \/ s = "source_basis_required" /\ SourceBasisMissing(p)
     \/ s = "altitude_divergence" /\ p.suggested # FinalAltitude(p)}

\* V9
MalformedSignal(p) == LearningSignals(p) # {} /\ ~p.identified

\* V17, the failure that is not critical.
NeedsCompactPrompt(p) == ~p.overBudget /\ p.wordy /\ p.suggested < 2

\* The critical validators p fails when it is shown to roles.
CriticalFailures(p, roles) ==
  {v \in {"V1", "V2", "V4", "V6", "V7", "V8", "V9", "V17"} :
     \/ v = "V1" /\ UnpricedSource(p)
     \/ v = "V2" /\ UnapprovedSend(p)
     \/ v = "V4" /\ RecordingWithoutConsent(p)
     \/ v = "V6" /\ FinanceLeak(p, roles)
     \/ v = "V7" /\ SourceBasisMissing(p)
     \/ v = "V8" /\ InferenceAsEvidence(p)
     \/ v = "V9" /\ MalformedSignal(p)
     \/ v = "V17" /\ p.overBudget}

-----------------------------------------------------------------------------
(* The decision.                                                           *)

\* The order in which critical failures decide, and what each decides.
Precedence ==
  <<[id |-> "V4", action |-> "block_recording"],
    [id |-> "V2", action |-> "block_external_send"],
    [id |-> "V1", action |-> "block_pricing_use"],
    [id |-> "V6", action |-> "block_role_visibility"],
    [id |-> "V7", action |-> "block_promotion"],
    [id |-> "V8", action |-> "request_human_review"],
    [id |-> "V9", action |-> "request_human_review"],
    [id |-> "V17", action |-> "block_token_budget"]>>

BlockingAction(failures) ==
  Precedence[CHOOSE i \in 1 .. 8 :
               /\ Precedence[i].id \in failures
               /\ \A j \in 1 .. i - 1 : Precedence[j].id \notin failures].action

\* Nothing fails: a human's review, or at the lowest altitudes the act itself.
\* allow_draft would need an autonomous altitude above L1, of which there is none.
PermittedAction(p) ==
  CASE ReviewRequirement(p) = "FRONTIER_REVIEW"                     -> "request_frontier_review"
    [] ReviewRequirement(p) = "OWNER_REVIEW"                        -> "request_owner_approval"
    [] ReviewRequirement(p) = "OPERATOR_REVIEW"                     -> "request_human_review"
    [] ReviewRequirement(p) = "AUTONOMOUS" /\ FinalAltitude(p) = 0  -> "allow_commit"
    [] ReviewRequirement(p) = "AUTONOMOUS" /\ FinalAltitude(p) # 0  -> "allow_internal_summary"

SafeNextAction(p, roles) ==
  IF CriticalFailures(p, roles) # {} THEN BlockingAction(CriticalFailures(p, roles))
  ELSE IF NeedsCompactPrompt(p) THEN "block_with_remediation"
  ELSE PermittedAction(p)

Allowed(p, roles) == CriticalFailures(p, roles) = {} /\ ~NeedsCompactPrompt(p)

\* runPolicyGate
Decision(p, roles) ==
  [allowed |-> Allowed(p, roles),
   altitude |-> FinalAltitude(p),
   review |-> ReviewRequirement(p),
   next |-> SafeNextAction(p, roles),
   status |-> IF "V7" \in CriticalFailures(p, roles)
              THEN "BLOCKED_PENDING_SOURCE" ELSE "READY_FOR_REVIEW",
   signals |-> LearningSignals(p)]

DefaultRoles == {"owner", "admin"}
=============================================================================
