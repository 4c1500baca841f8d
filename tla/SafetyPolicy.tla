---------------------------- MODULE SafetyPolicy ----------------------------
(***************************************************************************)
(* The deterministic safety policy of the maintenance workflow             *)
(* (backend/app/workflow/policy.py).  A maintenance plan is a set of       *)
(* steps, each an action type and the evidence identifiers it cites; the   *)
(* order and the wording of the steps play no part in the decision.        *)
(***************************************************************************)
EXTENDS Integers

CONSTANTS
  Evidence,     \* knowledge evidence identifiers
  Plans         \* the plans the planning agent may return

ActionTypes ==
  { "OBSERVE", "INSPECT", "MEASURE", "TEST", "ADJUST", "STOP", "ISOLATE",
    "LOCKOUT_TAGOUT", "DISASSEMBLE", "REPLACE", "RESTART", "ESCALATE" }

APPROVAL_ACTIONS ==
  { "STOP", "ISOLATE", "LOCKOUT_TAGOUT", "DISASSEMBLE", "REPLACE", "RESTART" }

\* "NONE" is a diagnosis that carries no severity.
Severities == { "NONE", "LOW", "MEDIUM", "HIGH", "CRITICAL" }

DiagnosisStatuses == { "NORMAL", "FAULT", "UNCERTAIN" }

Sufficiencies == { "SUFFICIENT", "PARTIAL", "INSUFFICIENT_EVIDENCE" }

\* The output schema demands at least one citation per step; whether the cited
\* identifiers were retrieved is what the policy has to find out.
Steps == [action : ActionTypes, evidence : (SUBSET Evidence) \ {{}}]

Decisions == { "BLOCKED", "REQUIRES_APPROVAL", "AUTO_ALLOWED" }

ASSUME PlansAssumption == Plans \subseteq (SUBSET Steps) \ {{}}

\* The steps that cite nothing, or something that was not retrieved.
validate_grounding(plan, valid) ==
  { step \in plan : step.evidence = {} \/ ~(step.evidence \subseteq valid) }

EffectiveSeverity(severity) == IF severity = "NONE" THEN "MEDIUM" ELSE severity

Blocked(plan, violations, valid, diagnosisStatus, sufficiency) ==
  \/ validate_grounding(plan, valid) # {}
  \/ diagnosisStatus # "FAULT"
  \/ sufficiency = "INSUFFICIENT_EVIDENCE"
  \/ violations

\* Mutant: the diagnosed severity is left out of account.
NeedsApprovalByActionOnly(plan, severity) ==
  { step.action : step \in plan } \cap APPROVAL_ACTIONS # {}

NeedsApproval(plan, severity) ==
  \/ EffectiveSeverity(severity) \in { "HIGH", "CRITICAL" }
  \/ { step.action : step \in plan } \cap APPROVAL_ACTIONS # {}

\* violations is TRUE when the safety review lists at least one.
decide(plan, violations, valid, diagnosisStatus, severity, sufficiency) ==
  CASE Blocked(plan, violations, valid, diagnosisStatus, sufficiency) -> "BLOCKED"
    [] ~Blocked(plan, violations, valid, diagnosisStatus, sufficiency)
       /\ NeedsApproval(plan, severity) -> "REQUIRES_APPROVAL"
    [] OTHER -> "AUTO_ALLOWED"
=============================================================================
