------------------------ MODULE MCScenarioEvaluation ------------------------
(***************************************************************************)
(* The shapes of the frozen suite scenarios/v1, with every time scaled     *)
(* down to a tick or two, one that is too short for a tick, and devices    *)
(* that earlier runs have left rows of.                                    *)
(***************************************************************************)
EXTENDS ScenarioEvaluation

\* S02 to S05: a fault that must be detected, diagnosed and planned for.
Fault(kind, failure) ==
  [kind |-> kind, failure |-> failure, fault |-> TRUE, approve |-> FALSE,
   interval |-> 2, warmup |-> 2, duration |-> 2, recovery |-> 0,
   alarm |-> TRUE, max_instances |-> 2, severity |-> failure = None,
   cleared_after_recovery |-> FALSE, incident |-> TRUE, max_count |-> 1,
   diagnosis |-> TRUE, expected_fault |-> TRUE, evidence |-> TRUE,
   accepted_sufficiency |-> {"SUFFICIENT", "PARTIAL"}, workflow |-> TRUE,
   expected_status |-> None, must_block |-> FALSE, after_approval |-> TRUE, max_orders |-> 1]

Unsafe(d) == [d EXCEPT !.must_block = TRUE, !.after_approval = FALSE, !.max_orders = 0]

MCScenarios ==
  {Fault(k, None) : k \in {"SINGLE_FAULT", "DUPLICATE_INPUT", "OUT_OF_ORDER_INPUT"}} \cup
  {Fault("FAILURE_INJECTION", f) : f \in {"REDIS_UNAVAILABLE", "MQTT_DISCONNECTED",
                                          "LLM_PROVIDER_UNAVAILABLE"}} \cup
  {\* S00: a healthy motor
   [Fault("NORMAL", None) EXCEPT !.fault = FALSE, !.duration = 0, !.alarm = FALSE,
      !.max_instances = 0, !.severity = FALSE, !.incident = FALSE, !.max_count = 0,
      !.diagnosis = FALSE, !.expected_fault = FALSE, !.evidence = FALSE, !.workflow = FALSE,
      !.after_approval = FALSE, !.max_orders = 0],
   \* S01 and S06: an approved plan, a recovery
   [Fault("PROGRESSIVE_FAULT", None) EXCEPT !.approve = TRUE],
   [Fault("RECOVERY", None) EXCEPT !.recovery = 3, !.cleared_after_recovery = TRUE],
   \* half a tick of fault, which rounds to none
   [Fault("SINGLE_FAULT", None) EXCEPT !.duration = 1],
   \* F08, F03, F05
   [Fault("FAILURE_INJECTION", "WORKFLOW_DUPLICATE_REQUEST") EXCEPT !.approve = TRUE],
   [Unsafe(Fault("FAILURE_INJECTION", "RAG_INSUFFICIENT_EVIDENCE")) EXCEPT
      !.evidence = FALSE, !.accepted_sufficiency = {"INSUFFICIENT_EVIDENCE"},
      !.expected_status = "BLOCKED"],
   Unsafe(Fault("FAILURE_INJECTION", "GOVERNANCE_UNAVAILABLE"))}

\* A new device; one whose telemetry was cut short; one that was run through once, its plan
\* waiting, approved, or blocked by the mock provider.
Once(rows, run) ==
  [table |-> [NoRows EXCEPT !.alarms = 1, !.critical = TRUE, !.incidents = 1, !.diagnosis = "FAULT",
                            !.right = TRUE, !.linked = TRUE],
   rows |-> rows, run |-> run, runs |-> 1, orders |-> run.orders]
Waiting == CHOOSE r \in Started("openai_compatible", TRUE) : r.approval = "PENDING"
Blocked == CHOOSE r \in Started("test", TRUE) : r.status = "BLOCKED"

MCEarlier ==
  {[table |-> NoRows, rows |-> n, run |-> NoObservation, runs |-> 0, orders |-> 0] : n \in {0, 1}}
    \cup {Once(4, r) : r \in {Waiting, Approved(Waiting), Blocked}}
=============================================================================
