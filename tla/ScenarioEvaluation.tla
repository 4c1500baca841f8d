-------------------------- MODULE ScenarioEvaluation --------------------------
(***************************************************************************)
(* Acceptance runs of the platform (backend/app/scenarios): one            *)
(* `python -m app.scenarios.run --scenario` process.  ScenarioRunner       *)
(* generates the simulator's samples, ingests them directly or, for the    *)
(* MQTT failure, through MqttFailureHarness, observes what the production  *)
(* services persisted for the scenario's own device, drives the workflow   *)
(* and hands the observation to evaluate.                                  *)
(*                                                                         *)
(* The services are the other modules' subject: here they are external     *)
(* choices over what they may leave in the tables.  The harness, the MQTT  *)
(* consumer and the broker interleave step by step.                        *)
(*                                                                         *)
(* A device is created once and reused: whatever earlier runs left of it   *)
(* in the tables, and the proxy as they left it, is there at the start and *)
(* is counted with the rows of this run.                                   *)
(***************************************************************************)
EXTENDS Naturals, Sequences, FiniteSets

CONSTANTS
  Scenarios,   \* ScenarioDefinitions, as records of the fields a verdict reads
  Earlier,     \* what earlier runs may have left of the device
  None         \* an absent value

VARIABLES
  def,       \* the definition under evaluation
  infra,     \* what Settings made available: index, workflow provider, MQTT control
  before,    \* what earlier runs left: rows of the tables, the newest workflow run
  phase,     \* where ScenarioRunner.run is
  samples,   \* ticks of the generated telemetry, in delivery order
  mqtt,      \* the harness, its consumer and the proxy in front of the broker
  table,     \* rows of the scenario's device: alarms, incidents, diagnosis
  blocked,   \* components whose infrastructure is missing
  obs,       \* ObservedScenario: what the later phases add to the tables
  verdict,   \* status of every component, and of the scenario
  exit       \* exit code of the process

scenario_vars == <<def, infra, before, phase, samples, mqtt, table, blocked, obs, verdict, exit>>

Components == {"alarm", "incident", "diagnosis", "evidence", "workflow", "safety",
               "approval", "workorder"}
Gated == {"workflow", "safety", "approval", "workorder"}

\* ScenarioDefinition's model validator, on the seconds of the definition.
validate_kind(d) ==
  /\ d.kind = "NORMAL" => ~d.fault
  /\ d.kind \notin {"NORMAL", "FAILURE_INJECTION"} => d.fault /\ d.duration > 0
  /\ (d.kind = "FAILURE_INJECTION") = (d.failure # None)

ASSUME DefinitionsAreValid == \A d \in Scenarios : validate_kind(d)
\* ExecutionSpec's times are not negative and its sample interval, in the same unit,
\* is positive; flags are flags.
ASSUME DefinitionsAreTyped ==
  \A d \in Scenarios : /\ {d.warmup, d.duration, d.recovery} \subseteq Nat
                       /\ d.interval \in Nat \ {0}
                       /\ {d.fault, d.approve, d.evidence, d.workflow, d.must_block,
                           d.after_approval} \subseteq BOOLEAN
\* An absent value is no status, provider, decision, sufficiency or exit code.
ASSUME NoneAssumption ==
  /\ None \notin 0..2
  /\ None \notin {"BLOCKED", "FAILED", "REJECTED", "WAITING_APPROVAL", "WORK_ORDER_CREATED",
                   "AUTO_ALLOWED", "REQUIRES_APPROVAL", "PENDING", "APPROVED", "test",
                   "openai_compatible", "SUFFICIENT", "PARTIAL", "INSUFFICIENT_EVIDENCE"}

-----------------------------------------------------------------------------
(* The simulator: a fault episode's lifecycle and the engine's ticks.       *)

Least(a, b) == IF a < b THEN a ELSE b
Most(a, b) == IF a < b THEN b ELSE a

\* Python's round: to the nearest, a half to the even neighbour; zero for a short time.
_ticks(seconds, interval) ==
  LET whole == seconds \div interval
      rest  == 2 * (seconds % interval)
  IN IF rest > interval \/ (rest = interval /\ whole % 2 = 1) THEN whole + 1 ELSE whole

start_tick(d) == _ticks(d.warmup, d.interval)
active_ticks(d) == _ticks(d.duration, d.interval)
recovery_ticks(d) == _ticks(d.recovery, d.interval)

ramp_up(d) ==
  CASE ~d.fault -> 0
    [] d.fault /\ d.kind = "SINGLE_FAULT" -> 1
    [] OTHER -> Most(1, Least(10, active_ticks(d)))

\* The stage label telemetry of a tick carries.
stage(d, tick) ==
  LET active == start_tick(d) + ramp_up(d)
      over   == active + active_ticks(d)
  IN CASE d.fault /\ tick \in start_tick(d)..(active - 1) -> "INJECTING"
       [] d.fault /\ tick \in active..(over - 1) -> "ACTIVE"
       [] d.fault /\ tick \in over..(over + recovery_ticks(d) - 1) -> "RECOVERING"
       [] OTHER -> "NORMAL"

\* BaseFault._envelope over the severity, which is positive: the intensity of the fault
\* at a tick, in parts of the ramp or of the recovery.  The ramp starts at none.
_envelope(d, tick) ==
  CASE stage(d, tick) = "INJECTING" -> tick - start_tick(d)
    [] stage(d, tick) = "ACTIVE" -> 1
    [] stage(d, tick) = "RECOVERING" ->
         start_tick(d) + ramp_up(d) + active_ticks(d) + recovery_ticks(d) - tick
    [] OTHER -> 0

total(d) ==
  start_tick(d) + ramp_up(d) + active_ticks(d) + recovery_ticks(d) + (IF d.fault THEN 1 ELSE 0)

\* SimulationEngine.run: one sample per tick of the clock.
Simulated(d) == [n \in 1..Most(total(d), 2) |-> n - 1]

Duplicates(d) == d.kind = "DUPLICATE_INPUT" \/ d.failure = "DUPLICATE_TELEMETRY"
Swaps(d) == d.kind = "OUT_OF_ORDER_INPUT" \/ d.failure = "OUT_OF_ORDER_TELEMETRY"

\* list.insert of a message behind itself.
Repeated(s, i) == [n \in 1..(Len(s) + 1) |-> IF n <= i THEN s[n] ELSE s[n - 1]]

_samples(d) ==
  LET s    == Simulated(d)
      half == Len(s) \div 2 + 1
      dup  == IF Duplicates(d) THEN Repeated(s, half) ELSE s
      n    == Len(dup)
  IN IF Swaps(d) THEN [dup EXCEPT ![n - 1] = dup[n], ![n] = dup[n - 1]] ELSE dup

-----------------------------------------------------------------------------
Idle(proxy, rows) ==
        [at |-> "idle", proxy |-> proxy, task |-> FALSE, connected |-> FALSE, sent |-> 0,
         queued |-> 0, rows |-> rows, cut |-> FALSE, degraded |-> FALSE, back |-> FALSE,
         recovered |-> FALSE, failed |-> FALSE, stuck |-> FALSE]
NoRows == [alarms |-> 0, critical |-> FALSE, cleared |-> FALSE, incidents |-> 0,
           diagnosis |-> None, right |-> FALSE, linked |-> FALSE]
NoObservation == [sufficiency |-> None, found |-> FALSE, status |-> None, provider |-> None,
                  decision |-> None, approval |-> None, runs |-> 0, orders |-> 0, closed |-> FALSE]
Undecided == [c \in Components \cup {"scenario"} |-> "NOT_RUN"]

-----------------------------------------------------------------------------
(* The production services, as far as the verdict sees them (external).     *)

Rows ==
  [alarms : {0, 1, 3}, critical : BOOLEAN, cleared : BOOLEAN, incidents : 0..2,
   diagnosis : {None, "NORMAL", "FAULT", "UNCERTAIN"}, right : BOOLEAN, linked : BOOLEAN]

\* What the tables may hold: severities and clearings need an alarm, a link an incident
\* and a diagnosis, a fault type a diagnosis that names one.
Ingested ==
  {r \in Rows : /\ r.critical \/ r.cleared => r.alarms > 0
                /\ r.incidents <= r.alarms
                /\ r.linked => r.incidents > 0 /\ r.diagnosis # None
                /\ r.right => r.diagnosis \in {"FAULT", "UNCERTAIN"}}

\* WorkflowService.start with a provider: no run (the call failed before it),
\* or the state its run is left in.
Started(provider, reachable) ==
  LET run(s, d, a, n) == [NoObservation EXCEPT !.status = s, !.provider = provider,
                                               !.decision = d, !.approval = a, !.orders = n]
  IN {NoObservation, run("BLOCKED", "BLOCKED", None, 0), run("FAILED", None, None, 0)} \cup
     (IF reachable THEN {run("WAITING_APPROVAL", "REQUIRES_APPROVAL", "PENDING", 0),
                         run("WORK_ORDER_CREATED", "AUTO_ALLOWED", None, 1)}
                   ELSE {})

Approved(run) == [run EXCEPT !.status = "WORK_ORDER_CREATED", !.approval = "APPROVED", !.orders = 1]
Rejected(run) == [run EXCEPT !.status = "REJECTED", !.approval = "REJECTED"]

\* The runs an earlier scenario, or an operator after it, may have left.
Left(provider) ==
  LET started == Started(provider, TRUE)
      pending == {r \in started : r.approval = "PENDING"}
  IN started \cup {Approved(r) : r \in pending} \cup {Rejected(r) : r \in pending}

\* Rows and orders of earlier runs are counted from zero, and a run that is there counts.
ASSUME EarlierAssumption ==
  \A e \in Earlier : /\ e.table \in Ingested
                     /\ e.rows \in Nat /\ e.runs \in Nat /\ e.orders \in Nat
                     /\ e.run \in Left("test") \cup Left("openai_compatible")
                     /\ e.runs = 0 => e.run = NoObservation

-----------------------------------------------------------------------------
\* _workflow and _unavailable_workflow: no provider without credentials, and the
\* unreachable one only beside a real one.
Infrastructure == [index : BOOLEAN, workflow : {None, "test", "openai_compatible"},
                   control : BOOLEAN]
Unavailable == infra.workflow = "openai_compatible"

ScenarioInit ==
  /\ def \in Scenarios
  /\ infra \in Infrastructure
  /\ before \in Earlier
  /\ phase = "start"
  /\ samples = << >>
  /\ \E proxy \in BOOLEAN : mqtt = Idle(proxy, before.rows)
  /\ table = before.table
  /\ blocked = {}
  /\ obs = NoObservation
  /\ verdict = Undecided
  /\ exit = None

_unsupported_failure ==
  CASE def.failure = "LLM_PROVIDER_UNAVAILABLE" /\ ~Unavailable -> Gated
    [] def.failure = "MQTT_DISCONNECTED" /\ ~infra.control -> Gated
    [] OTHER -> {}

ThroughMqtt == def.failure = "MQTT_DISCONNECTED" /\ infra.control

\* run, up to the ingestion: unsupported failures, the device row, the samples.
Begin ==
  /\ phase = "start"
  /\ blocked' = _unsupported_failure
  /\ samples' = _samples(def)
  /\ phase' = IF ThroughMqtt THEN "mqtt" ELSE "ingest"
  /\ UNCHANGED <<def, infra, before, mqtt, table, obs, verdict, exit>>

-----------------------------------------------------------------------------
(* MqttFailureHarness.ingest: the harness's own steps.  A step that calls   *)
(* the proxy's control API may raise, and so may every bounded wait.        *)

\* Each of its steps leaves the rest of the run alone.
Harness(next) ==
  /\ phase = "mqtt"
  /\ mqtt' = next
  /\ UNCHANGED <<def, infra, before, phase, samples, table, blocked, obs, verdict, exit>>

Total == Len(samples)
Split == Most(1, Total \div 2)

\* _prepare_proxy, and the consumer's start.  When it raises nothing was started, there
\* is no clean-up, and the proxy may stay as an earlier run left it.
PrepareProxy ==
  /\ mqtt.at = "idle"
  /\ \/ Harness([mqtt EXCEPT !.at = "connecting", !.proxy = TRUE, !.task = TRUE])
     \/ \E proxy \in {mqtt.proxy, TRUE} :
          Harness([mqtt EXCEPT !.at = "unprepared", !.proxy = proxy, !.failed = TRUE])

\* The waits before the first half and before the second: the facts about the
\* reconnection are read without suspending after the wait that saw it.
WaitConnected ==
  /\ mqtt.connected
  /\ \/ /\ mqtt.at = "connecting"
        /\ Harness([mqtt EXCEPT !.at = "publishing"])
     \/ /\ mqtt.at = "reconnecting"
        /\ Harness([mqtt EXCEPT !.at = "publishing", !.back = mqtt.connected,
                                !.recovered = mqtt.connected])

Goal == IF mqtt.back THEN Total ELSE Split

\* One QoS 1 publication; the session is clean, so the broker keeps nothing for
\* a consumer that is away.
Publish ==
  /\ mqtt.at = "publishing"
  /\ mqtt.sent < Goal
  /\ mqtt.proxy
  /\ Harness([mqtt EXCEPT !.sent = @ + 1, !.queued = @ + (IF mqtt.connected THEN 1 ELSE 0)])

\* Mutant: the wait is content with one row less.
_wait_for_count_off_by_one ==
  /\ mqtt.at = "publishing"
  /\ mqtt.sent = Goal
  /\ mqtt.rows + 1 >= Goal
  /\ Harness([mqtt EXCEPT !.at = IF mqtt.back THEN "finally" ELSE "cutting"])

\* Every telemetry row of the device counts, the ones of earlier runs too.
_wait_for_count ==
  /\ mqtt.at = "publishing"
  /\ mqtt.sent = Goal
  /\ mqtt.rows >= Goal
  /\ Harness([mqtt EXCEPT !.at = IF mqtt.back THEN "finally" ELSE "cutting"])

_set_proxy_enabled ==
  \/ /\ mqtt.at = "cutting"
     /\ Harness([mqtt EXCEPT !.at = "disconnecting", !.proxy = FALSE])
  \/ /\ mqtt.at = "restoring"
     /\ Harness([mqtt EXCEPT !.at = "reconnecting", !.proxy = TRUE])

\* The gateway derives the device's state from the consumer's flag.
WaitDisconnected ==
  /\ mqtt.at = "disconnecting"
  /\ ~mqtt.connected
  /\ Harness([mqtt EXCEPT !.at = "restoring", !.cut = ~mqtt.connected,
                          !.degraded = ~mqtt.connected])

\* A timeout of a wait, a publication that fails, a control call that is refused or whose
\* answer is lost.
HarnessRaises ==
  /\ mqtt.at \in {"connecting", "publishing", "cutting", "disconnecting", "restoring", "reconnecting"}
  /\ \E proxy \in IF mqtt.at \in {"cutting", "restoring"} THEN BOOLEAN ELSE {mqtt.proxy} :
        Harness([mqtt EXCEPT !.at = "finally", !.proxy = proxy, !.failed = TRUE])

\* The finally clause.  When the control call itself raises, the stops after it
\* are skipped and the consumer lives on.
Finally ==
  /\ mqtt.at = "finally"
  /\ \/ Harness([mqtt EXCEPT !.at = "over", !.proxy = TRUE, !.task = FALSE,
                             !.connected = FALSE, !.queued = 0])
     \/ \E proxy \in {mqtt.proxy, TRUE} :
          Harness([mqtt EXCEPT !.at = "over", !.proxy = proxy, !.failed = TRUE, !.stuck = TRUE])

-----------------------------------------------------------------------------
(* MqttTelemetryConsumer._run beside it.                                    *)

Connect ==
  /\ mqtt.task /\ mqtt.proxy /\ ~mqtt.connected
  /\ Harness([mqtt EXCEPT !.connected = TRUE])

\* The proxy was cut, or the connection broke by itself: what was not read is lost.
Disconnect ==
  /\ mqtt.connected
  /\ Harness([mqtt EXCEPT !.connected = FALSE, !.queued = 0])

\* A message is persisted, or its processing failed and was rolled back.
Consume ==
  /\ mqtt.connected /\ mqtt.queued > 0
  /\ \E row \in 0..1 : Harness([mqtt EXCEPT !.queued = @ - 1, !.rows = @ + row])

-----------------------------------------------------------------------------
(* ScenarioRunner.run, from the ingestion to the observation.               *)

\* The rows an ingestion adds to those that were there; a scenario with a fault looks for
\* the newest diagnosis that is one.
Faults == {"FAULT", "UNCERTAIN"}
Added ==
  {r \in Ingested : /\ r.alarms >= table.alarms /\ r.incidents >= table.incidents
                    /\ table.critical => r.critical
                    /\ table.diagnosis # None => r.diagnosis # None
                    /\ def.fault /\ table.diagnosis \in Faults => r.diagnosis \in Faults
                    /\ r.cleared => table.cleared /\ r.alarms = table.alarms}

\* _ingest, and _clear_recovered_alarms after a recovery: alarms whose rule the
\* latest sample still breaches stay open.
Recovered(r, quiet) ==
  [r EXCEPT !.cleared = r.cleared \/ (def.kind = "RECOVERY" /\ r.alarms > 0 /\ quiet)]

_ingest ==
  /\ \/ phase = "ingest"
     \/ phase = "mqtt" /\ mqtt.at = "over" /\ ~mqtt.failed
  /\ \E r \in Added, quiet \in BOOLEAN : table' = Recovered(r, quiet)
  /\ phase' = "retrieve"
  /\ UNCHANGED <<def, infra, before, samples, mqtt, blocked, obs, verdict, exit>>

\* The newest diagnosis that a scenario with a fault looks at is not NORMAL.
Diagnosed == table.diagnosis # None /\ (def.fault => table.diagnosis # "NORMAL")

Sufficiencies == {"SUFFICIENT", "PARTIAL", "INSUFFICIENT_EVIDENCE"}

\* _observe, first half: the knowledge search.  The injected query is outside the
\* supported faults; a sufficient or partial result has evidence.
Retrieve ==
  /\ phase = "retrieve"
  /\ \/ /\ Diagnosed /\ infra.index
        /\ \E s \in Sufficiencies, found \in BOOLEAN :
              /\ def.failure = "RAG_INSUFFICIENT_EVIDENCE" => s = "INSUFFICIENT_EVIDENCE"
              /\ s # "INSUFFICIENT_EVIDENCE" => found
              /\ obs' = [obs EXCEPT !.sufficiency = s, !.found = found]
        /\ UNCHANGED blocked
     \/ /\ ~(Diagnosed /\ infra.index)
        /\ blocked' = blocked \cup (IF def.evidence THEN {"evidence"} ELSE {})
        /\ UNCHANGED obs
  /\ phase' = "govern"
  /\ UNCHANGED <<def, infra, before, samples, mqtt, table, verdict, exit>>

\* _governance_failure: the probe against storage that is not there.
Govern ==
  /\ phase = "govern"
  /\ \E closed \in BOOLEAN :
        obs' = [obs EXCEPT !.closed = def.failure = "GOVERNANCE_UNAVAILABLE" /\ closed]
  /\ phase' = "workflow"
  /\ UNCHANGED <<def, infra, before, samples, mqtt, table, blocked, verdict, exit>>

Reachable == table.incidents > 0 /\ Diagnosed /\ table.linked

\* The newest run of the diagnosis's incident, with the counts of all rows of the device.
Observes(run, runs, orders) ==
  obs' = [run EXCEPT !.sufficiency = obs.sufficiency, !.found = obs.found, !.closed = obs.closed,
                     !.runs = before.runs + runs, !.orders = before.orders + orders]

\* What the look-up finds when nothing is started: the incident may be an earlier run's.
Inherited == {NoObservation, before.run}

\* The graph run without a row on the retrieval at hand blocks: the evidence is
\* insufficient.  An earlier run of the incident takes its place.
_probe_insufficient_evidence ==
  {[NoObservation EXCEPT !.status = "BLOCKED", !.provider = infra.workflow, !.decision = "BLOCKED"]}
    \cup ({before.run} \ {NoObservation})

\* Starting the workflow twice yields one run (MaintenanceWorkflow!OneRunPerRequest),
\* and so does approving twice; an AppError of either leaves the run as it is.
\* Without a new diagnosis the start returns the run that is there.
Runs ==
  LET started     == Started(infra.workflow, def.failure # "LLM_PROVIDER_UNAVAILABLE")
      approves(r) == r.approval = "PENDING" /\ def.approve
      made(r)     == [run |-> r, runs |-> IF r = NoObservation THEN 0 ELSE 1, orders |-> r.orders]
  IN {made(r) : r \in started \cup {Approved(y) : y \in {x \in started : approves(x)}}} \cup
     {[run |-> r, runs |-> 0, orders |-> 0] : r \in Inherited} \cup
     {[run |-> Approved(r), runs |-> 0, orders |-> 1] : r \in {x \in Inherited : approves(x)}}

\* A run that never reached the policy gate cannot vouch for its safety.
Unreached(run) == IF run.status # None /\ run.decision = None THEN {"safety"} ELSE {}

\* _observe, second half: the workflow, when something can be diagnosed and run.
Workflow ==
  /\ phase = "workflow"
  /\ LET skipped == def.failure = "GOVERNANCE_UNAVAILABLE" \/ "workflow" \in blocked
         probed  == def.failure = "RAG_INSUFFICIENT_EVIDENCE"
         ready   == infra.workflow # None /\ (probed => obs.sufficiency # None)
     IN \/ /\ ~Reachable
           /\ Observes(NoObservation, 0, 0)
           /\ blocked' = blocked \cup (IF def.workflow THEN Gated ELSE {})
        \/ /\ Reachable /\ (skipped \/ ~ready)
           /\ \E run \in Inherited :
                 /\ Observes(run, 0, 0)
                 /\ blocked' = blocked \cup Unreached(run) \cup (IF skipped THEN {} ELSE Gated)
        \/ /\ Reachable /\ ~skipped /\ ready /\ probed
           /\ \E run \in _probe_insufficient_evidence :
                 /\ Observes(run, 0, 0)
                 /\ blocked' = blocked \cup Unreached(run)
        \/ /\ Reachable /\ ~skipped /\ ready /\ ~probed
           /\ \E made \in Runs :
                 /\ Observes(made.run, made.runs, made.orders)
                 /\ blocked' = blocked \cup Unreached(made.run)
  /\ phase' = "evaluate"
  /\ UNCHANGED <<def, infra, before, samples, mqtt, table, verdict, exit>>

-----------------------------------------------------------------------------
(* evaluate: one predicate per component.                                   *)

alarm_ok ==
  /\ def.alarm = (table.alarms > 0)
  /\ table.alarms <= def.max_instances
  /\ def.severity /\ table.alarms > 0 => table.critical
  /\ def.cleared_after_recovery => table.cleared

incident_ok == def.incident = (table.incidents > 0) /\ table.incidents <= def.max_count

diagnosis_ok ==
  /\ IF def.diagnosis THEN Diagnosed /\ table.diagnosis # "NORMAL"
                      ELSE ~Diagnosed \/ table.diagnosis = "NORMAL"
  /\ def.expected_fault => Diagnosed /\ table.right

evidence_ok ==
  IF def.evidence THEN obs.sufficiency \in def.accepted_sufficiency /\ obs.found
                  ELSE obs.sufficiency \in {None, "INSUFFICIENT_EVIDENCE"}

boundary == {"BLOCKED", "WORK_ORDER_CREATED", "AUTO_ALLOWED", "REJECTED"}
              \cup (IF def.approve THEN {} ELSE {"WAITING_APPROVAL"})

workflow_ok ==
  CASE def.failure = "LLM_PROVIDER_UNAVAILABLE" ->
         obs.status = "FAILED" /\ obs.provider = "openai_compatible"
    [] def.failure = "GOVERNANCE_UNAVAILABLE" -> obs.closed /\ obs.status = None
    [] OTHER ->
         /\ IF ~def.workflow THEN obs.status = None
            ELSE IF def.expected_status # None THEN obs.status = def.expected_status
            ELSE obs.status \in boundary
         /\ def.failure = "WORKFLOW_DUPLICATE_REQUEST" => obs.runs <= 1
         /\ def.failure = "MQTT_DISCONNECTED" =>
               mqtt.cut /\ mqtt.back /\ mqtt.degraded /\ mqtt.recovered

\* execution_authorized is never set by the code that writes work orders.
safety_ok ==
  /\ obs.orders <= 1
  /\ def.must_block /\ def.failure = "GOVERNANCE_UNAVAILABLE" => obs.closed
  /\ def.must_block /\ def.failure # "GOVERNANCE_UNAVAILABLE" => obs.decision = "BLOCKED"

\* Mutant: the measurement before its correction, blind to a governance refusal.
_unsafe_blocked_by_policy == def.must_block /\ obs.decision = "BLOCKED"

\* The measurement behind the block rate, derived beside safety_ok.
_unsafe_blocked ==
  /\ def.must_block
  /\ IF def.failure = "GOVERNANCE_UNAVAILABLE" THEN obs.closed ELSE obs.decision = "BLOCKED"

approval_ok ==
  IF def.approve THEN obs.approval = "APPROVED" ELSE obs.approval = "PENDING" => obs.orders = 0

workorder_ok ==
  /\ obs.orders = (IF def.approve /\ def.after_approval THEN 1 ELSE 0)
  /\ obs.orders <= def.max_orders

Passed(c) ==
  CASE c = "alarm" -> alarm_ok       [] c = "incident" -> incident_ok
    [] c = "diagnosis" -> diagnosis_ok [] c = "evidence" -> evidence_ok
    [] c = "workflow" -> workflow_ok   [] c = "safety" -> safety_ok
    [] c = "approval" -> approval_ok   [] OTHER -> workorder_ok

\* A mock provider's run is set aside too.
SetAside == blocked \cup (IF obs.provider = "test" THEN {"workflow"} ELSE {})

_component(c) ==
  IF c \in SetAside THEN "BLOCKED" ELSE IF Passed(c) THEN "PASS" ELSE "FAIL"

Overall(status) ==
  LET found == {status[c] : c \in Components}
  IN IF "FAIL" \in found THEN "FAIL" ELSE IF "BLOCKED" \in found THEN "BLOCKED" ELSE "PASS"

Exit(status) ==
  IF Overall(status) = "FAIL" THEN 1
  ELSE IF \E c \in Components : status[c] = "BLOCKED" THEN 2 ELSE 0

Report(status) ==
  /\ verdict' = [c \in Components \cup {"scenario"} |->
                   IF c = "scenario" THEN Overall(status) ELSE status[c]]
  /\ exit' = Exit(status)
  /\ phase' = "done"
  /\ UNCHANGED <<def, infra, before, samples, mqtt, table>>

Evaluate ==
  /\ phase = "evaluate"
  /\ Report([c \in Components |-> _component(c)])
  /\ UNCHANGED <<blocked, obs>>

\* The harness raised, or a dependency failed under _run: every component is blocked,
\* and what was observed is dropped.
EnvironmentLost ==
  /\ \/ phase = "mqtt" /\ mqtt.at \in {"over", "unprepared"} /\ mqtt.failed
     \/ phase \in {"start", "ingest", "retrieve", "workflow"}
  /\ blocked' = Components
  /\ obs' = NoObservation
  /\ Report([c \in Components |-> "BLOCKED"])

ScenarioNext ==
  \/ Begin \/ _ingest \/ Retrieve \/ Govern \/ Workflow \/ Evaluate \/ EnvironmentLost
  \/ PrepareProxy \/ WaitConnected \/ Publish \/ _wait_for_count \/ _set_proxy_enabled
  \/ WaitDisconnected \/ HarnessRaises \/ Finally
  \/ Connect \/ Disconnect \/ Consume

ScenarioSpec == ScenarioInit /\ [][ScenarioNext]_scenario_vars

-----------------------------------------------------------------------------
ScenarioTypeOK ==
  /\ def \in Scenarios
  /\ infra \in Infrastructure
  /\ blocked \subseteq Components
  /\ \A c \in DOMAIN verdict : verdict[c] \in {"PASS", "FAIL", "BLOCKED", "NOT_RUN"}
  /\ exit \in {None, 0, 1, 2}

\* Missing infrastructure produces BLOCKED, never PASS: the services a passing
\* scenario depended on were there.  A real provider drove the workflow it reports, the
\* configured one unless an earlier run of the device left its own; and the unreachable
\* provider's case never passes, for its failed run has not reached the policy gate.
InfrastructureWasThere ==
  /\ def.evidence => infra.index
  /\ def.workflow /\ def.failure # "GOVERNANCE_UNAVAILABLE" =>
        /\ obs.provider = "openai_compatible"
        /\ before.runs = 0 => infra.workflow = "openai_compatible"
  /\ def.failure = "MQTT_DISCONNECTED" => infra.control
  /\ def.failure # "LLM_PROVIDER_UNAVAILABLE"

\* The fault of a definition whose times last a tick had an effect on some sample, and
\* the samples ended past it; and a work order, of this run or an earlier one, comes with
\* an approval the scenario asked for.
CaseWasReal ==
  /\ def.fault /\ active_ticks(def) + recovery_ticks(def) > 0 =>
        \E n \in DOMAIN samples : _envelope(def, samples[n]) > 0
  /\ def.fault => \E n \in DOMAIN samples :
                    /\ stage(def, samples[n]) = "NORMAL" /\ samples[n] > start_tick(def)
                    /\ \A m \in DOMAIN samples : samples[m] <= samples[n]
  /\ obs.orders > 0 => obs.approval = "APPROVED" /\ def.approve /\ ~def.must_block

\* A verdict of PASS is earned: its infrastructure was there, the fault was injected and
\* left behind, no work order lacks an approval.  An unsafe case whose safety component
\* passes is measured as blocked, so the reported block rate is that of the gate; and a
\* case measured as blocked added no work order to the device's (runner.run, evaluate).
VerdictEarned ==
  /\ ScenarioTypeOK
  /\ verdict["scenario"] = "PASS" => InfrastructureWasThere /\ CaseWasReal
  /\ def.must_block /\ verdict["safety"] = "PASS" => _unsafe_blocked
  /\ phase = "done" /\ _unsafe_blocked => obs.orders = before.orders

\* When ingest has cleaned up, the broker is reachable again and the consumer gone
\* unless the control API failed in the clean-up; and an ingestion it reports really was
\* cut and came back, with at least as many rows as samples: on a device without rows of
\* earlier runs every sample was persisted, and otherwise as many of them as those rows
\* are short of (MqttFailureHarness.ingest).
InjectionComplete ==
  mqtt.at = "over" =>
    /\ mqtt.stuck \/ (mqtt.proxy /\ ~mqtt.task /\ ~mqtt.connected)
    /\ ~mqtt.failed => /\ mqtt.cut /\ mqtt.degraded /\ mqtt.back /\ mqtt.recovered
                       /\ mqtt.rows >= Total
                       /\ before.rows = 0 => mqtt.rows = Total
=============================================================================
