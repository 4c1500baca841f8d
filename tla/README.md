# Formal model of the Industrial AI Control Tower

TLA+ specifications of the control logic of the Control Tower's backend, the TLC
configurations that check them on small instances, and TLAPS proofs that hold for
every value of the constants. Source paths below are relative to the repository.

## 1. The system

Devices are polled by a protocol gateway or publish over MQTT. Each sample is
ingested in one transaction that also evaluates alarm rules and attaches alarms to
incidents; after it the latest value is cached, sent to WebSocket clients, and windows
of samples are diagnosed; a diagnosed incident is given to a graph of agents that plans
maintenance from retrieved knowledge; a deterministic policy blocks the plan, lets it
through, or asks a person; the result is a draft work order. Devices are configured by
versioned configurations that an operator publishes and the gateway applies. Identities,
roles, deny policies and organization scopes decide who may do which of these.

| Component | State | Operations | Hard because | Correct when |
|---|---|---|---|---|
| Maintenance workflow (`backend/app/workflow`) | `workflow_runs`, `maintenance_plans`, `approvals`, `work_orders`, `incidents.status`, LangGraph checkpoints | `start`, graph nodes, `decide_approval`, `cancel` | checkpoints and rows are committed separately; the graph runs outside any transaction; reviewers, cancels and crashes interleave | a work order is authorized, a decision is final, a run is unique |
| Safety policy, knowledge retrieval (`policy.py`, `backend/app/knowledge`) | none | `decide`, `validate_grounding`, `search` | one missed rule lets a plan run without a person | only low-risk, grounded plans pass alone |
| Device configuration (`backend/app/assetconfig`) | `device_configurations`, runtime-status rows | draft, clone, update, delete, validate, publish, apply | rows are read, checked and written later without locks; validation, model and adapters state their conditions apart | one published version, immutable, runnable, truthfully reported |
| Gateway (`gateway/gateway.py`) | `_runtimes`, `_applied_versions` | register, start, apply, stop | an application spans several awaits; applications overlap; start-up after a crash | the device is polled by the runtime the gateway refers to, and no other |
| Device runtime (`gateway/runtime.py`) and adapters (`backend/adapters`) | state, task, adapter, counters, connection | `start`, `stop`, poll, retry | cancellation at any await; a deadline on stop; adapters that refuse reads after an error | one poller, true state, bounded retries, no connection left open |
| Ingestion, alarms and correlation (`services/telemetry.py`, MQTT consumer, `backend/app/incidents`) | `telemetry`, `alarms`, `incidents`, `incident_alarms` | `ingest_payload`, breach, acknowledge, clear, correlate | redelivery, late samples, contained faults; two workers read before either writes; operators race ingestion | each sample counts once, one open instance per rule, every alarm in an incident |
| Alarm rules (`rules.py`, `AlarmRuleService`) | `alarm_rules` | create, patch, evaluate | a patch is validated against what was loaded | no stored rule raises, or never fires unnoticed |
| Cache, WebSocket fan-out, diagnosis (`redis/latest.py`, `websocket/manager.py`, `services/diagnosis.py`) | Redis value, queues, windows, `diagnoses` | `set_if_newer`, `latest`, `broadcast`, `handle`, `warm` | what follows the commit can be lost or reordered; queues are bounded | the cache never moves back, clients catch up, windows are spaced |
| Incident lifecycle (`states.py`, `operations.py`) | `incidents` | operator commands, creation, links | writers with different rules, commits over stale loads | only moves of the table, time stamps of resolved incidents |
| Authentication (`security/service.py`, `rate_limit.py`, `api/auth.py`) | users, roles, tokens, a Redis counter | register, login, authenticate | two commands per counter; tokens outlive roles | nobody promotes himself, budgets hold, blocks end |
| Governance (`policy_engine.py`, `api/governance.py`) | deny policies, change records | policy decision, administration | requests are authorized, loaded and committed apart; clock windows | rules bite, a freeze holds, a change has its window |
| Organizations and scopes (`scope_policy.py`, `api/organizations.py`) | organizations, plants, areas, bindings | create, delete with cascade, bind, resolve | resolution takes several queries; bindings have no foreign keys | nobody is admitted above or beside a binding |
| Agent observability (`backend/app/observability`) | traces and their steps | open, complete, refresh | the tracer sees a run through what calls returned | a trace tells what the run did |
| Scenario evaluation (`backend/app/scenarios`) and simulator | observation, verdict | generate, inject, observe, evaluate | consumer, broker and harness interleave; many outcomes | PASS is earned |
| Asset hierarchy, machine learning, platform observability, scripts, frontend | see `PROJECT.json` | | | not modelled |

Interaction: the gateway runtime and the MQTT consumer call ingestion; ingestion calls
alarms and correlation inside its transaction, and cache, fan-out and diagnosis after
it; operators, correlation, diagnosis and workflow share `incidents`; the configuration
service calls the gateway and the gateway creates device runtimes; the tracer wraps the
workflow service; every API handler asks the security layer first.

## 2. Modules

| Module | Models | Main state |
|---|---|---|
| `SafetyPolicy` | `workflow/policy.py` as operators on sets of steps | constants `Evidence`, `Plans` |
| `KnowledgeRetrieval` | `build_query` and `KnowledgeIndex.search` as operators | none |
| `MaintenanceWorkflow` | `workflow/service.py`, `workflow/graph.py` | rows as functions from start calls; `node` is the checkpoint; `rpc`, `rrun`, `rdecision` the decisions in flight |
| `ConfigurationValidation` | `DeviceDefinition`, `validate_configuration`, the adapters' constructors, as predicates of a payload | none |
| `DeviceConfiguration` | `assetconfig/service.py`, `repository.py`, `source.py`, `gateway.apply_device_definition`, the commands that start and stop a device, runtimes that give up, start-up | `vstatus`, `vcontent`, `reported` (tables), `tracked`, `gatewayApplied`, `definition`, `running` (gateway), `call`; history `halted`, `unrecorded` |
| `AlarmCorrelation` | ingestion transaction, alarm instances, correlation, operator commands | `stored`, `alarm`, `incident`, `links`, `worker`, `command` |
| `AlarmRules` | `AlarmRuleService`, `validate_rule_definition`, evaluation | `rule`, `call` |
| `DeviceRuntime` | `gateway/runtime.py` with the status of the adapters | the runtime's attributes, `pc` of its tasks, `link`, `stopping`; history `overlapped`, `robbed` |
| `LatestValue` | what the latest-value cache promises: an abstract specification | `known`, `shown` |
| `TelemetryPipeline` | what follows the commit of a sample, with reads, clients, restarts | `stored`, `cache`, `worker`, `reader`, `client`, `buffer`, `diagnosis`; history `fate` |
| `IncidentStates`, `IncidentLifecycle` | the status vocabulary; all writers of an incident but the alarms | `row`, `link`, `run`, `call` |
| `Identity` | registration, login limiter, tokens, principals, `create_admin.py` | `user`, `audit`, `failures`, `token`, `call` |
| `Governance` | policy engine, deny policies, change records | `policy`, `change`, `request` |
| `OrganizationScope` | hierarchy, bindings, both resolutions of `scope_policy.py` | `organization`, `plant`, `area`, `device_scope`, `user_scope`, `request`, `resolution` |
| `AgentTrace` | `ObservableWorkflowService`, `WorkflowTracer` | `wf`, `ruling`, `trace`, `began`, `call`; history `stale`, `forked` |
| `ScenarioEvaluation` | runner, MQTT failure harness, `evaluate` | `before`, `phase`, `mqtt`, `table`, `obs`, `verdict` |
| `MC*` | instances for TLC | |
| `MaintenanceWorkflowProofs`, `DeviceConfigurationProofs`, `DeviceRuntimeProofs`, `AlarmCorrelationProofs`, `TelemetryPipelineProofs`, `AccessProofs`, `GovernanceProofs`, `IncidentLifecycleProofs` | theorems (section 4) | |

Each definition keeps the name of the function it translates where there is one; the
`map` of `PROJECT.json` gives its lines. Operators whose comment begins with "Mutant"
are plausible mistakes in the definition that follows them; no specification uses
them, `PROJECT.json` says which property finds each.

Composition: `MCDeviceConfiguration` takes its contents, and which of them are valid,
from `ConfigurationValidation`; `MCMaintenanceWorkflow` takes what the agents are given
from `KnowledgeRetrieval`'s search; `MaintenanceWorkflow` uses `SafetyPolicy` and, with
`IncidentLifecycle`, the vocabulary of `IncidentStates`. `TelemetryPipeline` implements
`LatestValue` (`INSTANCE LatestValue WITH known <- stored, shown <- cache`).

### Grain of the steps

- *Workflow*: a step is a database transaction, or a node of the graph, whose checkpoint
  is committed on a connection of its own. `decide_approval` holds its row locks from the
  read to the commit, with the resumption of the graph in between, so it is three steps
  (begin, resume, commit or abort); a second decision cannot begin on the run meanwhile,
  and `cancel` and `_persist_result` wait for the same lock.
- *Configuration*: a call loads and checks its row in one step and writes in another, as
  nothing locks the row; the unit of work writes only the columns the call has changed.
  CHECK constraints and the partial unique index on published rows are guards; a refused
  write is `Rollback`. The outcome of an application may be lost with the database while the
  process goes on (`RecordLost`). Starting and stopping a device, and a runtime that gives up,
  are steps of their own (`start_device`, `stop_device`, `RuntimeEnds`). Start-up is one step,
  as nothing else runs yet.
- *Alarms*: a transaction reads the open instance, writes it (row lock, or index entry,
  from here to its end), reads the live incident, and commits. The columns written are
  computed from what was read.
- *Runtime*: all calls and tasks share an event loop, so a step is what lies between two
  awaits; cancellation is delivered at the await a task is at.
- *Telemetry*: commit, cache, and fan-out with the handling up to the inference are the
  steps of an ingestion, which may be cancelled or fail between them (`Abandon`); the persisting
  of a diagnosis is another. `set_if_newer` is a Lua
  script and atomic. A read of the latest value looks at the cache, then at the table, then
  writes back.
- *Incidents, rules, governance*: a request loads its row and commits later; the flush
  writes the columns that differ from what was loaded over whatever the row has become.
- *Organizations*: a row and the foreign key it is checked against are one step; the
  replacement of bindings is validation, DELETE of its snapshot, INSERT with commit; a
  caller's reach is resolved query by query, each seeing what is committed then.
- *Identity*: every Redis command and every query is a step, and every Redis command may
  fail, which the limiter ignores.
- *Trace*: opening, reading and writing of a trace are transactions of their own beside
  the delegated call; a call may be interrupted between any two of them, may raise after its
  commit, and answers a repeated decision from the row.
- *Scenarios*: harness, consumer and broker proxy interleave; the services' outcomes are
  choices over what they can leave in the tables, on top of what earlier runs left there.

### What the models leave out

- *Workflow*: the texts of plans and reviews, prices of calls, audit rows. A provider may
  return any plan of `Plans` and any review. Diagnoses do not change during a behaviour.
  The run that a crash, or a start whose result is lost
  (`ResultLost`), leaves behind stays CREATED, as in the code. `aborted` is a history variable.
- *Configuration*: one device, a managed gateway (the path without one answers PENDING),
  updates that change something, names of runtimes reused once free.
  A runtime is what the gateway counts as started: connection losses it recovers from are
  `DeviceRuntime`'s, and of a device fed over MQTT nothing polls. `halted` and `unrecorded` are
  history. A version number
  given free by a racing deletion and taken again within one call is not modelled. In
  `ConfigurationValidation` the registers of a payload share an address and a scale.
- *Alarms*: one device; a sample breaches one rule (a sample that breaches several runs
  the same steps in sequence, in one transaction); severities of rules are fixed;
  incidents opened by hand have another anchor and are not there; every incident stays
  live, because no code writes MITIGATED.
- *Rules*: one rule; name, description, severity and priority, which are checked field by
  field and not evaluated.
- *Runtime*: an enabled, polled device; the poll interval is part of the read; an error
  of `disconnect`, or a cancellation that meets it, still counts as disconnected.
  `overlapped` and `robbed` are history variables; the properties that exclude `overlapped` behaviours
  hold as long as `start` is not called before an earlier `stop`, or a task it gave up
  waiting for, has come to its end.
- *Telemetry*: one device, a sample is its timestamp; a reconnecting client is new; `fate` is
  history.
- *Incidents*: severity, text and alarms; `mitigated`, `overwritten` and `born` are history
  variables. `Mitigate` stands for a writer of MITIGATED that the repository announces
  and does not have; without it half of the transition table could not be reached.
- *Identity*: passwords, hashes, signatures; one origin for the limiter. `trusted`,
  `demoted` and `faults` are history.
- *Governance*: names and descriptions; a clock of four times a day; of the permission
  vocabulary the two that the modelled routes require and `user.manage`, which stands for those that
  no route asks `require_permission` for.
- *Trace*: the step tables are the call that projected them; `stale` and `forked` are history.
- *Scenarios*: signal values, reports, archives.
  What earlier runs can leave is a choice from `Earlier`.

## 3. What TLC checks

| Run | Instance | Properties | Distinct states |
|---|---|---|---|
| `workflow` | 2 start calls, 2 reviewers, 2 diagnoses, 3 plans, 2 attempts, what the search finds for a known and an unknown fault, crashes | `OrderAuthorized`, `RunsAndOrders`, `ApprovalsSound`, `IncidentStatusEarned`, `DecisionsStand`, `StartsEnd` | 151 thousand |
| `config` | serial: 1 call at a time, 3 versions, 4 contents; overlapping: 2 calls, 2 versions, 1 content, 1 runtime halted or an outcome lost; starts and stops, runtimes that give up, crashes, failed applications, lost outcomes | `SerialTruth`, `VersionsSound`, `TrackedRuns`, `SerialRowsImmutable` | 381 thousand |
| `alarms` | 2 ingestions, serial or overlapping, 1 operator, 3 timestamps, 2 rules, redelivery, contained faults | `Counts`, `OpenAndLinked`, `SerialActivityForward` | 286 thousand |
| `runtime` | 2 tasks, 2 operators, thresholds 2 and 4, 2 retries, the deadline of `stop` may pass, starts before an earlier stop has ended | `ConnectionsOwned`, `StateIsTrue`, `RetriesEnd`, `FailedLinkRenewed`, `StoppedTasksEnd` | 55 thousand |
| `telemetry` | 2 ingestions that may be abandoned, 1 read, 1 client with a queue of 1, 5 timestamps, window 3, stride 2 | `NothingUnannounced`, `ClientsCatchUp`, `DiagnosesSpaced`, `LatestWins` | 756 thousand |
| `incidents` | 3 incidents, 2 diagnoses, 2 requests, workflows | `LeavesLiveOnlyMitigated`, `DuplicatesBounded`, `StampsUnlessOverwritten` | 862 thousand |
| `rules` | 2 signals of overlapping ranges, 4 operators, 2 editors | `EvaluationNeverRaises`, `InertOnlyAtTheEdges` | 154 thousand |
| `identity` | 2 identities, 2 calls, limit 2, window 2, Redis failing anywhere | `NoSelfPromotion`, `OverrunBounded`, `RevokedAtOnce`, `BlockEndsUnlessLost` | 312 thousand |
| `governance` | 2 users, 2 requests, 1 policy with 3 permissions and 5 condition objects, 1 change record | `RulesBite`, `WindowBeforeProgress`, `FreezeHolds` | 311 thousand |
| `organizations` | 1 organization, 2 plants, 2 areas, 1 device, 1 bound user, 1 replacement and 1 resolution in flight | `AdmittedBelowBinding`, `ReachIsSubtree` | 230 thousand |
| `trace` | 2 start calls, 2 decisions, at most 1 agent; raises after the commit, interrupted calls, tracing that fails | `TraceIsTruthful`, `ProvisionalEnds` | 241 thousand |
| `scenarios` | the shapes of the frozen suite `scenarios/v1` and one whose fault rounds to no tick; 5 histories of the device; the proxy left on or off | `VerdictEarned`, `InjectionComplete` | 1.39 million |

Two comparisons are evaluated over all bounded inputs instead of states:
`AcceptedIsRunnable` (what `validate_configuration` accepts is what the adapters'
constructors take, but for blank texts) and `SufficientIsGrounded` (a retrieval that is
not INSUFFICIENT has evidence of the right equipment for a supported fault). `WindowsAreCyclic`, part of `RulesBite`, is
the reference definition of a time window that `_matches_time_window` is compared with;
`ReachIsSubtree` compares the top-down resolution of a caller's reach with a bottom-up
definition.

A property whose name begins with `Serial`, and the second conjunct of `Counts`, is one
that the code keeps only without overlap; behaviours of those runs choose at the start
whether they are serial. Serial behaviours have crashes, failures, redelivery and late
samples all the same. `MCIdentity` likewise chooses between the limiter and authority, as
the two share nothing but the calls.

**Bounds.** Two actors are the smallest number for which each race of section 1 exists:
every lock, index and check in the code is between two parties. Two start calls may ask
for the same run or for different ones. The plans are one harmless, one invasive, one that
cites what was not retrieved; the tables hold an unknown, a low and a high severity, an
uncertain diagnosis and one of no incident. Three versions make a published version
archived and its successor too; the third has the content of one of the others (`SerialBound`).
The contents are one that is polled, one fed over MQTT, one that
validation refuses and one with a blank host, which it accepts and no adapter takes. Two tasks are one that is stopped or abandoned and the one
started after it; two retries and thresholds 2 and 4 make every counter pass each of its
limits. Time in `AlarmCorrelation` holds a sample at the edge of and one beyond the
window of 1. Five timestamps in `TelemetryPipeline` fill a window of 3 and come to the
next stride, with samples left to be late or lost. A queue of 1 is full with one value. A
limit of 2 failures is passed by two parallel calls and by a third. The day of four clock
times has windows inside the day, over midnight and empty. `MCIncidentLifecycle` lets one
incident be worked on while the others stay as they were created: incidents meet only
through the link of a diagnosis. `MaxAlarms`, `MaxIncidents`, `MaxVersion`, `RuntimeIds`,
`Tasks`, `MaxTokens` and `MaxCount` bound otherwise unbounded sequences; where one is
exhausted, or all calls are made, the behaviour just ends, which is why those runs do not
check deadlock.

**Fairness.** Weak fairness on the steps of calls and tasks that have been taken up: the
event loop runs what can run, and provider, database, adapter and apply waits have
timeouts (`agent_timeout_seconds`, the gateway's apply and read timeouts). `Identity`
assumes that time passes and that a Redis command is answered or fails. Nothing is
assumed of operators, of success, or of crashes stopping.

**Where code and documents part.** Met while modelling; each is a behaviour of the
models, and the properties above are stated so as to hold beside it.

- A run cancelled while its graph runs is overwritten by `_persist_result`
  (`workflow/service.py:415`) and can be approved; `docs/HUMAN_APPROVAL.md:22` says it cannot.
- `decide_approval` resumes the graph before it commits (`workflow/service.py:562`). When the commit
  is lost, the decision is not on record and the checkpoint has gone its way: a rejection that is
  lost so can be followed by an approval, which creates a work order over a graph that stands at
  `rejected`, where `docs/HUMAN_APPROVAL.md:10` says "Resume to `REJECTED`; no work order".
  `ApprovalsSound` excepts exactly the runs in `aborted`, and within them admits only a graph at
  one of the two outcomes.
- A start whose result, or whose FAILED, cannot be written leaves its run CREATED, without an
  approval and without recovery (`workflow/service.py:376`, `:414`).
- Of two overlapping applications the one that swaps its runtime last may record first, and
  the status then reports in sync what does not run (`gateway/gateway.py:251`,
  `assetconfig/apply.py:3`). Overlapping applications, or a command to start a device while an
  application is about to swap its runtime, can also leave a runtime that polls and that the gateway
  no longer knows (`NoOrphanRuntime` holds for serial behaviours only).
- After a device was stopped, or its runtime gave up and is in ERROR, the configuration is still
  reported in sync, as nothing writes that row; only the runtime's own state tells. `TrackedRuns`
  and `SerialTruth` except the runtimes in `halted`.
- A database failure in `_record_apply` (`assetconfig/service.py:590`) leaves APPLYING behind in a
  process that is up, until the next application or start-up; `ApplyingIsExplained` says that nothing else
  does.
- An `update_draft` loaded before a publication changes the
  published row (`assetconfig/service.py:337`, `docs/ASSET_DEVICE_CONFIGURATION.md:288`).
- A host or node id of white space passes validation and makes the adapter's constructor
  fail after the publication. No definition of the simulator protocol validates, though the
  documents list it as supported (`docs/ASSET_DEVICE_CONFIGURATION.md:203`).
- A sample that arrives late opens a second incident however close it is
  (`incident_service.py:346`, `docs/INCIDENT_LIFECYCLE.md:116`).
- `start` does not reset `_reconnect_attempts` (`runtime.py:130`); a task abandoned by `stop`
  takes its successor's adapter in its `finally` (`runtime.py:168`, `:318`), and a `stop` that a start
  overlaps takes the new task's (`:194`); the successor, if it is in the middle of connecting, then has a connection
  that nobody closes. `robbed` names those tasks, and `NoLeak` says that only they can leak.
- Two ingestions may broadcast in another order than they updated the cache, so clients are
  left with the older value (`docs/INGESTION_PIPELINE.md:27`); a read that rebuilds the cache
  between commit and `_publish_latest` makes the sample go unannounced (`telemetry.py:160`, `:167`); and so does the end of the
  ingesting task there, by cancellation or by a query that fails (`telemetry.py:170`).
- Racing `create_incident` calls make an incident each; a failed run leaves its incident
  UNDER_ANALYSIS; a raw workflow write can take an incident out of CLOSED.
- Racing patches store a threshold outside its signal's range
  (`docs/ALARM_LIFECYCLE.md:68`); `GT` the top and `LT` the bottom of a range never fire; an
  explicit null for `enabled` passes validation and ends as a database error.
- An acknowledgement that loaded its alarm before the alarm was cleared takes it back to
  ACKNOWLEDGED, cleared as it is (`incidents/service.py:341`); no property excludes that.
- Parallel logins overrun the failure budget by the calls in flight, and an origin whose
  EXPIRE was lost is refused for good (`rate_limit.py:118`, `docs/SECURITY_MODEL.md:340`).
- A policy with `{}`, with roles that do not exist, or with equal start and end never refuses
  anyone, though `_validate_conditions` is there to "reject condition payloads the engine would treat
  as inert" (`governance.py:264`). Equal times are documented to wrap midnight
  (`policy_engine.py:19`, `docs/GOVERNANCE_MODEL.md:86`) and make an empty window. Neither does a
  policy on a permission that no route asks `require_permission` for: `user.manage`, which
  `auth.py:112` checks by itself, `telemetry.read`, `dashboard.read`. `Inert` names these four kinds, and
  `StoredRulesBite` proves there is no fifth. A freeze of
  `governance.manage` cannot be lifted through the API.
- Two replacements of a user's bindings leave the union of both (`organizations.py:539`);
  bindings to deleted nodes stay and reach nothing; siblings of a bound node can be seen
  through `resolve_organization_access`.
- A trace refreshed by a replay keeps the status it saw when the run fails later; a run that
  fails in its own call, or whose start raises after the commit, is not linked by that call.
  Of two answers the outdated one may be written last, and two starts may both link the run
  (`tracer.py:236`). A call interrupted before it completes leaves its trace RUNNING.
- In the MQTT harness a control call that raises in `finally` skips the stopping of the
  consumer and the gateway (`mqtt_failure.py:122`), and a proxy that cannot be prepared is left as it was.
- A scenario may be run on a device that exists (`runner.py:162`). `_wait_for_count` and `_observe`
  then count the rows, work orders and runs of earlier scenarios (`mqtt_failure.py:193`), so waits pass
  on earlier rows, and a PASS may rest on the provider of an earlier run. `InjectionComplete` says what
  the count still shows, `VerdictEarned` counts orders from `before`.
- A fault whose duration rounds to no tick, and that has no recovery, injects nothing
  (`runner.py:178`), though `contracts.py:145` asks for a positive duration; such a scenario may pass on
  the rows of an earlier one. `VerdictEarned` claims an effect only of times that last a tick.

## 4. What is proved

Every safety property that a run checks is also a theorem, for all values of the constants.
Four proof modules extend two components each, one of which therefore prefixes the names of
its specification (`ScopeInit`, `RegistryInit`, `TraceInit`, `ScenarioInit`).

`MaintenanceWorkflowProofs`, from the named assumptions on constants only:

- `TypeCorrect`: `Spec => []TypeOK`.
- `Invariance`: the inductive invariant `IInv`. It relates, per run, the rows with one
  another (`RowsOfRun`), the rows with the checkpoint (`StateOfThread`: for instance a
  thread at `auto_allowed` has a plan the policy let through, and a work order without
  approval only comes from there), and each decision in flight with the rows it holds
  locked (`ReviewInv`, `OneReviewPerRun`). `OrderAuthorized` alone is not inductive:
  a decision that is about to commit must be known to have found plan and approval equal
  and to still hold the lock.
- `OrdersAreAuthorized`, `OrdersMatchStatus`, `ApprovalsAreSound` follow from `IInv`, the
  first with `AutoAllowedIsLowRisk`, a lemma about the policy for arbitrary arguments, the last
  with `Agreement`: unless a decision on the run was lost after its resume, the graph stands where
  the decision on record, or the one that is about to be committed, has sent it.
- `DecisionsAreFinal`: `Spec => DecisionsStand`, an action property from `IInv`.
- `RunsAreUnique`: with `KeyInv`, which says that of the calls between lock and commit
  only one has a given key, and that a prepared one has no earlier run. With
  `OrdersMatchStatus` it gives `RunsAndOrdersAgree`.
- `IncidentStatusIsEarned`: `WitnessStep` says that what a run has shown (that it came to
  the approval, that it has its order) is never taken back, `MovedStep` that a step which
  writes the incident's status has such a run; together they make the property inductive.

The same module, for `AgentTrace` and any number of starts and decisions:

- `TracesAreTruthful`: the property speaks of states in which every call has returned;
  `TraceInv` says what holds on the way there. A call writes to its own trace or to a linked
  one (`OwnInv`), and traces began in the order of their calls, so the one that is found is
  the newest (`OrderInv`). Unless two transactions of the tracer overlapped, one trace is linked
  and has one projection of the steps (`SoleInv`, under `~forked`); unless the tracer was not
  told of a status or wrote an outdated one last, the trace that is found has the status of the
  run or a call in flight is about to write it (`StatusInv`, under `~stale`).

`DeviceConfigurationProofs`:

- `TypeCorrect`, and `SinglePublished` (`OnePublished` is inductive with types: the index
  refuses a promotion that would meet another).
- `VersionsAreSound`, which adds two to it: an APPLYING that no call is about to settle had its
  outcome lost (`ApplyingStep`), and what is desired is never taken away without a successor
  (`DesiredStep`, from `HoldsContent`, that a call past its load holds content, and `NextVersionIsNew`).
- `GatewayKeepsPolling`: `TrackedRuns` needs that a process that is down has no calls
  (`DownIsIdle`), and that the candidate of a call belongs to it alone and runs, unless it gave
  up by itself, until it is discarded (`CandidateInv`).
- `SerialIsTruthful` and `SerialRowsAreImmutable`: `SerialInv`, for behaviours with one call at
  a time. What a call has read is still what the row holds (`Fresh`), so what is published is
  valid (`RowsInv`); whatever runs is the gateway's runtime or the candidate of the one
  application, and each pc of the application says which of them run (`Handover`,
  `GatewayInv`). Stops and runtimes that give up are allowed at any step (`Polls`, `InService`).
  `SerialTruth` alone says nothing of the steps between two reports. They are about `EitherSpec`,
  the choice of section 3 without the bounds of the instance, and assume that the device is
  in the YAML file (`Bootstrap # NoContent`): otherwise a start-up that cannot read the published
  rows leaves an APPLIED that nothing runs. Nothing is assumed of what validation accepts: a
  content that no adapter takes fails its application.

`DeviceRuntimeProofs`, for any number of tasks, start and stop calls and any thresholds:

- `TypeCorrect`, and the inductive invariant `RInv`: only the task the runtime refers to
  is active (`ActiveInv`); the adapter it holds belongs to a task that has built it and has
  not come to its `finally` (`AdapterInv`); unless a start met a stop under way, one
  task is live and none is active while a stop is under way (`SoleInv`); and, whatever overlaps, an open
  connection is held by the adapter, a `finally` block or a stop, or its task was robbed of
  it (`LinkInv`).
- `ConnectionsAreReleased`: `NoLeak`, from `LinkInv` and from `SoleInv`, by which only a start that came
  too early robs anybody: nobody is left to hold a connection once all have ended, so only those
  of robbed tasks are open.
- `PollerIsUnique`: from `ActiveInv`, with the cardinality theorems of finite sets. The two
  are `ConnectionsAreOwned`.
- `StateIsTruthful`: `StateInv` on top of `RInv`; for each await of the runtime's task it says
  which states, and how many failures, go with it (`Tells`). It needs that a cancelled task is
  no longer the runtime's (`CancelInv`).

`AlarmCorrelationProofs`, for any number of workers, operators, rules and samples:

- `TypeCorrect`, which needs that a transaction in flight has a rule (`WorkInv`).
- `OpenInstanceIsUnique`: `OneOpenPerRule` with `InsertInv` (a transaction that has
  inserted an instance has the rule's place in the unique index to itself, and nothing of
  the rule is open until it ends) and `CommandInv` (the instance a command has checked is
  there, though perhaps cleared meanwhile).
- `AlarmsBelongToIncidents`: with the part of `WorkInv` that says the incident a
  transaction has found stays live. The two are `OpenAlarmsAreLinked`.

- `BreachesAreCounted`: `Counts` compares cardinalities, so `CountInv` carries a function from
  stored breaches to numbered occurrences: it covers what is counted and what transactions in
  flight have read as counted (`Covers`: no breach counts twice), and in serial behaviours it is
  exact (`Exact`: none is lost). It needs that of two deliveries of a sample one is in flight
  (`TimeInv`) and that transactions refer to instances of their rule (`RefInv`).
- `ActivityMovesForward`, and the severities of `Counts`: in serial behaviours what a transaction
  has read is what is stored (`OrderInv`).

The same module, for `AlarmRules`, any ranges of signals and any number of editors:

- `StoredRulesEvaluate` and `OnlyEdgesAreInert`: `RegistryInv`. A row, and each patch in
  flight, is sound column by column (`SoundRow`, `SoundPatch`), which is all that evaluation
  needs and what no merge of racing patches can break; that a threshold lies in the range of
  its signal relates two columns, so it is kept only until a patch is committed over a row
  changed since its load, and a validated patch is known to fit the row until then (`SoundCall`).

`TelemetryPipelineProofs`, for any number of workers, readers, clients and samples, any
window, stride and queue size, and a restart or loss of the cache at any step; the inductive
invariant is `TInv`:

- `CacheImplementsRegister`: `Spec => LatestWins`, the refinement of `LatestValue`: initial states
  map to initial states, every step to a step of the register or a stutter. It rests on
  `DataInv`: what cache, reads and ingestions refer to is in the table.
- `LatestIsAnnounced`: inductive with `DataInv`; `fate` tells the rows cut off by a restart or an
  abandoned ingestion, and those a read had cached first, from those that must still be announced.
- `SlowClientsCatchUp`: with `ClientInv` (queues are bounded and hold stored samples).
- `Spacing`: `OnceInv` says that no two windows diagnosed or in inference end alike, `SpaceInv`
  that the counter has seen no more samples than the table holds behind any such end; the
  window restored by `Restart` is why the table and not the buffer is counted.

`AccessProofs`, for `Identity` and any number of identities, calls and limits:

- `Promotion` and `Revocation`: `RoleInv` (whoever is an administrator became one outside of the
  API or by a registration that is in the audit trail) and `AuthorityInv` (the authority a call
  carries is its actor's, unless changed since).
- `Overrun`: `BudgetInv`, a bound on the failures counted and the calls that may still count one.
  A call enters that set only by passing the check.

The same module, for `OrganizationScope` and any hierarchy, bindings and interleaving of
cascades with the queries of a resolution:

- `AdmissionIsBelowBinding`: no plant or area is left without its parent by any cascade
  (`NoOrphans`); whatever the queries of a resolution have collected so far is bound, lies
  below a bound node, or has been deleted since (`CollectedInv`); a replacement in flight is of
  a principal's bindings (`ReplacementInv`).
- `ReachIsTheSubtree`: from `NoOrphans`; the top-down resolution of a caller's reach is the
  bottom-up one, in both directions.

`GovernanceProofs`, for any number of users, requests, policies and change records:

- `ScheduledBeforeProgress`: `ChangeInv`; a record that was loaded with a window still has one when
  the request commits, as no operation takes a window away from a record.
- `Freeze`: an action property, from types alone; the freeze is matched for every caller.
- `StoredRulesBite`: `PolicyInv` (what is stored, and what requests have loaded, passed
  `_validate_conditions`), `ValidRulesRefuse` (for such a rule that is not inert there is a
  request, of roles to which RBAC grants it, and a moment at which it is refused), and arithmetic
  modulo the length of the day (`ClockDifference`).

The same module, for `ScenarioEvaluation` and any set of valid scenario definitions:

- `InjectionsComplete`: `HarnessInv`. At each step of the harness it says which rows are
  published and persisted, which of the facts it reports are established (those of the waits
  that are over, passed perhaps on earlier rows) and what the clean-up has undone
  (`HarnessRight`); `SamplesInv` says that the
  run works on the samples of its definition all along.
- `VerdictsAreEarned`: `SamplesHaveEvery` (every tick of the simulation is among the delivered
  samples, repeated or not), `FaultIsSampled` (so a fault of at least one tick is seen with effect,
  its envelope being positive, and left behind), `ObservedInv` (what
  a run has observed, phase by phase), `BlockedInv` (a component whose infrastructure is
  missing is set aside before the verdict) and `VerdictInv` (there is no verdict earlier).

`IncidentLifecycleProofs`, for any number of requests, incidents and diagnoses:

- `OnlyMitigatedLeave`: the transition table (`Table`) with `RowInv` and `CallInv`: whatever carries
  a late status, or is about to write one, was reported MITIGATED.
- `OneIncidentPerRacer`: `BirthInv` bounds the incidents created for a diagnosis and the requests
  that will create one together by the number of requests.
- `StampsAgree`: inductive with `CallInv`.

Assumptions on constants are the named `ASSUME`s of the modules; those the proofs brought in
are `CallAssumption` and `CallerAssumption` (finitely many requests are in flight, over which
the bounds are stated), `NoRuleAssumption`, `VocabularyAssumption` and `NoneAssumption` (the
markers of an empty column, row or result are no values of it, and there is a type of device),
`TracedAssumption` (a call starts a run or decides, not both), `DefinitionsAreTyped` (a
scenario definition has the types of its schema) and `EarlierAssumption` (so has what earlier runs left).

Only model-checked: liveness (`StartsEnd`, `RetriesEnd`, `FailedLinkRenewed`,
`StoppedTasksEnd`, `BlockEndsUnlessLost`, `ProvisionalEnds`), as the proof system has no
fairness reasoning to offer, and the comparisons over bounded inputs of section 3
(`AcceptedIsRunnable`, `SufficientIsGrounded`), which TLC evaluates.

## 5. Plan

Done: every module of section 2, and a theorem for every safety property of the runs. Left:

1. A property for the run that stays CREATED without an approval, as its start died between the
   interrupt checkpoint and `_persist_result` (`workflow/service.py:375`) or its result could not be
   written (`ResultLost`): the code has no recovery of it to state a property about.
2. The two comparisons that are only evaluated, for all payloads and all indexes: the agreement
   of `validate_configuration` with the constructors, and the grounding of a sufficient search.

**Not modelled.** Embeddings and text scores, feature extraction, training and
classification, decoding of registers, signal values (numeric); prompts and provider
transport, hashing and token encoding (their results are choices or left out); listings,
dashboards, audit searches, metrics and reports (they only read; those that use several
queries may mix snapshots); the asset hierarchy (single inserts under unique keys); the
retry helper of `platform_observability` (a loop with no state but its attempt); the order of migrations; the acceptance and
deployment scripts; the frontend.
