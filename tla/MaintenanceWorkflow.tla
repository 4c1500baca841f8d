------------------------- MODULE MaintenanceWorkflow -------------------------
(***************************************************************************)
(* The multi-agent maintenance workflow: WorkflowService.start,            *)
(* decide_approval and cancel (backend/app/workflow/service.py), the       *)
(* LangGraph graph they run (backend/app/workflow/graph.py) and the rows   *)
(* and checkpoints that outlive the process.                               *)
(*                                                                         *)
(* One step is one database transaction, or one node of the graph, whose   *)
(* checkpoint is committed on a connection of its own.  A start call       *)
(* commits its row, runs the graph outside any transaction, then commits   *)
(* the result; a decision holds its row locks from the moment it reads     *)
(* the approval until it commits or rolls back, and resumes the graph in   *)
(* between.  Cancels, other calls and crashes come in anywhere.            *)
(***************************************************************************)
EXTENDS SafetyPolicy, IncidentStates

CONSTANTS
  Incidents,      \* incident ids
  Diagnoses,      \* diagnosis ids
  Starters,       \* start calls; the run a call inserts carries the call's name
  Reviewers,      \* decide_approval calls in flight at a time
  DiagnosisTables,\* what the diagnoses table may hold
  Retrievals,     \* the results the knowledge search may have
  MaxAttempts,    \* attempts a graph node gets (max_attempts)
  NoPlan, NoIncident, NoRequest, NoRetrieval, NoRun

ASSUME AttemptsAssumption == MaxAttempts \in Nat \ {0}
ASSUME NoPlanAssumption == NoPlan \notin Plans
ASSUME NoRequestAssumption == NoRequest \notin Incidents \X Diagnoses
ASSUME NoRetrievalAssumption == NoRetrieval \notin Retrievals
ASSUME NoRunAssumption == NoRun \notin Starters
ASSUME TablesAssumption ==
  DiagnosisTables \subseteq [Diagnoses -> [ incident : Incidents \cup {NoIncident},
                                            status   : DiagnosisStatuses,
                                            severity : Severities ]]
ASSUME RetrievalsAssumption ==
  Retrievals \subseteq [ sufficiency : Sufficiencies, evidence : SUBSET Evidence ]

VARIABLES
  diagnosis,      \* diagnoses table
  incident,       \* incidents.status
  pc,             \* where a start call is
  request,        \* <<incident_id, diagnosis_id>> of a start call
  status,         \* workflow_runs.status, "NONE" while there is no row
  node,           \* the node the run's checkpoint stands at
  tries,          \* failed attempts of that node
  retrieval,      \* the knowledge context in the run's state
  plan,           \* the maintenance plan in the run's state
  violations,     \* whether the run's safety review lists violations
  planRow,        \* maintenance_plans row of the run
  approval,       \* approvals.decision, "NONE" while there is no row
  approvalPlan,   \* the plan whose version and hash the approval carries
  orderPlan,      \* work_orders.plan of the run, NoPlan while there is no row
  orderApproval,  \* work_orders.approval_id: "NULL", or "SET" to the run's approval
  rpc,            \* where a decide_approval call is
  rrun,           \* the run it decides
  rdecision,      \* the decision it carries
  aborted         \* history: runs of which a decision resumed the graph and was then lost

startVars  == << diagnosis, pc, request >>
threadVars == << node, tries, retrieval, plan, violations >>
orderVars  == << orderPlan, orderApproval >>
reviewVars == << rpc, rrun, rdecision >>
vars == << startVars, threadVars, orderVars, reviewVars, incident, status, planRow,
           approval, approvalPlan, aborted >>

AgentNodes == { "triage", "planning", "safety" }

\* A finished thread stands at the last node it ran; "approval" is the interrupt.
GraphNodes == AgentNodes \cup { "precondition_gate", "policy", "blocked", "auto_allowed",
                                "approval", "approved", "rejected" }

WorkflowStatuses ==
  { "NONE", "CREATED", "BLOCKED", "WAITING_APPROVAL", "REJECTED",
    "WORK_ORDER_CREATED", "CANCELLED", "FAILED" }

\* Mutant: a run that has its work order can still be cancelled.
CANCELLABLE_AnyLive == { "CREATED", "WAITING_APPROVAL", "WORK_ORDER_CREATED" }

CANCELLABLE == { "CREATED", "TRIAGING", "PLANNING", "WAITING_APPROVAL" }

-----------------------------------------------------------------------------
Init ==
  /\ diagnosis \in DiagnosisTables
  /\ incident = [i \in Incidents |-> "OPEN"]
  /\ pc = [s \in Starters |-> "idle"]
  /\ request = [s \in Starters |-> NoRequest]
  /\ status = [s \in Starters |-> "NONE"]
  /\ node = [s \in Starters |-> "precondition_gate"]
  /\ tries = [s \in Starters |-> 0]
  /\ retrieval = [s \in Starters |-> NoRetrieval]
  /\ plan = [s \in Starters |-> NoPlan]
  /\ violations = [s \in Starters |-> FALSE]
  /\ planRow = [s \in Starters |-> NoPlan]
  /\ approval = [s \in Starters |-> "NONE"]
  /\ approvalPlan = [s \in Starters |-> NoPlan]
  /\ orderPlan = [s \in Starters |-> NoPlan]
  /\ orderApproval = [s \in Starters |-> "NULL"]
  /\ rpc = [m \in Reviewers |-> "idle"]
  /\ rrun = [m \in Reviewers |-> NoRun]
  /\ rdecision = [m \in Reviewers |-> "NONE"]
  /\ aborted = {}

-----------------------------------------------------------------------------
(* WorkflowService.start                                                    *)

\* What the idempotency key is a hash of (the workflow version is fixed).
idempotency_key(s) == request[s]

Existing(s) == { t \in Starters : status[t] # "NONE" /\ idempotency_key(t) = idempotency_key(s) }

Locking == { "locked", "prepared" }

\* pg_advisory_xact_lock on the key: granted when no other call is between its
\* lock and its commit with the same key.
Lock(s, i, d) ==
  /\ pc[s] = "idle"
  /\ request' = [request EXCEPT ![s] = <<i, d>>]
  /\ ~ \E t \in Starters : pc[t] \in Locking /\ idempotency_key(t) = idempotency_key(s)'
  /\ pc' = [pc EXCEPT ![s] = "locked"]
  /\ UNCHANGED << diagnosis, threadVars, orderVars, reviewVars, incident, status, planRow,
                  approval, approvalPlan, aborted >>

ValidInput(i, d) ==
  /\ diagnosis[d].incident = i
  /\ diagnosis[d].status \in { "FAULT", "UNCERTAIN" }

\* Returns the run an earlier call inserted, or refuses the input (404, 422).
StartWithoutRun(s) ==
  /\ pc[s] = "locked"
  /\ Existing(s) # {} \/ ~ValidInput(request[s][1], request[s][2])
  /\ pc' = [pc EXCEPT ![s] = "done"]
  /\ request' = [request EXCEPT ![s] = NoRequest]
  /\ UNCHANGED << diagnosis, threadVars, orderVars, reviewVars, incident, status,
                  planRow, approval, approvalPlan, aborted >>

\* There is no run yet and the input is valid.
StartPrepare(s) ==
  /\ pc[s] = "locked"
  /\ Existing(s) = {}
  /\ ValidInput(request[s][1], request[s][2])
  /\ pc' = [pc EXCEPT ![s] = "prepared"]
  /\ UNCHANGED << diagnosis, request, threadVars, orderVars, reviewVars, incident, status,
                  planRow, approval, approvalPlan, aborted >>

\* The knowledge search has run, the run is inserted and the incident moved,
\* whatever its status was; the commit releases the advisory lock.
StartCommit(s) ==
  /\ pc[s] = "prepared"
  /\ \E found \in Retrievals : retrieval' = [retrieval EXCEPT ![s] = found]
  /\ status' = [status EXCEPT ![s] = "CREATED"]
  /\ incident' = [incident EXCEPT ![request[s][1]] = "UNDER_ANALYSIS"]
  /\ pc' = [pc EXCEPT ![s] = "graph"]
  /\ UNCHANGED << diagnosis, request, node, tries, plan, violations, orderVars, reviewVars,
                  planRow, approval, approvalPlan, aborted >>

-----------------------------------------------------------------------------
(* The graph, run by the start call                                         *)

RunNode(s, next) ==
  /\ node' = [node EXCEPT ![s] = next]
  /\ tries' = [tries EXCEPT ![s] = 0]

\* precondition_gate and its router; precondition_block ends the thread blocked.
PreconditionGate(s) ==
  /\ pc[s] = "graph"
  /\ node[s] = "precondition_gate"
  /\ RunNode(s, IF \/ retrieval[s].sufficiency = "INSUFFICIENT_EVIDENCE"
                   \/ diagnosis[request[s][2]].status # "FAULT"
                THEN "blocked" ELSE "triage")
  /\ UNCHANGED << startVars, retrieval, plan, violations, orderVars, reviewVars, incident,
                  status, planRow, approval, approvalPlan, aborted >>

Triage(s) ==
  /\ pc[s] = "graph"
  /\ node[s] = "triage"
  /\ RunNode(s, "planning")
  /\ UNCHANGED << startVars, retrieval, plan, violations, orderVars, reviewVars, incident,
                  status, planRow, approval, approvalPlan, aborted >>

\* The agent may return any plan its schema admits.
Planning(s) ==
  /\ pc[s] = "graph"
  /\ node[s] = "planning"
  /\ RunNode(s, "safety")
  /\ \E p \in Plans : plan' = [plan EXCEPT ![s] = p]
  /\ UNCHANGED << startVars, retrieval, violations, orderVars, reviewVars, incident,
                  status, planRow, approval, approvalPlan, aborted >>

Safety(s) ==
  /\ pc[s] = "graph"
  /\ node[s] = "safety"
  /\ RunNode(s, "policy")
  /\ \E v \in BOOLEAN : violations' = [violations EXCEPT ![s] = v]
  /\ UNCHANGED << startVars, retrieval, plan, orderVars, reviewVars, incident, status,
                  planRow, approval, approvalPlan, aborted >>

PolicyDecision(s) ==
  LET row == diagnosis[request[s][2]]
  IN  decide(plan[s], violations[s], retrieval[s].evidence, row.status, row.severity,
             retrieval[s].sufficiency)

\* policy_node, route_policy and the node it routes to.
Policy(s) ==
  /\ pc[s] = "graph"
  /\ node[s] = "policy"
  /\ RunNode(s, CASE PolicyDecision(s) = "BLOCKED" -> "blocked"
                  [] PolicyDecision(s) = "REQUIRES_APPROVAL" -> "approval"
                  [] OTHER -> "auto_allowed")
  /\ UNCHANGED << startVars, retrieval, plan, violations, orderVars, reviewVars, incident,
                  status, planRow, approval, approvalPlan, aborted >>

\* Mutant: the attempts start over with every error.
RetryAgentForever(s) ==
  /\ pc[s] = "graph"
  /\ node[s] \in AgentNodes
  /\ tries' = [tries EXCEPT ![s] = 1 - @]
  /\ UNCHANGED << startVars, node, retrieval, plan, violations, orderVars, reviewVars,
                  incident, status, planRow, approval, approvalPlan, aborted >>

\* A transient provider error: the node runs again while attempts are left.
RetryAgent(s) ==
  /\ pc[s] = "graph"
  /\ node[s] \in AgentNodes
  /\ tries[s] + 1 < MaxAttempts
  /\ tries' = [tries EXCEPT ![s] = @ + 1]
  /\ UNCHANGED << startVars, node, retrieval, plan, violations, orderVars, reviewVars,
                  incident, status, planRow, approval, approvalPlan, aborted >>

\* The graph raises (a permanent or last transient error, a node timeout, a
\* checkpoint outage) and _mark_failed writes FAILED, whatever the row says.
GraphFails(s) ==
  /\ pc[s] = "graph"
  /\ node[s] \notin { "blocked", "auto_allowed", "approval" }
  /\ status' = [status EXCEPT ![s] = "FAILED"]
  /\ pc' = [pc EXCEPT ![s] = "done"]
  /\ tries' = [tries EXCEPT ![s] = 0]
  /\ UNCHANGED << diagnosis, request, node, retrieval, plan, violations, orderVars, reviewVars,
                  incident, planRow, approval, approvalPlan, aborted >>

\* _persist_result: the row is locked, but what its status has become is not
\* looked at; plan, approval, work order and incident go in the same commit.
PersistResult(s) ==
  /\ pc[s] = "graph"
  /\ pc' = [pc EXCEPT ![s] = "done"]
  /\ planRow' = [planRow EXCEPT ![s] = IF @ = NoPlan THEN plan[s] ELSE @]
  /\ \/ /\ node[s] = "blocked"
        /\ status' = [status EXCEPT ![s] = "BLOCKED"]
        /\ UNCHANGED << incident, approval, approvalPlan, orderVars >>
     \/ /\ node[s] = "approval"
        /\ status' = [status EXCEPT ![s] = "WAITING_APPROVAL"]
        /\ approval' = [approval EXCEPT ![s] = "PENDING"]
        /\ approvalPlan' = [approvalPlan EXCEPT ![s] = planRow'[s]]
        /\ incident' = [incident EXCEPT ![request[s][1]] = "ACTION_PENDING"]
        /\ UNCHANGED orderVars
     \/ /\ node[s] = "auto_allowed"
        /\ status' = [status EXCEPT ![s] = "WORK_ORDER_CREATED"]
        /\ orderPlan' = [orderPlan EXCEPT ![s] = plan[s]]
        /\ incident' = [incident EXCEPT ![request[s][1]] = "WORK_ORDER_CREATED"]
        /\ UNCHANGED << approval, approvalPlan, orderApproval >>
  /\ UNCHANGED << diagnosis, request, threadVars, reviewVars, aborted >>

\* The result, or the FAILED of a graph that raised, cannot be written: the call
\* raises, and the row is as it was.
ResultLost(s) ==
  /\ pc[s] = "graph"
  /\ pc' = [pc EXCEPT ![s] = "done"]
  /\ UNCHANGED << diagnosis, request, threadVars, orderVars, reviewVars, incident, status,
                  planRow, approval, approvalPlan, aborted >>

-----------------------------------------------------------------------------
(* WorkflowService.decide_approval and cancel                               *)

EndReview(m) ==
  /\ rpc' = [rpc EXCEPT ![m] = "idle"]
  /\ rrun' = [rrun EXCEPT ![m] = NoRun]
  /\ rdecision' = [rdecision EXCEPT ![m] = "NONE"]

RowLocked(s) == \E m \in Reviewers : rrun[m] = s

\* Mutant: an opposite decision is not refused.
DecideBeginAgain(m, s, decision) ==
  /\ rpc[m] = "idle"
  /\ approval[s] # "NONE"
  /\ ~RowLocked(s)
  /\ status[s] # "CANCELLED"
  /\ planRow[s] = approvalPlan[s]
  /\ ~(approval[s] = decision /\ status[s] \in { "WORK_ORDER_CREATED", "REJECTED" })
  /\ rpc' = [rpc EXCEPT ![m] = "locked"]
  /\ rrun' = [rrun EXCEPT ![m] = s]
  /\ rdecision' = [rdecision EXCEPT ![m] = decision]
  /\ UNCHANGED << startVars, threadVars, orderVars, incident, status, planRow, approval,
                  approvalPlan, aborted >>

\* Both row locks are granted and every check passes; a call that fails one, or
\* that repeats a decision already carried out, changes nothing.
DecideBegin(m, s, decision) ==
  /\ rpc[m] = "idle"
  /\ approval[s] # "NONE"
  /\ ~RowLocked(s)
  /\ status[s] # "CANCELLED"
  /\ planRow[s] = approvalPlan[s]
  /\ approval[s] \in { "PENDING", decision }
  /\ ~(approval[s] = decision /\ status[s] \in { "WORK_ORDER_CREATED", "REJECTED" })
  /\ rpc' = [rpc EXCEPT ![m] = "locked"]
  /\ rrun' = [rrun EXCEPT ![m] = s]
  /\ rdecision' = [rdecision EXCEPT ![m] = decision]
  /\ UNCHANGED << startVars, threadVars, orderVars, incident, status, planRow, approval,
                  approvalPlan, aborted >>

\* Command(resume): an interrupted thread goes where the decision sends it; one
\* that has left the interrupt has nothing to run and keeps its state.
DecideResume(m) ==
  /\ rpc[m] = "locked"
  /\ rpc' = [rpc EXCEPT ![m] = "resumed"]
  /\ node' = [node EXCEPT ![rrun[m]] =
                IF @ # "approval" THEN @
                ELSE IF rdecision[m] = "APPROVED" THEN "approved" ELSE "rejected"]
  /\ UNCHANGED << startVars, tries, retrieval, plan, violations, orderVars, rrun, rdecision,
                  incident, status, planRow, approval, approvalPlan, aborted >>

\* Mutant: the resume is skipped.
DecideCommitUnresumed(m) ==
  LET s == rrun[m] IN
  /\ rpc[m] = "locked"
  /\ EndReview(m)
  /\ approval' = [approval EXCEPT ![s] = rdecision[m]]
  /\ status' = [status EXCEPT ![s] = IF rdecision[m] = "APPROVED" THEN "WORK_ORDER_CREATED"
                                     ELSE "REJECTED"]
  /\ orderPlan' = [orderPlan EXCEPT ![s] = IF rdecision[m] = "APPROVED" THEN plan[s] ELSE @]
  /\ orderApproval' = [orderApproval EXCEPT ![s] = IF rdecision[m] = "APPROVED" THEN "SET"
                                                   ELSE @]
  /\ UNCHANGED << startVars, threadVars, incident, planRow, approvalPlan, aborted >>

\* Mutant: the incident is moved whatever was decided.
DecideCommitMovesIncident(m) ==
  LET s == rrun[m] IN
  /\ rpc[m] = "resumed"
  /\ EndReview(m)
  /\ approval' = [approval EXCEPT ![s] = rdecision[m]]
  /\ status' = [status EXCEPT ![s] = IF rdecision[m] = "APPROVED" THEN "WORK_ORDER_CREATED"
                                     ELSE "REJECTED"]
  /\ orderPlan' = [orderPlan EXCEPT ![s] = IF rdecision[m] = "APPROVED" THEN plan[s] ELSE @]
  /\ orderApproval' = [orderApproval EXCEPT ![s] = IF rdecision[m] = "APPROVED" THEN "SET"
                                                   ELSE @]
  /\ incident' = [incident EXCEPT ![request[s][1]] = "WORK_ORDER_CREATED"]
  /\ UNCHANGED << startVars, threadVars, planRow, approvalPlan, aborted >>

\* _create_work_order hands out the order that exists; else it inserts one with
\* the plan of the resumed state.
DecideCommit(m) ==
  LET s == rrun[m] IN
  /\ rpc[m] = "resumed"
  /\ EndReview(m)
  /\ approval' = [approval EXCEPT ![s] = rdecision[m]]
  /\ \/ /\ rdecision[m] = "APPROVED"
        /\ orderPlan' = [orderPlan EXCEPT ![s] = IF @ = NoPlan THEN plan[s] ELSE @]
        /\ orderApproval' = [orderApproval EXCEPT ![s] = IF orderPlan[s] = NoPlan THEN "SET"
                                                         ELSE @]
        /\ status' = [status EXCEPT ![s] = "WORK_ORDER_CREATED"]
        /\ incident' = [incident EXCEPT ![request[s][1]] = "WORK_ORDER_CREATED"]
     \/ /\ rdecision[m] = "REJECTED"
        /\ status' = [status EXCEPT ![s] = "REJECTED"]
        /\ UNCHANGED << orderVars, incident >>
  /\ UNCHANGED << startVars, threadVars, planRow, approvalPlan, aborted >>

\* The runs whose resume no commit follows when these calls end.
Resumed(calls) == { s \in Starters : \E m \in calls : rrun[m] = s /\ rpc[m] = "resumed" }

\* The resume raises or the transaction is lost: the rows roll back and the
\* locks go, the checkpoint stays where the resume has put it.
DecideAbort(m) ==
  /\ rpc[m] \in { "locked", "resumed" }
  /\ EndReview(m)
  /\ aborted' = aborted \cup Resumed({m})
  /\ UNCHANGED << startVars, threadVars, orderVars, incident, status, planRow, approval,
                  approvalPlan >>

Cancel(s) ==
  /\ status[s] \in CANCELLABLE
  /\ ~RowLocked(s)
  /\ status' = [status EXCEPT ![s] = "CANCELLED"]
  /\ UNCHANGED << startVars, threadVars, orderVars, reviewVars, incident, planRow, approval,
                  approvalPlan, aborted >>

\* The process dies with its calls; rows and checkpoints survive, and nothing
\* at startup takes up a graph that was running.
Crash ==
  /\ \/ \E s \in Starters : pc[s] \in Locking \cup { "graph" }
     \/ \E m \in Reviewers : rpc[m] # "idle"
  /\ pc' = [s \in Starters |-> IF pc[s] \in Locking \cup { "graph" } THEN "dead" ELSE pc[s]]
  /\ request' = [s \in Starters |-> IF pc[s] \in Locking THEN NoRequest ELSE request[s]]
  /\ tries' = [s \in Starters |-> 0]
  /\ rpc' = [m \in Reviewers |-> "idle"]
  /\ rrun' = [m \in Reviewers |-> NoRun]
  /\ rdecision' = [m \in Reviewers |-> "NONE"]
  /\ aborted' = aborted \cup Resumed(Reviewers)
  /\ UNCHANGED << diagnosis, node, retrieval, plan, violations, orderVars, incident, status,
                  planRow, approval, approvalPlan >>

-----------------------------------------------------------------------------
GraphStep(s) ==
  \/ PreconditionGate(s) \/ Triage(s) \/ Planning(s) \/ Safety(s) \/ Policy(s)
  \/ RetryAgent(s) \/ GraphFails(s)

StartStep(s) ==
  \/ StartWithoutRun(s) \/ StartPrepare(s) \/ StartCommit(s)
  \/ GraphStep(s) \/ PersistResult(s) \/ ResultLost(s)

DecideStep(m) == DecideResume(m) \/ DecideCommit(m) \/ DecideAbort(m)

Next ==
  \/ \E s \in Starters, i \in Incidents, d \in Diagnoses : Lock(s, i, d)
  \/ \E s \in Starters : StartStep(s) \/ Cancel(s)
  \/ \E m \in Reviewers, s \in Starters, decision \in { "APPROVED", "REJECTED" } :
       DecideBegin(m, s, decision)
  \/ \E m \in Reviewers : DecideStep(m)
  \/ Crash

Spec == Init /\ [][Next]_vars

\* The event loop keeps running every call it has taken up: provider calls are
\* bounded by the node timeout, database calls by their own.
FairSpec ==
  /\ Spec
  /\ \A s \in Starters : WF_vars(StartStep(s))
  /\ \A m \in Reviewers : WF_vars(DecideStep(m))
-----------------------------------------------------------------------------
(* Properties                                                               *)

\* Rows, checkpoints and calls hold the values their columns and types admit, and
\* a node never has more failed attempts than max_attempts leaves it.
TypeOK ==
  /\ diagnosis \in DiagnosisTables
  /\ incident \in [Incidents -> IncidentStatuses]
  /\ pc \in [Starters -> { "idle", "locked", "prepared", "graph", "done", "dead" }]
  /\ request \in [Starters -> (Incidents \X Diagnoses) \cup {NoRequest}]
  /\ status \in [Starters -> WorkflowStatuses]
  /\ node \in [Starters -> GraphNodes]
  /\ tries \in [Starters -> 0 .. MaxAttempts - 1]
  /\ retrieval \in [Starters -> Retrievals \cup {NoRetrieval}]
  /\ plan \in [Starters -> Plans \cup {NoPlan}]
  /\ violations \in [Starters -> BOOLEAN]
  /\ planRow \in [Starters -> Plans \cup {NoPlan}]
  /\ approval \in [Starters -> { "NONE", "PENDING", "APPROVED", "REJECTED" }]
  /\ approvalPlan \in [Starters -> Plans \cup {NoPlan}]
  /\ orderPlan \in [Starters -> Plans \cup {NoPlan}]
  /\ orderApproval \in [Starters -> { "NULL", "SET" }]
  /\ rpc \in [Reviewers -> { "idle", "locked", "resumed" }]
  /\ rrun \in [Reviewers -> Starters \cup {NoRun}]
  /\ rdecision \in [Reviewers -> { "NONE", "APPROVED", "REJECTED" }]
  /\ aborted \subseteq Starters

\* The plan is one that may be carried out without asking anyone: confirmed
\* fault of at most medium severity, every citation retrieved, no invasive step.
LowRisk(s) ==
  LET row == diagnosis[request[s][2]] IN
  /\ row.status = "FAULT"
  /\ row.severity \notin { "HIGH", "CRITICAL" }
  /\ \A step \in orderPlan[s] : /\ step.action \notin APPROVAL_ACTIONS
                                /\ step.evidence \subseteq retrieval[s].evidence

\* A work order carries the plan that is on record for its run, and either that
\* very plan was approved by a person or nothing about it asks for approval
\* (_persist_result, _create_work_order, decide_approval), whatever
\* cancellations, aborted decisions and crashes came in between.
OrderAuthorized ==
  \A s \in Starters : orderPlan[s] # NoPlan =>
    /\ orderPlan[s] = planRow[s]
    /\ \/ /\ orderApproval[s] = "SET"
          /\ approval[s] = "APPROVED"
          /\ approvalPlan[s] = orderPlan[s]
       \/ orderApproval[s] = "NULL" /\ LowRisk(s)

\* A run has a work order exactly when its row says so: no run that was blocked,
\* rejected, cancelled or failed keeps one, and none is announced without one.
OrderIffStatus ==
  \A s \in Starters : orderPlan[s] # NoPlan <=> status[s] = "WORK_ORDER_CREATED"

\* Start calls for the same incident and diagnosis, however they interleave,
\* leave a single run (the advisory lock and the look-up under it).
OneRunPerRequest ==
  \A s, t \in Starters :
    status[s] # "NONE" /\ status[t] # "NONE" /\ request[s] = request[t] => s = t

\* One run per request, and a work order exactly where the row announces one.
RunsAndOrders == OrderIffStatus /\ OneRunPerRequest

\* A run that waits for approval can be decided: its approval is pending, binds
\* the plan on record, and a decision can still be carried out by the graph.
WaitingIsDecidable ==
  \A s \in Starters : status[s] = "WAITING_APPROVAL" =>
    /\ approval[s] = "PENDING"
    /\ approvalPlan[s] = planRow[s]
    /\ planRow[s] \in Plans
    /\ node[s] \in { "approval", "approved", "rejected" }

\* The checkpoint went where the decision on record sends it, and nowhere while
\* none is: decide_approval resumes before it commits, and of two reviewers the
\* second repeats the first or is refused.  A decision that was lost after its
\* resume leaves the checkpoint ahead of the row, and the next decision, the
\* opposite one included, is committed over it: for the runs in `aborted` all that
\* is left is that a decided one has been resumed.
DecisionsReachTheGraph ==
  \A s \in Starters :
    /\ approval[s] \in { "APPROVED", "REJECTED" } => node[s] \in { "approved", "rejected" }
    /\ s \notin aborted /\ ~RowLocked(s) =>
         /\ node[s] = "approved" <=> approval[s] = "APPROVED"
         /\ node[s] = "rejected" <=> approval[s] = "REJECTED"

\* What waits can be decided, and what is decided is what the graph was resumed with.
ApprovalsSound == WaitingIsDecidable /\ DecisionsReachTheGraph

\* The incident says ACTION_PENDING or WORK_ORDER_CREATED only if one of its
\* runs has come to the approval, or has its work order.
IncidentStatusEarned ==
  \A i \in Incidents :
    LET runs == { s \in Starters : status[s] # "NONE" /\ request[s][1] = i } IN
    /\ incident[i] = "ACTION_PENDING" => \E s \in runs : approval[s] # "NONE"
    /\ incident[i] = "WORK_ORDER_CREATED" => \E s \in runs : orderPlan[s] # NoPlan

\* The first decision on an approval stands and an issued work order is never
\* changed or withdrawn (row locks and the APPROVAL_ALREADY_DECIDED check).
DecisionsStand ==
  [][\A s \in Starters :
       /\ approval[s] \in { "APPROVED", "REJECTED" } => approval'[s] = approval[s]
       /\ orderPlan[s] # NoPlan => /\ orderPlan'[s] = orderPlan[s]
                                   /\ orderApproval'[s] = orderApproval[s]]_vars

\* Every start call comes to an end: the retries of a node are bounded and each
\* path of the graph leads to a result that is persisted, unless the process dies.
StartsEnd == \A s \in Starters : pc[s] = "locked" ~> pc[s] \in { "done", "dead" }
=============================================================================
