----------------------------- MODULE AgentTrace -----------------------------
(***************************************************************************)
(* Agent observability of one (incident, diagnosis) pair: the traces that  *)
(* ObservableWorkflowService opens before WorkflowService.start and that   *)
(* WorkflowTracer links, fills and finalises after start, a decision or a  *)
(* cancellation returned.                                                  *)
(*                                                                         *)
(* The tracer knows the workflow only as the answer the delegated call     *)
(* returned.  Each of its transactions reads the trace to write and the    *)
(* agent rows, and commits later; start answers an existing run at once,   *)
(* while the call that created it still drives the graph.  A call may      *)
(* raise after its commit, and a tracer transaction may fail.              *)
(***************************************************************************)
EXTENDS Naturals, FiniteSets

CONSTANTS
  StartCalls,    \* start calls, each opens one trace
  Deciders,    \* approval decisions and cancellations
  MaxAgents    \* agent rows of a run (triage, planning, safety review)

ASSUME AgentAssumption == MaxAgents \in Nat
ASSUME TracedAssumption == StartCalls \cap Deciders = {}

VARIABLES
  wf,         \* workflow_runs.status of the pair, "none" before a run exists
  ruling,     \* approvals.decision of the run, "none" before there is one
  agents,     \* rows of agent_runs for that run
  trace,      \* observability_runs: one row per start call
  began,      \* start_time of the trace of a start call, 0 before the call
  opened,     \* start calls so far
  call,       \* what each call is doing
  stale,      \* history: the tracer was not told of a status, or wrote an outdated one last
  forked      \* history: two tracer transactions overlapped on the run's trace

trace_vars == <<wf, ruling, agents, trace, began, opened, call, stale, forked>>
history == <<stale, forked>>

Calls == StartCalls \cup Deciders
RunStatuses ==
  {"CREATED", "WAITING_APPROVAL", "WORK_ORDER_CREATED", "REJECTED", "BLOCKED", "FAILED", "CANCELLED"}
TERMINAL_STATUSES == {"SUCCESS", "FAILED", "BLOCKED", "CANCELLED"}

map_workflow_status(s) ==
  CASE s \in {"WORK_ORDER_CREATED", "REJECTED"} -> "SUCCESS"
    [] s \in {"WAITING_APPROVAL", "BLOCKED", "FAILED", "CANCELLED"} -> s
    [] OTHER -> "RUNNING"

\* A row that is not there, and the row create_run inserts.  "steps" holds the
\* writers whose step projection of the run is stored.
NoTrace == [status |-> "absent", linked |-> FALSE, ended |-> FALSE, steps |-> {}]
Provisional == [NoTrace EXCEPT !.status = "RUNNING"]
Idle == [at |-> "idle"]

Linked == {s \in StartCalls : trace[s].linked}

\* No trace of the run is newer.
Newest(s) == \A t \in Linked \ {s} : began[s] > began[t]

\* find_run_by_workflow_run: the newest trace that carries the run's id.
find_run_by_workflow_run == {s \in Linked : Newest(s)}

TraceInit ==
  /\ wf = "none" /\ ruling = "none"
  /\ agents = 0
  /\ trace = [s \in StartCalls |-> NoTrace]
  /\ began = [s \in StartCalls |-> 0] /\ opened = 0
  /\ call = [c \in Calls |-> Idle]
  /\ stale = FALSE /\ forked = FALSE

-----------------------------------------------------------------------------
(* The delegated workflow calls.                                           *)

\* begin stores a provisional trace.  When it fails the call proceeds without one.
begin(s) ==
  /\ call[s] = Idle
  /\ trace' \in {trace, [trace EXCEPT ![s] = Provisional]}
  /\ opened' = opened + 1
  /\ began' = [began EXCEPT ![s] = opened']
  /\ call' = [call EXCEPT ![s] = [at |-> "begun"]]
  /\ UNCHANGED <<wf, ruling, agents, history>>

\* What a call traces: the status it was answered, "none" when start raised.
Answered(c, s) == call' = [call EXCEPT ![c] = [at |-> "answered", status |-> s]]

Raised(c) ==
  call' = [call EXCEPT ![c] = IF c \in StartCalls THEN [at |-> "answered", status |-> "none"]
                                                 ELSE [at |-> "done"]]

\* The answer of a call that has written a status, or its failure after that.
Reply(c, s) ==
  \/ Answered(c, s) /\ UNCHANGED stale
  \/ Raised(c) /\ stale' = TRUE

\* start creates the run, answers an existing one, or refuses its input.
StartCreates(s) ==
  /\ call[s].at = "begun"
  /\ wf = "none"
  /\ wf' = "CREATED"
  /\ call' = [call EXCEPT ![s] = [at |-> "engine"]]
  /\ UNCHANGED <<ruling, agents, trace, began, opened, history>>

StartReplays(s) ==
  /\ call[s].at = "begun"
  /\ wf # "none"
  /\ Answered(s, wf)
  /\ UNCHANGED <<wf, ruling, agents, trace, began, opened, history>>

StartRefused(s) ==
  /\ call[s].at = "begun"
  /\ wf = "none"
  /\ Answered(s, "none")
  /\ UNCHANGED <<wf, ruling, agents, trace, began, opened, history>>

AgentRecorded(s) ==
  /\ call[s].at = "engine"
  /\ agents < MaxAgents
  /\ agents' = agents + 1
  /\ UNCHANGED <<wf, ruling, trace, began, opened, call, history>>

\* _persist_result writes the run whatever it has become.
EngineReturns(s, status) ==
  /\ call[s].at = "engine"
  /\ wf' = status
  /\ ruling' = IF status = "WAITING_APPROVAL" THEN "PENDING" ELSE ruling
  /\ Reply(s, status)
  /\ UNCHANGED <<agents, trace, began, opened, forked>>

\* The graph raised and the run is marked FAILED, or the database failed in _persist_result or
\* _mark_failed and the run stays what it is.
EngineRaises(s, status) ==
  /\ call[s].at = "engine"
  /\ wf' = status
  /\ Raised(s) /\ stale' = TRUE
  /\ UNCHANGED <<ruling, agents, trace, began, opened, forked>>

Decided(decision) == IF decision = "APPROVED" THEN "WORK_ORDER_CREATED" ELSE "REJECTED"

decide_approval(d, decision) ==
  /\ call[d] = Idle
  /\ wf # "CANCELLED" /\ ruling = "PENDING"
  /\ wf' = Decided(decision) /\ ruling' = decision
  /\ Reply(d, wf')
  /\ UNCHANGED <<agents, trace, began, opened, forked>>

\* The same decision again is answered with the run as it is.
decide_again(d, decision) ==
  /\ call[d] = Idle
  /\ ruling = decision /\ wf \in {"WORK_ORDER_CREATED", "REJECTED"}
  /\ Answered(d, wf)
  /\ UNCHANGED <<wf, ruling, agents, trace, began, opened, history>>

cancel(d) ==
  /\ call[d] = Idle
  /\ wf \in {"CREATED", "WAITING_APPROVAL"}
  /\ wf' = "CANCELLED"
  /\ Reply(d, "CANCELLED")
  /\ UNCHANGED <<ruling, agents, trace, began, opened, forked>>

-----------------------------------------------------------------------------
(* The tracer's transactions.                                              *)

\* The call has a status of the run to trace.
Owes(c) ==
  \/ call[c].at = "engine"
  \/ call[c].at \in {"answered", "writing"} /\ call[c].status # "none"

\* complete links the call's own trace, or adopts the one that carries the run.
Target(s) == IF find_run_by_workflow_run = {} THEN {s} ELSE find_run_by_workflow_run

\* complete without a run_id, because begin failed.
CompleteUntraced(s) ==
  /\ call[s].at = "answered"
  /\ trace[s] = NoTrace
  /\ call' = [call EXCEPT ![s] = [at |-> "done"]]
  /\ stale' = (stale \/ Owes(s))
  /\ UNCHANGED <<wf, ruling, agents, trace, began, opened, forked>>

\* Mutant: a start that raised leaves its trace alone.
CompleteFailed_silent(s) ==
  /\ call[s].at = "answered"
  /\ trace[s] # NoTrace
  /\ call[s].status = "none"
  /\ call' = [call EXCEPT ![s] = [at |-> "done"]]
  /\ UNCHANGED <<wf, ruling, agents, trace, began, opened, history>>

\* complete after start raised: the trace of the attempt stays on its own.
CompleteFailed(s) ==
  /\ call[s].at = "answered"
  /\ trace[s] # NoTrace
  /\ call[s].status = "none"
  /\ trace' = [trace EXCEPT ![s] = [@ EXCEPT !.status = "FAILED", !.ended = TRUE]]
  /\ call' = [call EXCEPT ![s] = [at |-> "done"]]
  /\ UNCHANGED <<wf, ruling, agents, began, opened, history>>

CompleteRead(s) ==
  /\ call[s].at = "answered"
  /\ trace[s] # NoTrace
  /\ call[s].status # "none"
  /\ \E t \in Target(s) :
       call' = [call EXCEPT ![s] = [at |-> "writing", status |-> call[s].status, target |-> t,
                                    seen |-> trace[t], drafts |-> agents]]
  /\ UNCHANGED <<wf, ruling, agents, trace, began, opened, history>>

\* refresh_for_workflow: without a linked trace there is nothing to refresh.
RefreshRead(d) ==
  /\ call[d].at = "answered"
  /\ IF find_run_by_workflow_run = {}
       THEN call' = [call EXCEPT ![d] = [at |-> "done"]]
       ELSE \E t \in find_run_by_workflow_run :
              call' = [call EXCEPT ![d] = [at |-> "writing", status |-> call[d].status, target |-> t,
                                           seen |-> trace[t], drafts |-> agents]]
  /\ UNCHANGED <<wf, ruling, agents, trace, began, opened, history>>

\* Mutant: the new projection is appended to the stored one.
replace_steps_appending(steps, seen, drafts, c) == IF drafts = 0 THEN steps ELSE steps \cup {c}

\* replace_steps deletes the projection it saw and stores its own, if it has one.
replace_steps(steps, seen, drafts, c) == IF drafts = 0 THEN steps ELSE (steps \ seen) \cup {c}

\* finalize_run and the commit; complete also drops its own provisional trace.
finalize_run(c) ==
  /\ call[c].at = "writing"
  /\ LET t == call[c].target
         status == map_workflow_status(call[c].status)
         row == [status |-> status, linked |-> TRUE, ended |-> status \in TERMINAL_STATUSES,
                 steps |-> replace_steps(trace[t].steps, call[c].seen.steps, call[c].drafts, c)]
     IN  /\ trace' = [s \in StartCalls |-> IF s = t THEN row
                                         ELSE IF s = c THEN NoTrace ELSE trace[s]]
         /\ stale' = IF Newest(t) THEN call[c].status # wf ELSE stale
         /\ forked' = (forked \/ trace[t].steps # call[c].seen.steps \/ (c = t /\ Linked # {}))
  /\ call' = [call EXCEPT ![c] = [at |-> "done"]]
  /\ UNCHANGED <<wf, ruling, agents, began, opened>>

\* A tracing failure is logged and the decision path goes on without it; or the call is
\* interrupted: its task is cancelled or the process ends.
TraceLost(c) ==
  /\ call[c].at \in {"begun", "engine", "answered", "writing"}
  /\ call' = [call EXCEPT ![c] = [at |-> "lost"]]
  /\ stale' = (stale \/ Owes(c))
  /\ UNCHANGED <<wf, ruling, agents, trace, began, opened, forked>>

-----------------------------------------------------------------------------
TracedStart(s) ==
  \/ begin(s)
  \/ StartCreates(s) \/ StartReplays(s) \/ StartRefused(s)
  \/ AgentRecorded(s)
  \/ \E status \in {"WAITING_APPROVAL", "WORK_ORDER_CREATED", "BLOCKED"} : EngineReturns(s, status)
  \/ \E status \in {"FAILED", wf} : EngineRaises(s, status)
  \/ CompleteUntraced(s) \/ CompleteFailed(s) \/ CompleteRead(s)
  \/ finalize_run(s) \/ TraceLost(s)

TracedDecision(d) ==
  \/ \E decision \in {"APPROVED", "REJECTED"} : decide_approval(d, decision) \/ decide_again(d, decision)
  \/ cancel(d)
  \/ RefreshRead(d) \/ finalize_run(d) \/ TraceLost(d)

TraceNext == (\E s \in StartCalls : TracedStart(s)) \/ (\E d \in Deciders : TracedDecision(d))

TraceSpec == TraceInit /\ [][TraceNext]_trace_vars

\* A call runs to its end: the graph bounds its retries and every agent call
\* its time, and the tracer's statements return or raise.
Progress(s) ==
  \/ StartCreates(s) \/ StartReplays(s) \/ StartRefused(s)
  \/ \E status \in {"WAITING_APPROVAL", "WORK_ORDER_CREATED", "BLOCKED"} : EngineReturns(s, status)
  \/ CompleteUntraced(s) \/ CompleteFailed(s) \/ CompleteRead(s) \/ finalize_run(s)

FairTraceSpec == TraceSpec /\ \A s \in StartCalls : WF_trace_vars(Progress(s))

-----------------------------------------------------------------------------
(* Properties.                                                             *)

\* Every table is well typed.
TraceTypeOK ==
  /\ wf \in RunStatuses \cup {"none"}
  /\ agents \in 0..MaxAgents
  /\ trace \in [StartCalls -> [status : TERMINAL_STATUSES \cup {"absent", "RUNNING", "WAITING_APPROVAL"},
                             linked : BOOLEAN, ended : BOOLEAN, steps : SUBSET Calls]]
  /\ began \in [StartCalls -> Nat] /\ opened \in Nat
  /\ ruling \in {"none", "PENDING", "APPROVED", "REJECTED"}
  /\ stale \in BOOLEAN /\ forked \in BOOLEAN

Quiet == \A c \in Calls : call[c].at \in {"idle", "done", "lost"}

\* Tables are well typed, and when every call has returned:
\* - the run has a trace, and the one that is found shows the run's status, even where
\*   overlapping starts have linked several; the exceptions are a run whose status the tracer
\*   was never told of (a call raised after its commit, or its tracing was lost) and a trace
\*   last written with an answer that was outdated by then, until the next call writes it;
\* - if no two tracer transactions overlapped on it, that trace is the only one, with at most
\*   one projection of the run's steps;
\* - no other trace is left running, but of a start whose tracing was lost.
TraceIsTruthful ==
  TraceTypeOK /\
  (Quiet /\ wf # "none" =>
    /\ ~stale => /\ Linked # {}
                 /\ \A s \in find_run_by_workflow_run : trace[s].status = map_workflow_status(wf)
    /\ ~forked => /\ Cardinality(Linked) <= 1
                  /\ \A s \in Linked : Cardinality(trace[s].steps) <= 1
    /\ \A s \in StartCalls \ Linked : (trace[s].status \in {"absent", "FAILED"} \/ call[s].at = "lost"))

\* A provisional trace does not stay RUNNING without a run: start's outcome links, deletes or
\* fails it, unless its transaction fails or the call is interrupted before it.
ProvisionalEnds ==
  \A s \in StartCalls :
    trace[s] = Provisional ~> (trace[s] # Provisional \/ call[s].at = "lost")
=============================================================================
