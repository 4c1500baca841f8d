-------------------------- MODULE IncidentLifecycle --------------------------
(***************************************************************************)
(* The life of the incidents of one device: the five operator commands of  *)
(* IncidentLifecycleService, incidents created from a diagnosis by the     *)
(* workflow API or by alarm correlation, diagnoses linked to them by the   *)
(* coordinator, and the workflow engine that writes the incident status    *)
(* with raw strings.                                                       *)
(*                                                                         *)
(* A command loads the row, checks the transition table and commits later, *)
(* without a lock: its commit writes the columns it assigned over whatever *)
(* the row has become.  Two handlers cross sessions: the Incident Center's *)
(* start passes its gate in one transaction and starts the workflow in     *)
(* another, and create_incident reads the diagnosis' link before the       *)
(* insert it is meant to prevent.                                          *)
(***************************************************************************)
EXTENDS IncidentStates, Naturals, Sequences, FiniteSets

CONSTANTS
  Incidents,       \* identities of incidents
  MaxDiagnoses,    \* bound: predictions persisted for the device
  Callers,         \* API requests in flight
  NoIncident       \* a diagnosis without incident

ASSUME BoundAssumption == MaxDiagnoses \in Nat /\ NoIncident \notin Incidents
ASSUME CallerAssumption == IsFiniteSet(Callers)

VARIABLES
  row,         \* incidents table: status and which time stamps are set
  link,        \* diagnoses in order of creation: status and incident
  run,         \* workflow run of an (incident, diagnosis) pair
  call,        \* what each request has loaded
  mitigated,   \* history: incidents an operator reported mitigated
  overwritten, \* history: incidents on which a command's load was stale at its commit
  born         \* history: incidents create_incident made for a diagnosis

vars == <<row, link, run, call, mitigated, overwritten, born>>

-----------------------------------------------------------------------------
\* The vocabulary of incidents/states.py.
OPEN_INCIDENT_STATUSES == IncidentStatuses \ {"RESOLVED", "CLOSED", "CANCELLED"}

INCIDENT_TRANSITIONS ==
  [ OPEN |-> {"ACKNOWLEDGED", "CANCELLED", "UNDER_ANALYSIS"},
    ACKNOWLEDGED |-> {"INVESTIGATING", "CANCELLED", "UNDER_ANALYSIS"},
    INVESTIGATING |-> {"MITIGATED", "UNDER_ANALYSIS"},
    UNDER_ANALYSIS |-> {"ACTION_PENDING", "MITIGATED"},
    ACTION_PENDING |-> {"WORK_ORDER_CREATED"},
    WORK_ORDER_CREATED |-> {"MITIGATED"},
    MITIGATED |-> {"RESOLVED"},
    RESOLVED |-> {"CLOSED"},
    CLOSED |-> {"REOPENED"},
    REOPENED |-> {"INVESTIGATING"},
    CANCELLED |-> {} ]

WORKFLOW_ENTRY_STATUSES ==
  {s \in IncidentStatuses : "UNDER_ANALYSIS" \in INCIDENT_TRANSITIONS[s]}

WORKFLOW_READY_DIAGNOSIS_STATUSES == {"FAULT", "UNCERTAIN"}

\* The status each command of IncidentLifecycleService writes.
Commands == {"ACKNOWLEDGED", "INVESTIGATING", "RESOLVED", "CLOSED", "REOPENED"}

Absent == [status |-> "absent", acknowledged |-> FALSE, resolved |-> FALSE, closed |-> FALSE]
Opened == [Absent EXCEPT !.status = "OPEN"]
Idle == [at |-> "idle"]

Diagnoses == DOMAIN link
Exists(i) == row[i].status # "absent"
LiveIncidents == {i \in Incidents : row[i].status \in OPEN_INCIDENT_STATUSES}

Init ==
  /\ row = [i \in Incidents |-> Absent]
  /\ link = << >>
  /\ run = [pair \in Incidents \X (1..MaxDiagnoses) |-> "none"]
  /\ call = [c \in Callers |-> Idle]
  /\ mitigated = {}
  /\ overwritten = {}
  /\ born = [d \in 1..MaxDiagnoses |-> {}]

-----------------------------------------------------------------------------
(* Incidents and diagnoses come into being.                                *)

\* Alarm correlation opens an incident when the device has no live one inside
\* the window; the window is AlarmCorrelation's, here any moment may be outside.
_create_incident_for(i) ==
  /\ ~Exists(i)
  /\ row' = [row EXCEPT ![i] = Opened]
  /\ UNCHANGED <<link, run, call, mitigated, overwritten, born>>

\* The coordinator persists a prediction and links one that asks for action to
\* the live incident that was active last, whichever that is.
Diagnose(s) ==
  /\ Len(link) < MaxDiagnoses
  /\ \E i \in IF s \in WORKFLOW_READY_DIAGNOSIS_STATUSES /\ LiveIncidents # {}
                 THEN LiveIncidents ELSE {NoIncident} :
        link' = Append(link, [status |-> s, incident |-> i])
  /\ UNCHANGED <<row, run, call, mitigated, overwritten, born>>

\* Mutant: the link is not read before the insert.
CreateRead_unchecked(c, d) ==
  /\ call[c] = Idle
  /\ call' = [call EXCEPT ![c] = [at |-> "create", d |-> d]]
  /\ UNCHANGED <<row, link, run, mitigated, overwritten, born>>

\* POST /incidents: a linked diagnosis answers its incident and changes nothing ...
CreateRead(c, d) ==
  /\ call[c] = Idle
  /\ link[d].incident = NoIncident
  /\ call' = [call EXCEPT ![c] = [at |-> "create", d |-> d]]
  /\ UNCHANGED <<row, link, run, mitigated, overwritten, born>>

\* ... an unlinked one gets a new incident and the link, in the same commit.
create_incident(c, i) ==
  /\ call[c].at = "create"
  /\ ~Exists(i)
  /\ LET d == call[c].d IN
       /\ link' = [link EXCEPT ![d].incident = i]
       /\ born' = [born EXCEPT ![d] = @ \cup {i}]
  /\ row' = [row EXCEPT ![i] = Opened]
  /\ call' = [call EXCEPT ![c] = Idle]
  /\ UNCHANGED <<run, mitigated, overwritten>>

-----------------------------------------------------------------------------
(* Operator commands.                                                      *)

\* Mutant: any live incident may be moved.
_require_transition_live(i, target) == row[i].status \in OPEN_INCIDENT_STATUSES

_require_transition(i, target) == target \in INCIDENT_TRANSITIONS[row[i].status]

Load(c, i, target) ==
  /\ call[c] = Idle
  /\ Exists(i)
  /\ _require_transition(i, target)
  /\ call' = [call EXCEPT ![c] = [at |-> "command", i |-> i, target |-> target, seen |-> row[i]]]
  /\ UNCHANGED <<row, link, run, mitigated, overwritten, born>>

\* Mutant: reopening leaves resolved_at.
Written_keeping_resolved(r, seen, target) ==
  [ status |-> target,
    acknowledged |-> r.acknowledged \/ target = "ACKNOWLEDGED",
    resolved |-> r.resolved \/ target = "RESOLVED",
    closed |-> (r.closed /\ ~(target = "REOPENED" /\ seen.closed)) \/ target = "CLOSED" ]

\* The columns a command writes.  A stamp cleared on a row loaded without it
\* is no change, and the UPDATE leaves that column alone.
Written(r, seen, target) ==
  [ status |-> target,
    acknowledged |-> r.acknowledged \/ target = "ACKNOWLEDGED",
    resolved |-> (r.resolved /\ ~(target = "REOPENED" /\ seen.resolved)) \/ target = "RESOLVED",
    closed |-> (r.closed /\ ~(target = "REOPENED" /\ seen.closed)) \/ target = "CLOSED" ]

CommitCommand(c) ==
  /\ call[c].at = "command"
  /\ LET i == call[c].i IN
       /\ row' = [row EXCEPT ![i] = Written(row[i], call[c].seen, call[c].target)]
       /\ overwritten' = IF row[i] = call[c].seen THEN overwritten ELSE overwritten \cup {i}
  /\ call' = [call EXCEPT ![c] = Idle]
  /\ UNCHANGED <<link, run, mitigated, born>>

\* The transaction fails: the answer is an error and nothing was written.
CallLost(c) ==
  /\ call[c] # Idle
  /\ call' = [call EXCEPT ![c] = Idle]
  /\ UNCHANGED <<row, link, run, mitigated, overwritten, born>>

\* No code of the repository writes MITIGATED; the table lets it follow three
\* statuses, and the command that will write it is taken to respect the table.
Mitigate(i) ==
  /\ Exists(i)
  /\ _require_transition(i, "MITIGATED")
  /\ row' = [row EXCEPT ![i].status = "MITIGATED"]
  /\ mitigated' = mitigated \cup {i}
  /\ UNCHANGED <<link, run, call, overwritten, born>>

-----------------------------------------------------------------------------
(* The workflow engine's share of the incident.                            *)

\* WorkflowService.start: one run per pair; the incident's status is not looked at.
start(i, d) ==
  /\ Exists(i)
  /\ run[<<i, d>>] = "none"
  /\ link[d].incident = i
  /\ link[d].status \in WORKFLOW_READY_DIAGNOSIS_STATUSES
  /\ run' = [run EXCEPT ![<<i, d>>] = "running"]
  /\ row' = [row EXCEPT ![i].status = "UNDER_ANALYSIS"]
  /\ UNCHANGED <<link, mitigated, overwritten, born>>

\* POST /incidents/{id}/workflows goes straight to the engine.
start_workflow(i, d) == start(i, d) /\ UNCHANGED call

LatestDiagnosis(i, d) ==
  /\ link[d].incident = i
  /\ \A e \in Diagnoses : link[e].incident = i => e <= d

\* IncidentWorkflowGate.ensure_ready, then the commit that ends its session.
ensure_ready(c, i, d) ==
  /\ call[c] = Idle
  /\ row[i].status \in WORKFLOW_ENTRY_STATUSES
  /\ LatestDiagnosis(i, d)
  /\ link[d].status \in WORKFLOW_READY_DIAGNOSIS_STATUSES
  /\ call' = [call EXCEPT ![c] = [at |-> "gated", i |-> i, d |-> d]]
  /\ UNCHANGED <<row, link, run, mitigated, overwritten, born>>

start_incident_workflow(c) ==
  /\ call[c].at = "gated"
  /\ start(call[c].i, call[c].d)
  /\ call' = [call EXCEPT ![c] = Idle]

\* _persist_result: the run waits for approval, was allowed, or was blocked or failed.
PersistResult(i, d, outcome) ==
  /\ run[<<i, d>>] = "running"
  /\ run' = [run EXCEPT ![<<i, d>>] = IF outcome = "ACTION_PENDING" THEN "waiting" ELSE "ended"]
  /\ row' = IF outcome = "none" THEN row ELSE [row EXCEPT ![i].status = outcome]
  /\ UNCHANGED <<link, call, mitigated, overwritten, born>>

\* decide_approval: an approval creates the work order, a rejection leaves the incident.
decide_approval(i, d, approved) ==
  /\ run[<<i, d>>] = "waiting"
  /\ run' = [run EXCEPT ![<<i, d>>] = "ended"]
  /\ row' = IF approved THEN [row EXCEPT ![i].status = "WORK_ORDER_CREATED"] ELSE row
  /\ UNCHANGED <<link, call, mitigated, overwritten, born>>

-----------------------------------------------------------------------------
WorkflowStep(i, d) ==
  \/ start_workflow(i, d)
  \/ \E outcome \in {"ACTION_PENDING", "WORK_ORDER_CREATED", "none"} :
        PersistResult(i, d, outcome)
  \/ \E approved \in BOOLEAN : decide_approval(i, d, approved)

CallStep(c) ==
  \/ \E d \in Diagnoses : CreateRead(c, d)
  \/ \E i \in Incidents : create_incident(c, i)
  \/ \E i \in Incidents, target \in Commands : Load(c, i, target)
  \/ CommitCommand(c)
  \/ CallLost(c)
  \/ \E i \in Incidents, d \in Diagnoses : ensure_ready(c, i, d)
  \/ start_incident_workflow(c)

Next ==
  \/ \E i \in Incidents : _create_incident_for(i) \/ Mitigate(i)
  \/ \E s \in {"FAULT", "NORMAL"} : Diagnose(s)
  \/ \E i \in Incidents, d \in Diagnoses : WorkflowStep(i, d)
  \/ \E c \in Callers : CallStep(c)

Spec == Init /\ [][Next]_vars

-----------------------------------------------------------------------------
(* Properties.                                                             *)

\* Every table is well typed.
TypeOK ==
  /\ row \in [Incidents -> [status : IncidentStatuses \cup {"absent"}, acknowledged : BOOLEAN,
                            resolved : BOOLEAN, closed : BOOLEAN]]
  /\ Len(link) <= MaxDiagnoses
  /\ \A d \in Diagnoses : link[d] \in [status : {"FAULT", "NORMAL"},
                                       incident : Incidents \cup {NoIncident}]
  /\ run \in [Incidents \X (1..MaxDiagnoses) -> {"none", "running", "waiting", "ended"}]
  /\ mitigated \subseteq Incidents /\ overwritten \subseteq Incidents
  /\ born \in [1..MaxDiagnoses -> SUBSET Incidents]

\* Tables are well typed, and whatever commands, workflow writes and stale
\* commits interleave, an incident reaches RESOLVED or CLOSED, or gets back to
\* REOPENED, only after somebody reported it MITIGATED, which no code of the
\* repository does: correlation keeps every incident it opened in the live set
\* (states.py:158).
LeavesLiveOnlyMitigated ==
  TypeOK /\
  \A i \in Incidents :
    row[i].status \in {"RESOLVED", "CLOSED", "REOPENED"} \/ row[i].resolved => i \in mitigated

\* create_incident prevents a second incident for a diagnosis by reading the
\* link first.  Racing calls each create one, but never more than there are
\* calls in flight: once one has committed, later calls answer its incident.
DuplicatesBounded ==
  \A d \in Diagnoses : Cardinality(born[d]) <= Cardinality(Callers)

\* The MTTR metric reads resolved_at of the rows that carry one.  A closed or
\* resolved incident carries it, and a closed one closed_at, through every
\* reopening and every raw status write of the workflow, unless a command
\* committed over a row that had changed since it was loaded.
StampsUnlessOverwritten ==
  \A i \in Incidents \ overwritten :
    /\ row[i].status \in {"RESOLVED", "CLOSED"} => row[i].resolved
    /\ row[i].status = "CLOSED" => row[i].closed
    /\ row[i].closed => row[i].resolved
    /\ row[i].status = "REOPENED" => ~row[i].resolved /\ ~row[i].closed
=============================================================================
