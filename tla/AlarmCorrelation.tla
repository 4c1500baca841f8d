--------------------------- MODULE AlarmCorrelation ---------------------------
(***************************************************************************)
(* Alarms and their correlation into incidents, for one device: the        *)
(* ingestion transaction (TelemetryService.ingest_payload and              *)
(* _apply_alarm_rules, backend/app/services/telemetry.py), the alarm       *)
(* instances it opens and updates (backend/app/incidents/service.py), the  *)
(* incidents it attaches them to (incident_service.py), and the operator   *)
(* commands on alarms.                                                     *)
(*                                                                         *)
(* A sample is identified by its timestamp and breaches one rule; the      *)
(* samples that breach none change nothing here.  A transaction reads the  *)
(* open alarm, writes it, reads the live incident, writes it and commits:  *)
(* row locks are taken by the writes, not by the reads, and the columns    *)
(* that changed are written with values computed from what was read.       *)
(* Every incident stays live: no code writes MITIGATED, the only way to    *)
(* RESOLVED and CLOSED, nor CANCELLED.                                     *)
(***************************************************************************)
EXTENDS Integers, FiniteSets

CONSTANTS
  Rules,          \* alarm rule ids
  Severity,       \* rule -> rank of its severity (SEVERITY_ORDER)
  MaxTime,        \* timestamps are 0 .. MaxTime
  Window,         \* length of the correlation window
  MaxAlarms,      \* bound on alarm instances
  MaxIncidents,   \* bound on incidents
  Workers,        \* ingestion workers (MQTT consumer, gateway runtimes)
  Operators,      \* operator commands in flight at a time
  NoRule

ASSUME SeverityAssumption == Severity \in [Rules -> 0 .. 4]
ASSUME NoRuleAssumption == Rules \cap { NoRule, "NONE", "CONTAINED" } = {}
ASSUME BoundsAssumption == MaxTime \in Nat /\ Window \in Nat /\ MaxAlarms \in Nat /\ MaxIncidents \in Nat

VARIABLES
  stored,         \* telemetry: timestamp -> the rule its alarm work was committed for,
                  \* "CONTAINED" if that work was rolled back, "NONE" if there is no row
  alarm,          \* alarms: rule, status, occurrence_count, last_triggered_at
  incident,       \* incidents: last_alarm_at, severity rank (-1 while there is no row)
  links,          \* incident_alarms
  worker,         \* the ingestion transactions in flight
  command         \* the operator commands in flight

vars == << stored, alarm, incident, links, worker, command >>

Times     == 0 .. MaxTime
Alarms    == 1 .. MaxAlarms
Incidents == 1 .. MaxIncidents

NoAlarm    == [rule |-> NoRule, status |-> "NONE", count |-> 0, last |-> 0]
NoIncident == [last |-> 0, severity |-> -1]
NoWork     == [ pc |-> "idle", time |-> 0, rule |-> NoRule, alarm |-> 0, count |-> 0, last |-> 0,
                incident |-> 0, ilast |-> 0, iseverity |-> -1 ]
NoCommand  == [pc |-> "idle", alarm |-> 0, target |-> "NONE"]

ALARM_TRANSITIONS ==
  [ ACTIVE       |-> { "ACKNOWLEDGED", "CLEARED" },
    ACKNOWLEDGED |-> { "CLEARED", "ACTIVE" },
    CLEARED      |-> {} ]

OPEN_ALARM_STATUSES == { "ACTIVE", "ACKNOWLEDGED" }

Later(s, t) == IF s > t THEN s ELSE t

\* find_open: the open instances of the rule, of which the partial unique index
\* admits one.
find_open(rule) ==
  { a \in Alarms : alarm[a].rule = rule /\ alarm[a].status \in OPEN_ALARM_STATUSES }

Live == { i \in Incidents : incident[i].severity # -1 }

\* find_open_for_device: the most recently active, ties broken by a random id.
find_open_for_device == { i \in Live : \A j \in Live : incident[j].last <= incident[i].last }

Init ==
  /\ stored = [t \in Times |-> "NONE"]
  /\ alarm = [a \in Alarms |-> NoAlarm]
  /\ incident = [i \in Incidents |-> NoIncident]
  /\ links = {}
  /\ worker = [w \in Workers |-> NoWork]
  /\ command = [o \in Operators |-> NoCommand]

-----------------------------------------------------------------------------
(* Ingestion                                                                *)

\* Mutant: a redelivered sample is taken for a new one.
insert_once_unkeyed(w, t) == TRUE

\* insert_once: the unique key (device_id, timestamp) makes a redelivered sample
\* wait for a transaction that has inserted it, and end as a duplicate.
insert_once(w, t) ==
  /\ stored[t] = "NONE"
  /\ \A v \in Workers : worker[v].pc # "idle" => worker[v].time # t

\* The sample is inserted and create_or_update_alarm looks for the open instance.
IngestRead(w, t, rule) ==
  /\ worker[w].pc = "idle"
  /\ insert_once(w, t)
  /\ \/ /\ find_open(rule) = {}
        /\ worker' = [worker EXCEPT ![w] = [NoWork EXCEPT !.pc = "read", !.time = t,
                                                          !.rule = rule]]
     \/ \E a \in find_open(rule) :
          worker' = [worker EXCEPT ![w] = [NoWork EXCEPT !.pc = "read", !.time = t,
                                                         !.rule = rule, !.alarm = a,
                                                         !.count = alarm[a].count,
                                                         !.last = alarm[a].last]]
  /\ UNCHANGED << stored, alarm, incident, links, command >>

\* The rows and index entries that a transaction holds once it has written its
\* alarm: an instance, or the right to insert one for the rule.
Holds(v, a, rule) == worker[v].pc = "alarm" /\ worker[v].alarm = a /\ worker[v].rule = rule

\* Mutant: a late sample pulls the latest activity back.
_apply_breach_latest(t, last) == t

\* _apply_breach: the latest activity only moves forward.
_apply_breach(t, last) == Later(t, last)

\* A sample older than the incident's latest activity is outside, however close.
_within_window(i, activity) ==
  incident[i].last <= activity /\ activity <= incident[i].last + Window

\* The alarm is written and correlate_alarm looks for the incident to attach to.
\* activity is alarm_activity_at of the instance as it will be committed.
Correlate(w, a, count, activity) ==
  \/ /\ \A i \in find_open_for_device : ~_within_window(i, activity)
     /\ worker' = [worker EXCEPT ![w].pc = "alarm", ![w].alarm = a, ![w].count = count,
                                 ![w].last = activity, ![w].incident = 0]
  \/ \E i \in find_open_for_device :
       /\ _within_window(i, activity)
       /\ worker' = [worker EXCEPT ![w].pc = "alarm", ![w].alarm = a, ![w].count = count,
                                   ![w].last = activity, ![w].incident = i,
                                   ![w].ilast = incident[i].last,
                                   ![w].iseverity = incident[i].severity]

\* The instance that was found is updated, whatever has become of it.
IngestUpdate(w) ==
  LET k == worker[w] IN
  /\ k.pc = "read"
  /\ k.alarm # 0
  /\ \A v \in Workers : ~Holds(v, k.alarm, k.rule)
  /\ Correlate(w, k.alarm, k.count + 1, _apply_breach(k.time, k.last))
  /\ UNCHANGED << stored, alarm, incident, links, command >>

\* None was found: one is inserted, or the unique index refuses it because one
\* has been opened since: that one is read, to be updated.
IngestInsert(w) ==
  LET k == worker[w] IN
  /\ k.pc = "read"
  /\ k.alarm = 0
  /\ \A v \in Workers : ~Holds(v, 0, k.rule)
  /\ \/ find_open(k.rule) = {} /\ Correlate(w, 0, 1, k.time)
     \/ \E a \in find_open(k.rule) :
          worker' = [worker EXCEPT ![w].alarm = a, ![w].count = alarm[a].count,
                                   ![w].last = alarm[a].last]
  /\ UNCHANGED << stored, alarm, incident, links, command >>

FreeAlarms    == { a \in Alarms : alarm[a].status = "NONE" }
FreeIncidents == Incidents \ Live

\* _absorb_alarm and the flush: a column is written if the alarm exceeds what
\* was read of the incident.
_absorb_alarm(k, row) ==
  [row EXCEPT !.last = IF k.last > k.ilast THEN k.last ELSE @,
              !.severity = IF Severity[k.rule] > k.iseverity THEN Severity[k.rule] ELSE @]

\* The flush of an updated instance: last_triggered_at is among the columns
\* written only if the sample has moved it.
written_breach(k, row) ==
  [row EXCEPT !.count = k.count, !.last = IF k.last = k.time THEN k.last ELSE @]

\* Sample, alarm, incident and link are committed together.
IngestCommit(w) ==
  LET k == worker[w] IN
  /\ k.pc = "alarm"
  /\ \E a \in IF k.alarm = 0 THEN FreeAlarms ELSE {k.alarm},
        i \in IF k.incident = 0 THEN FreeIncidents ELSE {k.incident} :
       /\ alarm' = [alarm EXCEPT ![a] =
            IF k.alarm = 0 THEN [rule |-> k.rule, status |-> "ACTIVE", count |-> 1, last |-> k.last]
            ELSE written_breach(k, @)]
       /\ incident' = [incident EXCEPT ![i] =
            IF k.incident = 0 THEN [last |-> k.last, severity |-> Severity[k.rule]]
            ELSE _absorb_alarm(k, @)]
       /\ links' = links \cup { <<i, a>> }
  /\ stored' = [stored EXCEPT ![k.time] = k.rule]
  /\ worker' = [worker EXCEPT ![w] = NoWork]
  /\ UNCHANGED command

\* Mutant: there is no savepoint, and the alarm that was written stays.
IngestContainedNoSavepoint(w) ==
  LET k == worker[w] IN
  /\ k.pc = "alarm"
  /\ \E a \in IF k.alarm = 0 THEN FreeAlarms ELSE {k.alarm} :
       alarm' = [alarm EXCEPT ![a] =
         IF k.alarm = 0 THEN [rule |-> k.rule, status |-> "ACTIVE", count |-> 1, last |-> k.last]
         ELSE [@ EXCEPT !.count = k.count, !.last = k.last]]
  /\ stored' = [stored EXCEPT ![k.time] = "CONTAINED"]
  /\ worker' = [worker EXCEPT ![w] = NoWork]
  /\ UNCHANGED << incident, links, command >>

\* The alarm work raises: the savepoint rolls it back, the sample commits with
\* an ALARM_EVALUATION_FAILED record.
IngestContained(w) ==
  /\ worker[w].pc # "idle"
  /\ stored' = [stored EXCEPT ![worker[w].time] = "CONTAINED"]
  /\ worker' = [worker EXCEPT ![w] = NoWork]
  /\ UNCHANGED << alarm, incident, links, command >>

\* The transaction is lost with its worker.
IngestLost(w) ==
  /\ worker[w].pc # "idle"
  /\ worker' = [worker EXCEPT ![w] = NoWork]
  /\ UNCHANGED << stored, alarm, incident, links, command >>

-----------------------------------------------------------------------------
(* Operator commands                                                        *)

\* acknowledge_alarm and clear_alarm read the instance and check the move.
CommandRead(o, a, target) ==
  /\ command[o].pc = "idle"
  /\ alarm[a].status \in DOMAIN ALARM_TRANSITIONS
  /\ target \in ALARM_TRANSITIONS[alarm[a].status]
  /\ command' = [command EXCEPT ![o] = [pc |-> "checked", alarm |-> a, target |-> target]]
  /\ UNCHANGED << stored, alarm, incident, links, worker >>

\* The row's lock is granted and its status written, whatever it has become; an
\* instance that has been cleared meanwhile is refused by the unique index if the
\* rule has another open one, or one that is being inserted.
CommandCommit(o) ==
  LET k == command[o] IN
  /\ k.pc = "checked"
  /\ \A v \in Workers : ~Holds(v, k.alarm, alarm[k.alarm].rule)
  /\ k.target # "CLEARED" => /\ find_open(alarm[k.alarm].rule) \subseteq {k.alarm}
                             /\ \/ alarm[k.alarm].status # "CLEARED"
                                \/ \A v \in Workers : ~Holds(v, 0, alarm[k.alarm].rule)
  /\ alarm' = [alarm EXCEPT ![k.alarm].status = k.target]
  /\ command' = [command EXCEPT ![o] = NoCommand]
  /\ UNCHANGED << stored, incident, links, worker >>

\* The write is refused or the command's transaction is lost.
CommandLost(o) ==
  /\ command[o].pc = "checked"
  /\ command' = [command EXCEPT ![o] = NoCommand]
  /\ UNCHANGED << stored, alarm, incident, links, worker >>

-----------------------------------------------------------------------------
Next ==
  \/ \E w \in Workers, t \in Times, rule \in Rules : IngestRead(w, t, rule)
  \/ \E w \in Workers : \/ IngestUpdate(w) \/ IngestInsert(w)
                        \/ IngestCommit(w) \/ IngestContained(w) \/ IngestLost(w)
  \/ \E o \in Operators, a \in Alarms, target \in { "ACKNOWLEDGED", "CLEARED" } :
       CommandRead(o, a, target)
  \/ \E o \in Operators : CommandCommit(o) \/ CommandLost(o)

Spec == Init /\ [][Next]_vars

-----------------------------------------------------------------------------
(* Properties                                                               *)

AlarmRows == [ rule : Rules \cup {NoRule}, count : Nat, last : Times,
               status : { "NONE", "ACTIVE", "ACKNOWLEDGED", "CLEARED" } ]

Works == [ pc : { "idle", "read", "alarm" }, time : Times, rule : Rules \cup {NoRule},
           alarm : 0 .. MaxAlarms, count : Nat, last : Times, incident : 0 .. MaxIncidents,
           ilast : Times, iseverity : -1 .. 4 ]

Commands == [ pc : { "idle", "checked" }, alarm : 0 .. MaxAlarms,
              target : { "NONE", "ACKNOWLEDGED", "CLEARED" } ]

\* Rows and transactions hold the values their columns and types admit; no
\* activity lies after the latest sample.
TypeOK ==
  /\ stored \in [Times -> Rules \cup { "NONE", "CONTAINED" }]
  /\ alarm \in [Alarms -> AlarmRows]
  /\ incident \in [Incidents -> [last : Times, severity : -1 .. 4]]
  /\ links \subseteq Incidents \X Alarms
  /\ worker \in [Workers -> Works]
  /\ command \in [Operators -> Commands]

\* A rule has at most one open instance, however inserts race one another and a
\* late acknowledgement that takes a cleared instance back.
OneOpenPerRule == \A rule \in Rules : \A a, b \in find_open(rule) : a = b

\* Every alarm instance is part of an incident: what _apply_alarm_rules commits,
\* or rolls back to its savepoint, is the alarm together with its link.
AlarmsAreLinked ==
  \A a \in Alarms : alarm[a].status # "NONE" => \E i \in Live : <<i, a>> \in links

\* However ingestions, retries and operators overlap: one open instance per rule,
\* and no alarm outside an incident.
OpenAndLinked == OneOpenPerRule /\ AlarmsAreLinked

\* Occurrences counted for the rule: those of each of its instances, numbered.
Counted(rule) ==
  UNION { {a} \X (1 .. alarm[a].count) : a \in { b \in Alarms : alarm[b].rule = rule } }

Occurrences(rule) == Cardinality(Counted(rule))

Breaches(rule) == Cardinality({ t \in Times : stored[t] = rule })

\* Redelivery, races and lost transactions never make an instance count a breach
\* twice: the rule's instances count no more breaches than are stored.
NeverOvercounted == \A rule \in Rules : Occurrences(rule) <= Breaches(rule)

\* With one worker per device no breach is lost either, whatever operators do.
CountedExactly == \A rule \in Rules : Occurrences(rule) = Breaches(rule)

\* An incident is at least as severe as every alarm that is part of it.
SeverityCovers ==
  \A link \in links : incident[link[1]].severity >= Severity[alarm[link[2]].rule]
=============================================================================
