------------------------ MODULE AlarmCorrelationProofs ------------------------
(***************************************************************************)
(* Proofs about the alarms: AlarmCorrelation, for any number of ingestion  *)
(* workers, operators, rules and samples, and, in the last section, the    *)
(* registry of AlarmRules, for any vocabulary, ranges and requests.        *)
(***************************************************************************)
EXTENDS MCAlarmCorrelation, AlarmRules, FiniteSetTheorems, FunctionTheorems, TLAPS

\* A transaction in flight works for a rule, and one that has written its alarm has
\* the incident it found, which is still live.
WorkInv ==
  \A w \in Workers : worker[w].pc # "idle" =>
    /\ worker[w].rule \in Rules
    /\ worker[w].pc = "alarm" /\ worker[w].incident # 0 => worker[w].incident \in Live

\* A command in flight acknowledges or clears an instance that is there.
CommandInv ==
  \A o \in Operators : command[o].pc = "checked" =>
    /\ command[o].alarm \in Alarms
    /\ alarm[command[o].alarm].status # "NONE"
    /\ command[o].target # "NONE"

\* A transaction that has inserted an instance is the only one of its rule, and no
\* other instance is open or can be taken back until it ends.
InsertInv ==
  \A w \in Workers : worker[w].pc = "alarm" /\ worker[w].alarm = 0 =>
    /\ find_open(worker[w].rule) = {}
    /\ \A v \in Workers : Holds(v, 0, worker[w].rule) => v = w

OpenInv == WorkInv /\ CommandInv /\ InsertInv /\ OneOpenPerRule

AInv == TypeOK /\ OpenInv /\ AlarmsAreLinked

\* The transaction of w goes on as x, and nothing else moves.
Becomes(w, x) ==
  /\ worker' = [worker EXCEPT ![w] = x]
  /\ UNCHANGED << stored, alarm, incident, links, command >>

\* The instance that a transaction has just read, if there is one, and the incident that it
\* has just found.
Found(x) ==
  x.alarm # 0 => /\ x.alarm \in Alarms
                 /\ alarm[x.alarm].rule = x.rule /\ alarm[x.alarm].status # "NONE"
                 /\ x.count = alarm[x.alarm].count /\ x.last = alarm[x.alarm].last

Attached(x) ==
  x.incident # 0 => /\ x.incident \in Live
                    /\ x.ilast = incident[x.incident].last
                    /\ x.iseverity = incident[x.incident].severity

\* What stands for no transaction, command, or row is well typed.
LEMMA NothingTyped ==
  /\ NoWork \in Works
  /\ NoCommand \in Commands
  /\ 0 \in Times
PROOF
<1>1. 0 \in Times /\ 0 \in 0 .. MaxAlarms /\ 0 \in 0 .. MaxIncidents /\ 0 \in Nat /\ -1 \in -1 .. 4
  BY BoundsAssumption DEF Times
<1> QED BY <1>1 DEF NoWork, NoCommand, Works, Commands

\* A sample that is taken up begins a transaction of its rule.
LEMMA ReadShape ==
  ASSUME TypeOK, NEW w \in Workers, NEW t \in Times, NEW r \in Rules, IngestRead(w, t, r)
  PROVE  \E x \in Works : Becomes(w, x) /\ x.pc = "read" /\ x.rule = r /\ x.time = t /\ Found(x)
PROOF
<1>a. UNCHANGED << stored, alarm, incident, links, command >>
  BY Zenon DEF IngestRead
<1>0. UNCHANGED << stored, alarm, incident, links, command >> /\ NoWork \in Works
  BY <1>a, NothingTyped
<1>1. CASE worker' = [worker EXCEPT ![w] = [NoWork EXCEPT !.pc = "read", !.time = t, !.rule = r]]
  <2> DEFINE x == [NoWork EXCEPT !.pc = "read", !.time = t, !.rule = r]
  <2>1. x \in Works
    BY <1>0 DEF Works
  <2>2. x.pc = "read" /\ x.rule = r /\ x.time = t /\ Found(x)
    BY DEF NoWork, Found
  <2>3. worker' = [worker EXCEPT ![w] = x]
    BY <1>1
  <2> HIDE DEF x
  <2>4. Becomes(w, x)
    BY <1>0, <2>3 DEF Becomes
  <2> QED BY <2>1, <2>2, <2>4
<1>2. ASSUME NEW a \in find_open(r),
             worker' = [worker EXCEPT ![w] = [NoWork EXCEPT !.pc = "read", !.time = t, !.rule = r,
                                                            !.alarm = a, !.count = alarm[a].count,
                                                            !.last = alarm[a].last]]
      PROVE  \E x \in Works : Becomes(w, x) /\ x.pc = "read" /\ x.rule = r /\ x.time = t /\ Found(x)
  <2> DEFINE x == [NoWork EXCEPT !.pc = "read", !.time = t, !.rule = r, !.alarm = a,
                                 !.count = alarm[a].count, !.last = alarm[a].last]
  <2>1. a \in 0 .. MaxAlarms /\ alarm[a].count \in Nat /\ alarm[a].last \in Times
    BY BoundsAssumption DEF find_open, Alarms, TypeOK, AlarmRows
  <2>2. x \in Works
    BY <1>0, <2>1 DEF Works
  <2>3. x.pc = "read" /\ x.rule = r /\ x.time = t /\ Found(x)
    BY DEF NoWork, Found, find_open, OPEN_ALARM_STATUSES
  <2>4. worker' = [worker EXCEPT ![w] = x]
    BY <1>2
  <2> HIDE DEF x
  <2>5. Becomes(w, x)
    BY <1>0, <2>4 DEF Becomes
  <2> QED BY <2>2, <2>3, <2>5
<1>3. \/ worker' = [worker EXCEPT ![w] = [NoWork EXCEPT !.pc = "read", !.time = t, !.rule = r]]
      \/ \E a \in find_open(r) :
           worker' = [worker EXCEPT ![w] = [NoWork EXCEPT !.pc = "read", !.time = t, !.rule = r,
                                                          !.alarm = a, !.count = alarm[a].count,
                                                          !.last = alarm[a].last]]
  BY Zenon DEF IngestRead
<1> QED BY <1>1, <1>2, <1>3, Zenon

\* A transaction that has written its alarm has an incident that is live, or none.
LEMMA CorrelateShape ==
  ASSUME TypeOK, NEW w \in Workers, NEW a \in 0 .. MaxAlarms, NEW c \in Nat, NEW l \in Times,
         Correlate(w, a, c, l)
  PROVE  \E x \in Works : /\ worker' = [worker EXCEPT ![w] = x]
                          /\ x.pc = "alarm" /\ x.alarm = a /\ x.rule = worker[w].rule
                          /\ x.time = worker[w].time /\ x.count = c /\ x.last = l
                          /\ Attached(x)
PROOF
<1> DEFINE k == worker[w]
<1>0. worker \in [Workers -> Works] /\ k \in Works /\ 0 \in 0 .. MaxIncidents
  BY BoundsAssumption DEF TypeOK
<1>1. CASE worker' = [worker EXCEPT ![w].pc = "alarm", ![w].alarm = a, ![w].count = c,
                                    ![w].last = l, ![w].incident = 0]
  <2> DEFINE x == [k EXCEPT !.pc = "alarm", !.alarm = a, !.count = c, !.last = l, !.incident = 0]
  <2>1. x \in Works
    BY <1>0 DEF Works
  <2>2. /\ x.pc = "alarm" /\ x.alarm = a /\ x.rule = k.rule /\ x.time = k.time
        /\ x.count = c /\ x.last = l /\ x.incident = 0
    BY <1>0 DEF Works
  <2>3. worker' = [worker EXCEPT ![w] = x]
    BY <1>0, <1>1
  <2> HIDE DEF x
  <2> QED BY <2>1, <2>2, <2>3 DEF Attached
<1>2. ASSUME NEW i \in find_open_for_device,
             worker' = [worker EXCEPT ![w].pc = "alarm", ![w].alarm = a, ![w].count = c,
                                      ![w].last = l, ![w].incident = i,
                                      ![w].ilast = incident[i].last,
                                      ![w].iseverity = incident[i].severity]
      PROVE  \E x \in Works : /\ worker' = [worker EXCEPT ![w] = x]
                              /\ x.pc = "alarm" /\ x.alarm = a /\ x.rule = worker[w].rule
                              /\ x.time = worker[w].time /\ x.count = c /\ x.last = l
                              /\ Attached(x)
  <2> DEFINE x == [k EXCEPT !.pc = "alarm", !.alarm = a, !.count = c, !.last = l, !.incident = i,
                            !.ilast = incident[i].last, !.iseverity = incident[i].severity]
  <2>1. i \in Live /\ i \in Incidents
    BY DEF find_open_for_device, Live
  <2>2. i \in 0 .. MaxIncidents /\ incident[i].last \in Times /\ incident[i].severity \in -1 .. 4
    BY <2>1, BoundsAssumption DEF TypeOK, Incidents
  <2>3. x \in Works
    BY <1>0, <2>2 DEF Works
  <2>4. /\ x.pc = "alarm" /\ x.alarm = a /\ x.rule = k.rule /\ x.time = k.time
        /\ x.count = c /\ x.last = l /\ x.incident = i
        /\ x.ilast = incident[i].last /\ x.iseverity = incident[i].severity
    BY <1>0 DEF Works
  <2>5. worker' = [worker EXCEPT ![w] = x]
    BY <1>0, <1>2
  <2> HIDE DEF x
  <2> QED BY <2>1, <2>3, <2>4, <2>5 DEF Attached
<1>3. \/ worker' = [worker EXCEPT ![w].pc = "alarm", ![w].alarm = a, ![w].count = c,
                                  ![w].last = l, ![w].incident = 0]
      \/ \E i \in find_open_for_device :
           worker' = [worker EXCEPT ![w].pc = "alarm", ![w].alarm = a, ![w].count = c,
                                    ![w].last = l, ![w].incident = i,
                                    ![w].ilast = incident[i].last,
                                    ![w].iseverity = incident[i].severity]
  BY Zenon DEF Correlate
<1> QED BY <1>1, <1>2, <1>3, Zenon

\* An update writes the instance that was found and looks for the incident.
LEMMA UpdateShape ==
  ASSUME TypeOK, NEW w \in Workers, IngestUpdate(w)
  PROVE  \E x \in Works : /\ Becomes(w, x) /\ worker[w].pc = "read"
                          /\ x.pc = "alarm" /\ x.rule = worker[w].rule
                          /\ x.alarm = worker[w].alarm /\ x.alarm # 0
                          /\ x.time = worker[w].time /\ x.count = worker[w].count + 1
                          /\ x.last = _apply_breach(worker[w].time, worker[w].last)
                          /\ Attached(x)
PROOF
<1> DEFINE k == worker[w]
           activity == _apply_breach(k.time, k.last)
<1>1. /\ k.alarm \in 0 .. MaxAlarms /\ k.count + 1 \in Nat
      /\ k.time \in Times /\ k.last \in Times
  BY DEF TypeOK, Works
<1>2. activity \in Times
  BY <1>1 DEF _apply_breach, Later
<1>3. /\ Correlate(w, k.alarm, k.count + 1, activity)
      /\ k.pc = "read" /\ k.alarm # 0
      /\ UNCHANGED << stored, alarm, incident, links, command >>
  BY Zenon DEF IngestUpdate
<1> HIDE DEF activity
<1>4. \E x \in Works : /\ worker' = [worker EXCEPT ![w] = x]
                       /\ x.pc = "alarm" /\ x.alarm = k.alarm /\ x.rule = worker[w].rule
                       /\ x.time = worker[w].time /\ x.count = k.count + 1 /\ x.last = activity
                       /\ Attached(x)
  BY <1>1, <1>2, <1>3, CorrelateShape
<1> QED BY <1>3, <1>4, Zenon DEF Becomes, activity

\* An insert takes the rule's place in the index, or reads the instance that has it.
LEMMA InsertShape ==
  ASSUME TypeOK, NEW w \in Workers, IngestInsert(w)
  PROVE  \E x \in Works :
           /\ Becomes(w, x) /\ worker[w].pc = "read" /\ x.rule = worker[w].rule
           /\ x.time = worker[w].time
           /\ \/ x.pc = "read" /\ Found(x)
              \/ /\ x.pc = "alarm" /\ x.alarm = 0 /\ x.last = x.time /\ Attached(x)
                 /\ find_open(x.rule) = {}
                 /\ \A v \in Workers : ~Holds(v, 0, x.rule)
PROOF
<1> DEFINE k == worker[w]
<1>0. /\ worker \in [Workers -> Works] /\ k \in Works
      /\ 0 \in 0 .. MaxAlarms /\ 1 \in Nat
  BY BoundsAssumption DEF TypeOK
<1>1. /\ k.pc = "read" /\ k.alarm = 0 /\ \A v \in Workers : ~Holds(v, 0, k.rule)
      /\ UNCHANGED << stored, alarm, incident, links, command >>
  BY Zenon DEF IngestInsert
<1>2. CASE find_open(k.rule) = {} /\ Correlate(w, 0, 1, k.time)
  <2>1. k.time \in Times
    BY <1>0 DEF Works
  <2>2. \E x \in Works : /\ worker' = [worker EXCEPT ![w] = x]
                         /\ x.pc = "alarm" /\ x.alarm = 0 /\ x.rule = worker[w].rule
                         /\ x.time = worker[w].time /\ x.count = 1 /\ x.last = k.time
                         /\ Attached(x)
    BY <1>0, <1>2, <2>1, CorrelateShape
  <2> QED BY <1>1, <1>2, <2>2, Zenon DEF Becomes
<1>3. ASSUME NEW a \in find_open(k.rule),
             worker' = [worker EXCEPT ![w].alarm = a, ![w].count = alarm[a].count,
                                      ![w].last = alarm[a].last]
      PROVE  \E x \in Works : /\ Becomes(w, x) /\ x.rule = worker[w].rule /\ x.pc = "read"
                              /\ x.time = worker[w].time /\ Found(x)
  <2> DEFINE x == [k EXCEPT !.alarm = a, !.count = alarm[a].count, !.last = alarm[a].last]
  <2>1. a \in 0 .. MaxAlarms /\ alarm[a].count \in Nat /\ alarm[a].last \in Times
    BY BoundsAssumption DEF find_open, Alarms, TypeOK, AlarmRows
  <2>2. x \in Works
    BY <1>0, <2>1 DEF Works
  <2>3. x.rule = k.rule /\ x.pc = "read" /\ x.time = k.time /\ Found(x)
    BY <1>0, <1>1 DEF Works, Found, find_open, OPEN_ALARM_STATUSES
  <2>4. worker' = [worker EXCEPT ![w] = x]
    BY <1>0, <1>3
  <2> HIDE DEF x
  <2> QED BY <1>1, <2>2, <2>3, <2>4, Zenon DEF Becomes
<1>4. \/ find_open(k.rule) = {} /\ Correlate(w, 0, 1, k.time)
      \/ \E a \in find_open(k.rule) :
           worker' = [worker EXCEPT ![w].alarm = a, ![w].count = alarm[a].count,
                                    ![w].last = alarm[a].last]
  BY Zenon DEF IngestInsert
<1>5. CASE \E a \in find_open(k.rule) :
             worker' = [worker EXCEPT ![w].alarm = a, ![w].count = alarm[a].count,
                                      ![w].last = alarm[a].last]
  BY <1>1, <1>3, <1>5, Zenon
<1> QED BY <1>2, <1>4, <1>5, Zenon

\* Every step keeps the types.
LEMMA TypeStep ==
  ASSUME TypeOK, WorkInv, [Next]_vars
  PROVE  TypeOK'
PROOF
<1> USE BoundsAssumption, SeverityAssumption, NoRuleAssumption DEF TypeOK
<1>1. ASSUME NEW w \in Workers, NEW tm \in Times, NEW rl \in Rules, IngestRead(w, tm, rl)
      PROVE  TypeOK'
  <2>1. PICK x \in Works : Becomes(w, x) /\ x.pc = "read" /\ x.rule = rl
    BY <1>1, ReadShape
  <2> QED BY <2>1 DEF Becomes
<1>2. ASSUME NEW w \in Workers, IngestUpdate(w)
      PROVE  TypeOK'
  <2>1. PICK x \in Works : 
          /\ Becomes(w, x) /\ worker[w].pc = "read"
          /\ x.pc = "alarm" /\ x.alarm # 0 /\ x.rule = worker[w].rule
          /\ x.incident # 0 => x.incident \in Live
    BY <1>2, UpdateShape DEF Attached
  <2> QED BY <2>1 DEF Becomes
<1>3. ASSUME NEW w \in Workers, IngestInsert(w)
      PROVE  TypeOK'
  <2>1. PICK x \in Works : 
          /\ Becomes(w, x) /\ worker[w].pc = "read" /\ x.rule = worker[w].rule
          /\ \/ x.pc = "read"
             \/ /\ x.pc = "alarm" /\ x.alarm = 0
                /\ x.incident # 0 => x.incident \in Live
                /\ find_open(x.rule) = {}
                /\ \A v \in Workers : ~Holds(v, 0, x.rule)
    BY <1>3, InsertShape DEF Attached
  <2> QED BY <2>1 DEF Becomes
<1>4. ASSUME NEW w \in Workers, IngestCommit(w)
      PROVE  TypeOK'
  <2> DEFINE k == worker[w]
  <2>0. k \in Works /\ k.pc = "alarm"
    BY <1>4 DEF IngestCommit
  <2>1. PICK b \in IF k.alarm = 0 THEN FreeAlarms ELSE {k.alarm},
             i \in IF k.incident = 0 THEN FreeIncidents ELSE {k.incident} :
          /\ alarm' = [alarm EXCEPT ![b] =
               IF k.alarm = 0
               THEN [rule |-> k.rule, status |-> "ACTIVE", count |-> 1, last |-> k.last]
               ELSE written_breach(k, @)]
          /\ incident' = [incident EXCEPT ![i] =
               IF k.incident = 0 THEN [last |-> k.last, severity |-> Severity[k.rule]]
               ELSE _absorb_alarm(k, @)]
          /\ links' = links \cup { <<i, b>> }
    BY <1>4, Zenon DEF IngestCommit
  <2>2. b \in Alarms /\ i \in Incidents
    BY <2>0 DEF FreeAlarms, FreeIncidents, Works, Alarms, Incidents, Live
  <2>3. /\ k.rule \in Rules \cup {NoRule} /\ k.last \in Times /\ k.count \in Nat
        /\ k.time \in Times /\ k.rule \in Rules => Severity[k.rule] \in 0 .. 4
    BY <2>0 DEF Works
  <2>4. /\ worker' = [worker EXCEPT ![w] = NoWork]
        /\ stored' = [stored EXCEPT ![k.time] = k.rule]
        /\ command' = command
    BY <1>4, Zenon DEF IngestCommit
  <2>5. worker' \in [Workers -> Works]
    BY <2>4, NothingTyped
  <2>6. k.rule \in Rules
    BY <2>0 DEF WorkInv
  <2>7. stored' \in [Times -> Rules \cup { "NONE", "CONTAINED" }]
    BY <2>3, <2>4, <2>6
  <2>8. alarm'[b] \in AlarmRows
    <3>1. alarm[b] \in AlarmRows /\ 1 \in Nat
      BY <2>2
    <3>2. CASE k.alarm = 0
      <4>1. alarm'[b] = [rule |-> k.rule, status |-> "ACTIVE", count |-> 1, last |-> k.last]
        BY <2>1, <2>2, <3>2
      <4> QED BY <2>3, <3>1, <4>1 DEF AlarmRows
    <3>3. CASE k.alarm # 0
      <4>1. alarm'[b] = written_breach(k, alarm[b])
        BY <2>1, <2>2, <3>3
      <4>2. ASSUME NEW row \in AlarmRows
            PROVE  written_breach(k, row) \in AlarmRows
        BY <2>3 DEF AlarmRows, written_breach
      <4> QED BY <3>1, <4>1, <4>2
    <3> QED BY <3>2, <3>3
  <2>9. alarm' \in [Alarms -> AlarmRows]
    BY <2>1, <2>8
  <2>10. incident'[i] \in [last : Times, severity : -1 .. 4]
    <3>1. /\ incident[i] \in [last : Times, severity : -1 .. 4]
          /\ Severity[k.rule] \in -1 .. 4
      BY <2>2, <2>3, <2>6
    <3>2. CASE k.incident = 0
      <4>1. incident'[i] = [last |-> k.last, severity |-> Severity[k.rule]]
        BY <2>1, <2>2, <3>2
      <4> QED BY <2>3, <3>1, <4>1
    <3>3. CASE k.incident # 0
      <4>1. incident'[i] = _absorb_alarm(k, incident[i])
        BY <2>1, <2>2, <3>3
      <4>2. ASSUME NEW row \in [last : Times, severity : -1 .. 4]
            PROVE  _absorb_alarm(k, row) \in [last : Times, severity : -1 .. 4]
        BY <2>3, <3>1 DEF _absorb_alarm
      <4> QED BY <3>1, <4>1, <4>2
    <3> QED BY <3>2, <3>3
  <2>11. incident' \in [Incidents -> [last : Times, severity : -1 .. 4]]
    BY <2>1, <2>10
  <2>12. links' \subseteq Incidents \X Alarms
    BY <2>1, <2>2
  <2> QED BY <2>4, <2>5, <2>7, <2>9, <2>11, <2>12
<1>5. ASSUME NEW w \in Workers, IngestContained(w)
      PROVE  TypeOK'
  <2>1. worker' = [worker EXCEPT ![w] = NoWork] /\ NoWork \in Works /\ worker[w].time \in Times
    BY <1>5, NothingTyped DEF IngestContained, Works
  <2>2. worker' \in [Workers -> Works]
    BY <2>1
  <2> QED BY <1>5, <2>1, <2>2 DEF IngestContained
<1>6. ASSUME NEW w \in Workers, IngestLost(w)
      PROVE  TypeOK'
  <2>1. worker' = [worker EXCEPT ![w] = NoWork] /\ NoWork \in Works
    BY <1>6, NothingTyped DEF IngestLost
  <2>2. worker' \in [Workers -> Works]
    BY <2>1
  <2> QED BY <1>6, <2>2 DEF IngestLost
<1>7. ASSUME NEW o \in Operators, NEW a \in Alarms,
                 NEW target \in { "ACKNOWLEDGED", "CLEARED" }, CommandRead(o, a, target)
      PROVE  TypeOK'
  <2>1. [pc |-> "checked", alarm |-> a, target |-> target] \in Commands
    BY DEF Commands, Alarms
  <2>2. command' \in [Operators -> Commands]
    BY <1>7, <2>1 DEF CommandRead
  <2> QED BY <1>7, <2>2 DEF CommandRead
<1>8. ASSUME NEW o \in Operators, CommandCommit(o)
      PROVE  TypeOK'
  <2>1. command' \in [Operators -> Commands]
    BY <1>8, NothingTyped DEF CommandCommit
  <2>2. command[o].target \in { "ACKNOWLEDGED", "CLEARED", "NONE" }
    BY DEF Commands
  <2>3. ASSUME NEW row \in AlarmRows, NEW s \in { "ACKNOWLEDGED", "CLEARED", "NONE" }
        PROVE  [row EXCEPT !.status = s] \in AlarmRows
    BY DEF AlarmRows
  <2>4. alarm' \in [Alarms -> AlarmRows]
    BY <1>8, <2>2, <2>3 DEF CommandCommit
  <2> QED BY <1>8, <2>1, <2>4 DEF CommandCommit
<1>9. ASSUME NEW o \in Operators, CommandLost(o)
      PROVE  TypeOK'
  <2>1. command' \in [Operators -> Commands]
    BY <1>9, NothingTyped DEF CommandLost
  <2> QED BY <1>9, <2>1 DEF CommandLost
<1>10. CASE UNCHANGED vars
  BY <1>10 DEF vars
<1> HIDE DEF TypeOK
<1> QED BY <1>1, <1>2, <1>3, <1>4, <1>5, <1>6, <1>7, <1>8, <1>9, <1>10 DEF Next

\* Incidents stay live, so the one a transaction has found does.
LEMMA WorkStep ==
  ASSUME TypeOK, WorkInv, [Next]_vars
  PROVE  WorkInv'
PROOF
<1> USE BoundsAssumption, SeverityAssumption DEF TypeOK, Works, WorkInv, NoWork, Live
<1>1. ASSUME NEW w \in Workers, NEW tm \in Times, NEW rl \in Rules, IngestRead(w, tm, rl)
      PROVE  WorkInv'
  <2>1. PICK x \in Works : Becomes(w, x) /\ x.pc = "read" /\ x.rule = rl
    BY <1>1, ReadShape
  <2> QED BY <2>1 DEF Becomes
<1>2. ASSUME NEW w \in Workers, IngestUpdate(w)
      PROVE  WorkInv'
  <2>1. PICK x \in Works : 
          /\ Becomes(w, x) /\ worker[w].pc = "read"
          /\ x.pc = "alarm" /\ x.alarm # 0 /\ x.rule = worker[w].rule
          /\ x.incident # 0 => x.incident \in Live
    BY <1>2, UpdateShape DEF Attached
  <2> QED BY <2>1 DEF Becomes
<1>3. ASSUME NEW w \in Workers, IngestInsert(w)
      PROVE  WorkInv'
  <2>1. PICK x \in Works : 
          /\ Becomes(w, x) /\ worker[w].pc = "read" /\ x.rule = worker[w].rule
          /\ \/ x.pc = "read"
             \/ /\ x.pc = "alarm" /\ x.alarm = 0
                /\ x.incident # 0 => x.incident \in Live
                /\ find_open(x.rule) = {}
                /\ \A v \in Workers : ~Holds(v, 0, x.rule)
    BY <1>3, InsertShape DEF Attached
  <2> QED BY <2>1 DEF Becomes
<1>4. ASSUME NEW w \in Workers, IngestCommit(w)
      PROVE  WorkInv'
  BY <1>4 DEF IngestCommit, FreeAlarms, FreeIncidents, written_breach, _absorb_alarm, Live
<1>5. ASSUME NEW w \in Workers, IngestContained(w)
      PROVE  WorkInv'
  BY <1>5 DEF IngestContained
<1>6. ASSUME NEW w \in Workers, IngestLost(w)
      PROVE  WorkInv'
  BY <1>6 DEF IngestLost
<1>7. ASSUME NEW o \in Operators, NEW a \in Alarms,
                 NEW target \in { "ACKNOWLEDGED", "CLEARED" }, CommandRead(o, a, target)
      PROVE  WorkInv'
  BY <1>7 DEF CommandRead, ALARM_TRANSITIONS
<1>8. ASSUME NEW o \in Operators, CommandCommit(o)
      PROVE  WorkInv'
  BY <1>8 DEF CommandCommit
<1>9. ASSUME NEW o \in Operators, CommandLost(o)
      PROVE  WorkInv'
  BY <1>9 DEF CommandLost
<1>10. CASE UNCHANGED vars
  BY <1>10 DEF vars
<1> HIDE DEF TypeOK, Works, WorkInv, NoWork, Live
<1> QED BY <1>1, <1>2, <1>3, <1>4, <1>5, <1>6, <1>7, <1>8, <1>9, <1>10 DEF Next

\* An instance that is there stays.
LEMMA CommandStep ==
  ASSUME TypeOK, CommandInv, [Next]_vars
  PROVE  CommandInv'
PROOF
<1> USE BoundsAssumption DEF TypeOK, AlarmRows, Commands, CommandInv, NoCommand, Alarms
<1>1. ASSUME NEW w \in Workers, NEW tm \in Times, NEW rl \in Rules, IngestRead(w, tm, rl)
      PROVE  CommandInv'
  BY <1>1 DEF IngestRead, insert_once
<1>2. ASSUME NEW w \in Workers, IngestUpdate(w)
      PROVE  CommandInv'
  BY <1>2 DEF IngestUpdate, Correlate, _apply_breach, Later, find_open_for_device, Live
<1>3. ASSUME NEW w \in Workers, IngestInsert(w)
      PROVE  CommandInv'
  BY <1>3 DEF IngestInsert, Correlate, find_open_for_device, Live
<1>4. ASSUME NEW w \in Workers, IngestCommit(w)
      PROVE  CommandInv'
  BY <1>4 DEF IngestCommit, FreeAlarms, FreeIncidents, written_breach, _absorb_alarm, Live
<1>5. ASSUME NEW w \in Workers, IngestContained(w)
      PROVE  CommandInv'
  BY <1>5 DEF IngestContained
<1>6. ASSUME NEW w \in Workers, IngestLost(w)
      PROVE  CommandInv'
  BY <1>6 DEF IngestLost
<1>7. ASSUME NEW o \in Operators, NEW a \in Alarms,
                 NEW target \in { "ACKNOWLEDGED", "CLEARED" }, CommandRead(o, a, target)
      PROVE  CommandInv'
  BY <1>7 DEF CommandRead, ALARM_TRANSITIONS
<1>8. ASSUME NEW o \in Operators, CommandCommit(o)
      PROVE  CommandInv'
  BY <1>8 DEF CommandCommit
<1>9. ASSUME NEW o \in Operators, CommandLost(o)
      PROVE  CommandInv'
  BY <1>9 DEF CommandLost
<1>10. CASE UNCHANGED vars
  BY <1>10 DEF vars
<1> HIDE DEF TypeOK, AlarmRows, Commands, CommandInv, NoCommand, Alarms
<1> QED BY <1>1, <1>2, <1>3, <1>4, <1>5, <1>6, <1>7, <1>8, <1>9, <1>10 DEF Next

\* The unique index serializes inserts of a rule, and refuses to take an instance back
\* while one is being inserted.
LEMMA InsertStep ==
  ASSUME TypeOK, OpenInv, [Next]_vars
  PROVE  InsertInv'
PROOF
<1> USE NoRuleAssumption, BoundsAssumption DEF TypeOK, AlarmRows, Works, OpenInv, WorkInv, InsertInv, find_open, OPEN_ALARM_STATUSES, Holds, NoWork
<1>1. ASSUME NEW w \in Workers, NEW tm \in Times, NEW rl \in Rules, IngestRead(w, tm, rl)
      PROVE  InsertInv'
  <2>1. PICK x \in Works : Becomes(w, x) /\ x.pc = "read" /\ x.rule = rl
    BY <1>1, ReadShape
  <2> QED BY <2>1 DEF Becomes
<1>2. ASSUME NEW w \in Workers, IngestUpdate(w)
      PROVE  InsertInv'
  <2>1. PICK x \in Works : 
          /\ Becomes(w, x) /\ worker[w].pc = "read"
          /\ x.pc = "alarm" /\ x.alarm # 0 /\ x.rule = worker[w].rule
          /\ x.incident # 0 => x.incident \in Live
    BY <1>2, UpdateShape DEF Attached
  <2> QED BY <2>1 DEF Becomes
<1>3. ASSUME NEW w \in Workers, IngestInsert(w)
      PROVE  InsertInv'
  <2>1. PICK x \in Works : 
          /\ Becomes(w, x) /\ worker[w].pc = "read" /\ x.rule = worker[w].rule
          /\ \/ x.pc = "read"
             \/ /\ x.pc = "alarm" /\ x.alarm = 0
                /\ x.incident # 0 => x.incident \in Live
                /\ find_open(x.rule) = {}
                /\ \A v \in Workers : ~Holds(v, 0, x.rule)
    BY <1>3, InsertShape DEF Attached
  <2> QED BY <2>1 DEF Becomes
<1>4. ASSUME NEW w \in Workers, IngestCommit(w)
      PROVE  InsertInv'
  BY <1>4 DEF IngestCommit, FreeAlarms, FreeIncidents, written_breach, _absorb_alarm, Live
<1>5. ASSUME NEW w \in Workers, IngestContained(w)
      PROVE  InsertInv'
  BY <1>5 DEF IngestContained
<1>6. ASSUME NEW w \in Workers, IngestLost(w)
      PROVE  InsertInv'
  BY <1>6 DEF IngestLost
<1>7. ASSUME NEW o \in Operators, NEW a \in Alarms,
                 NEW target \in { "ACKNOWLEDGED", "CLEARED" }, CommandRead(o, a, target)
      PROVE  InsertInv'
  BY <1>7 DEF CommandRead, ALARM_TRANSITIONS
<1>8. ASSUME NEW o \in Operators, CommandCommit(o)
      PROVE  InsertInv'
  <2> DEFINE k == command[o]
  <2>1. /\ k.pc = "checked" /\ worker' = worker
        /\ alarm' = [alarm EXCEPT ![k.alarm].status = k.target]
        /\ k.target # "CLEARED" => \/ alarm[k.alarm].status # "CLEARED"
                                   \/ \A v \in Workers : ~Holds(v, 0, alarm[k.alarm].rule)
    BY <1>8 DEF CommandCommit
  <2>2. k.alarm \in Alarms /\ alarm[k.alarm].status # "NONE"
    BY <2>1 DEF CommandInv
  <2>3. SUFFICES ASSUME NEW w \in Workers, worker[w].pc = "alarm", worker[w].alarm = 0,
                        NEW b \in Alarms, b \in find_open(worker[w].rule)'
                 PROVE  FALSE
    BY <2>1
  <2>4. b \notin find_open(worker[w].rule) /\ Holds(w, 0, worker[w].rule)
    BY <2>3
  <2>5. b = k.alarm /\ alarm[b].rule = worker[w].rule
    BY <2>1, <2>2, <2>3, <2>4
  <2> QED BY <2>1, <2>2, <2>3, <2>4, <2>5
<1>9. ASSUME NEW o \in Operators, CommandLost(o)
      PROVE  InsertInv'
  BY <1>9 DEF CommandLost
<1>10. CASE UNCHANGED vars
  BY <1>10 DEF vars
<1> HIDE DEF TypeOK, AlarmRows, Works, OpenInv, WorkInv, InsertInv, find_open, OPEN_ALARM_STATUSES, Holds, NoWork
<1> QED BY <1>1, <1>2, <1>3, <1>4, <1>5, <1>6, <1>7, <1>8, <1>9, <1>10 DEF Next

\* An instance is opened only where the rule has no other.
LEMMA OneOpenStep ==
  ASSUME TypeOK, OpenInv, [Next]_vars
  PROVE  OneOpenPerRule'
PROOF
<1> USE NoRuleAssumption, BoundsAssumption DEF TypeOK, AlarmRows, Works, OpenInv, WorkInv, CommandInv, InsertInv, OneOpenPerRule, find_open, OPEN_ALARM_STATUSES
<1>1. ASSUME NEW w \in Workers, NEW tm \in Times, NEW rl \in Rules, IngestRead(w, tm, rl)
      PROVE  OneOpenPerRule'
  <2>1. PICK x \in Works : Becomes(w, x) /\ x.pc = "read" /\ x.rule = rl
    BY <1>1, ReadShape
  <2> QED BY <2>1 DEF Becomes
<1>2. ASSUME NEW w \in Workers, IngestUpdate(w)
      PROVE  OneOpenPerRule'
  <2>1. PICK x \in Works : 
          /\ Becomes(w, x) /\ worker[w].pc = "read"
          /\ x.pc = "alarm" /\ x.alarm # 0 /\ x.rule = worker[w].rule
          /\ x.incident # 0 => x.incident \in Live
    BY <1>2, UpdateShape DEF Attached
  <2> QED BY <2>1 DEF Becomes
<1>3. ASSUME NEW w \in Workers, IngestInsert(w)
      PROVE  OneOpenPerRule'
  <2>1. PICK x \in Works : 
          /\ Becomes(w, x) /\ worker[w].pc = "read" /\ x.rule = worker[w].rule
          /\ \/ x.pc = "read"
             \/ /\ x.pc = "alarm" /\ x.alarm = 0
                /\ x.incident # 0 => x.incident \in Live
                /\ find_open(x.rule) = {}
                /\ \A v \in Workers : ~Holds(v, 0, x.rule)
    BY <1>3, InsertShape DEF Attached
  <2> QED BY <2>1 DEF Becomes
<1>4. ASSUME NEW w \in Workers, IngestCommit(w)
      PROVE  OneOpenPerRule'
  BY <1>4 DEF IngestCommit, FreeAlarms, FreeIncidents, written_breach, _absorb_alarm, Live
<1>5. ASSUME NEW w \in Workers, IngestContained(w)
      PROVE  OneOpenPerRule'
  BY <1>5 DEF IngestContained
<1>6. ASSUME NEW w \in Workers, IngestLost(w)
      PROVE  OneOpenPerRule'
  BY <1>6 DEF IngestLost
<1>7. ASSUME NEW o \in Operators, NEW a \in Alarms,
                 NEW target \in { "ACKNOWLEDGED", "CLEARED" }, CommandRead(o, a, target)
      PROVE  OneOpenPerRule'
  BY <1>7 DEF CommandRead, ALARM_TRANSITIONS
<1>8. ASSUME NEW o \in Operators, CommandCommit(o)
      PROVE  OneOpenPerRule'
  BY <1>8 DEF CommandCommit
<1>9. ASSUME NEW o \in Operators, CommandLost(o)
      PROVE  OneOpenPerRule'
  BY <1>9 DEF CommandLost
<1>10. CASE UNCHANGED vars
  BY <1>10 DEF vars
<1> HIDE DEF TypeOK, AlarmRows, Works, OpenInv, WorkInv, CommandInv, InsertInv, OneOpenPerRule, find_open, OPEN_ALARM_STATUSES
<1> QED BY <1>1, <1>2, <1>3, <1>4, <1>5, <1>6, <1>7, <1>8, <1>9, <1>10 DEF Next

\* An instance and its link are committed together, and links stay.
LEMMA LinkedStep ==
  ASSUME TypeOK, OpenInv, AlarmsAreLinked, [Next]_vars
  PROVE  AlarmsAreLinked'
PROOF
<1> USE SeverityAssumption, BoundsAssumption DEF TypeOK, AlarmRows, OpenInv, WorkInv, CommandInv, AlarmsAreLinked, Live
<1>1. ASSUME NEW w \in Workers, NEW tm \in Times, NEW rl \in Rules, IngestRead(w, tm, rl)
      PROVE  AlarmsAreLinked'
  BY <1>1 DEF IngestRead, insert_once
<1>2. ASSUME NEW w \in Workers, IngestUpdate(w)
      PROVE  AlarmsAreLinked'
  BY <1>2 DEF IngestUpdate, Correlate, _apply_breach, Later, find_open_for_device, Live
<1>3. ASSUME NEW w \in Workers, IngestInsert(w)
      PROVE  AlarmsAreLinked'
  BY <1>3 DEF IngestInsert, Correlate, find_open_for_device, Live
<1>4. ASSUME NEW w \in Workers, IngestCommit(w)
      PROVE  AlarmsAreLinked'
  <2> DEFINE k == worker[w]
  <2>0. k \in Works /\ k.pc = "alarm"
    BY <1>4 DEF IngestCommit
  <2>1. PICK b \in IF k.alarm = 0 THEN FreeAlarms ELSE {k.alarm},
             i \in IF k.incident = 0 THEN FreeIncidents ELSE {k.incident} :
          /\ alarm' = [alarm EXCEPT ![b] =
               IF k.alarm = 0
               THEN [rule |-> k.rule, status |-> "ACTIVE", count |-> 1, last |-> k.last]
               ELSE written_breach(k, @)]
          /\ incident' = [incident EXCEPT ![i] =
               IF k.incident = 0 THEN [last |-> k.last, severity |-> Severity[k.rule]]
               ELSE _absorb_alarm(k, @)]
          /\ links' = links \cup { <<i, b>> }
    BY <1>4, Zenon DEF IngestCommit
  <2>2. b \in Alarms /\ i \in Incidents
    BY <2>0 DEF FreeAlarms, FreeIncidents, Works, Alarms, Incidents, Live
  <2>3. k.rule \in Rules /\ Severity[k.rule] \in 0 .. 4
    BY <2>0
  <2>4. k.incident # 0 => k.incident \in Live
    BY <2>0
  <2>5. Live' = Live \cup {i}
    <3>1. \A j \in Incidents : j # i => incident'[j] = incident[j]
      BY <2>1
    <3>2. incident'[i].severity # -1
      BY <2>1, <2>2, <2>3, <2>4 DEF _absorb_alarm, FreeIncidents
    <3> QED BY <2>2, <3>1, <3>2
  <2>6. ASSUME NEW c \in Alarms, alarm'[c].status # "NONE"
        PROVE  \E j \in Live' : <<j, c>> \in links'
    <3>1. CASE c = b /\ k.alarm = 0
      BY <2>1, <2>5, <3>1
    <3>2. CASE ~(c = b /\ k.alarm = 0)
      <4>1. alarm[c].status # "NONE"
        BY <2>1, <2>2, <2>6, <3>2 DEF FreeAlarms, written_breach
      <4> QED BY <2>1, <2>5, <4>1
    <3> QED BY <3>1, <3>2
  <2> QED BY <2>6
<1>5. ASSUME NEW w \in Workers, IngestContained(w)
      PROVE  AlarmsAreLinked'
  BY <1>5 DEF IngestContained
<1>6. ASSUME NEW w \in Workers, IngestLost(w)
      PROVE  AlarmsAreLinked'
  BY <1>6 DEF IngestLost
<1>7. ASSUME NEW o \in Operators, NEW a \in Alarms,
                 NEW target \in { "ACKNOWLEDGED", "CLEARED" }, CommandRead(o, a, target)
      PROVE  AlarmsAreLinked'
  BY <1>7 DEF CommandRead, ALARM_TRANSITIONS
<1>8. ASSUME NEW o \in Operators, CommandCommit(o)
      PROVE  AlarmsAreLinked'
  BY <1>8 DEF CommandCommit
<1>9. ASSUME NEW o \in Operators, CommandLost(o)
      PROVE  AlarmsAreLinked'
  BY <1>9 DEF CommandLost
<1>10. CASE UNCHANGED vars
  BY <1>10 DEF vars
<1> HIDE DEF TypeOK, AlarmRows, OpenInv, WorkInv, CommandInv, AlarmsAreLinked, Live
<1> QED BY <1>1, <1>2, <1>3, <1>4, <1>5, <1>6, <1>7, <1>8, <1>9, <1>10 DEF Next

\* The inductive invariant.
LEMMA Invariance == Spec => []AInv
PROOF
<1>1. Init => AInv
  <2> SUFFICES ASSUME Init PROVE AInv
    OBVIOUS
  <2>1. TypeOK
    BY BoundsAssumption
    DEF Init, TypeOK, NoAlarm, NoIncident, NoWork, NoCommand, AlarmRows, Works, Commands, Times
  <2>2. OpenInv
    BY DEF Init, OpenInv, WorkInv, CommandInv, InsertInv, OneOpenPerRule, find_open,
           OPEN_ALARM_STATUSES, NoAlarm, NoWork, NoCommand
  <2>3. AlarmsAreLinked
    BY DEF Init, AlarmsAreLinked, NoAlarm
  <2> QED BY <2>1, <2>2, <2>3 DEF AInv
<1>2. AInv /\ [Next]_vars => AInv'
  BY TypeStep, WorkStep, CommandStep, InsertStep, OneOpenStep, LinkedStep DEF AInv, OpenInv
<1> QED BY <1>1, <1>2, PTL DEF Spec

\* Types hold for any number of workers and samples; in particular no alarm and no
\* incident is active after the latest sample.
THEOREM TypeCorrect == Spec => []TypeOK
PROOF
<1>1. AInv => TypeOK
  BY DEF AInv
<1> QED BY <1>1, Invariance, PTL

\* A rule never has two open instances, however many workers insert and whatever
\* late acknowledgements take back (create_or_update_alarm, acknowledge_alarm).
THEOREM OpenInstanceIsUnique == Spec => []OneOpenPerRule
PROOF
<1>1. AInv => OneOpenPerRule
  BY DEF AInv, OpenInv
<1> QED BY <1>1, Invariance, PTL

\* No alarm is left without an incident, whatever is contained, lost or raced
\* (_apply_alarm_rules, attach_alarm_to_incident).
THEOREM AlarmsBelongToIncidents == Spec => []AlarmsAreLinked
PROOF
<1>1. AInv => AlarmsAreLinked
  BY DEF AInv
<1> QED BY <1>1, Invariance, PTL
\* Both together, as the run checks them: whatever ingestions, retries and operator
\* commands do, a rule has one open instance and no alarm is outside an incident.
THEOREM OpenAlarmsAreLinked == Spec => []OpenAndLinked
PROOF
<1>1. OneOpenPerRule /\ AlarmsAreLinked => OpenAndLinked
  BY DEF OpenAndLinked
<1> QED BY <1>1, OpenInstanceIsUnique, AlarmsBelongToIncidents, PTL

-----------------------------------------------------------------------------
(* Counting                                                                 *)

\* Of two deliveries of a sample one is in flight, and only while the sample is not stored.
TimeInv ==
  \A w \in Workers : worker[w].pc # "idle" =>
    /\ stored[worker[w].time] = "NONE"
    /\ \A v \in Workers : worker[v].pc # "idle" /\ worker[v].time = worker[w].time => v = w

\* The instance a transaction has found is there and is of its rule.
Refers(x) ==
  x.alarm # 0 => /\ x.alarm \in Alarms
                 /\ alarm[x.alarm].rule = x.rule /\ alarm[x.alarm].status # "NONE"

\* Transactions and links refer to instances that are there; those have a rule, and the
\* others have counted nothing.
RefInv ==
  /\ \A w \in Workers : worker[w].pc # "idle" => Refers(worker[w])
  /\ \A link \in links : alarm[link[2]].status # "NONE"
  /\ \A a \in Alarms : IF alarm[a].status = "NONE" THEN alarm[a].count = 0
                                                  ELSE alarm[a].rule \in Rules

\* The count a transaction has read.
Reading(x) == IF x.pc = "alarm" THEN x.count - 1 ELSE x.count

\* h takes every stored breach to an occurrence; each of the first c occurrences of the
\* instance is taken from a stored breach of its rule.
Numbered(h, a, c) ==
  \A n \in 1 .. c : \E t \in Times : stored[t] = alarm[a].rule /\ h[t] = <<a, n>>

\* What is counted, and what a transaction has read as counted, comes from stored breaches.
Covers(h) ==
  /\ h \in [Times -> (0 .. MaxAlarms) \X Nat]
  /\ \A a \in Alarms : Numbered(h, a, alarm[a].count)
  /\ \A w \in Workers : worker[w].pc # "idle" /\ worker[w].alarm # 0 =>
       Numbered(h, worker[w].alarm, Reading(worker[w]))

\* Every stored breach is counted, and no two of them as the same occurrence.
Exact(h) ==
  /\ \A t \in Times : stored[t] \in Rules => h[t] \in Counted(stored[t])
  /\ \A s, t \in Times : stored[s] \in Rules /\ stored[t] = stored[s] /\ h[s] = h[t] => s = t

CountInv == \E h \in [Times -> (0 .. MaxAlarms) \X Nat] : Covers(h) /\ (serial => Exact(h))

\* When samples are ingested one after the other, what a transaction has read is what is
\* stored.
Current(x) ==
  x.pc # "idle" =>
    /\ x.alarm # 0 => /\ Reading(x) = alarm[x.alarm].count
                      /\ x.pc = "read" => x.last = alarm[x.alarm].last
                      /\ x.pc = "alarm" => x.last >= alarm[x.alarm].last
    /\ x.pc = "alarm" /\ x.incident # 0 =>
         /\ x.ilast = incident[x.incident].last
         /\ x.iseverity = incident[x.incident].severity

OrderInv == OneAtATime /\ SeverityCovers /\ \A w \in Workers : Current(worker[w])

\* A commit writes one instance, one incident and the link between them.
Commits(w, b, i) ==
  LET k == worker[w] IN
  /\ \A a \in Alarms \ {b} : alarm'[a] = alarm[a]
  /\ \A j \in Incidents \ {i} : incident'[j] = incident[j]
  /\ alarm'[b].rule = k.rule /\ alarm'[b].status # "NONE"
  /\ IF k.alarm = 0
     THEN alarm[b].status = "NONE" /\ alarm'[b].count = 1
     ELSE /\ b = k.alarm /\ alarm'[b].count = k.count
          /\ alarm'[b].last = IF k.last = k.time THEN k.last ELSE alarm[b].last
  /\ IF k.incident = 0
     THEN i \notin Live /\ incident'[i].severity = Severity[k.rule]
     ELSE /\ i = k.incident
          /\ incident'[i].last = IF k.last > k.ilast THEN k.last ELSE incident[i].last
          /\ incident'[i].severity = IF Severity[k.rule] > k.iseverity THEN Severity[k.rule]
                                     ELSE incident[i].severity
  /\ links' = links \cup { <<i, b>> }
  /\ stored' = [stored EXCEPT ![k.time] = k.rule]
  /\ worker' = [worker EXCEPT ![w] = NoWork]

LEMMA CommitShape ==
  ASSUME TypeOK, WorkInv, RefInv, NEW w \in Workers, IngestCommit(w)
  PROVE  /\ worker[w].pc = "alarm" /\ worker[w].rule \in Rules
         /\ \E b \in Alarms, i \in Incidents : Commits(w, b, i)
PROOF
<1> DEFINE k == worker[w]
<1>0. /\ k \in Works /\ k.pc = "alarm" /\ k.rule \in Rules /\ Refers(k)
      /\ alarm \in [Alarms -> AlarmRows]
      /\ incident \in [Incidents -> [last : Times, severity : -1 .. 4]]
  BY DEF IngestCommit, TypeOK, WorkInv, RefInv
<1>1. PICK b \in IF k.alarm = 0 THEN FreeAlarms ELSE {k.alarm},
           i \in IF k.incident = 0 THEN FreeIncidents ELSE {k.incident} :
        /\ alarm' = [alarm EXCEPT ![b] =
             IF k.alarm = 0
             THEN [rule |-> k.rule, status |-> "ACTIVE", count |-> 1, last |-> k.last]
             ELSE written_breach(k, @)]
        /\ incident' = [incident EXCEPT ![i] =
             IF k.incident = 0 THEN [last |-> k.last, severity |-> Severity[k.rule]]
             ELSE _absorb_alarm(k, @)]
        /\ links' = links \cup { <<i, b>> }
  BY Zenon DEF IngestCommit
<1>2. /\ stored' = [stored EXCEPT ![k.time] = k.rule]
      /\ worker' = [worker EXCEPT ![w] = NoWork]
  BY Zenon DEF IngestCommit
<1>3. b \in Alarms /\ i \in Incidents /\ (k.incident = 0 => i \notin Live)
      /\ (k.incident # 0 => i = k.incident) /\ (k.alarm # 0 => b = k.alarm)
      /\ (k.alarm = 0 => alarm[b].status = "NONE")
  BY <1>0, <1>1, BoundsAssumption DEF FreeAlarms, FreeIncidents, Works, Alarms, Incidents
<1>4. /\ \A a \in Alarms \ {b} : alarm'[a] = alarm[a]
      /\ \A j \in Incidents \ {i} : incident'[j] = incident[j]
  BY <1>0, <1>1
<1>5. /\ alarm'[b].rule = k.rule /\ alarm'[b].status # "NONE"
      /\ k.alarm = 0 => alarm'[b].count = 1
      /\ k.alarm # 0 => /\ alarm'[b].count = k.count
                        /\ alarm'[b].last = IF k.last = k.time THEN k.last ELSE alarm[b].last
  <2>1. CASE k.alarm = 0
    <3>1. alarm'[b] = [rule |-> k.rule, status |-> "ACTIVE", count |-> 1, last |-> k.last]
      BY <1>0, <1>1, <1>3, <2>1
    <3> QED BY <2>1, <3>1
  <2>2. CASE k.alarm # 0
    <3>1. alarm'[b] = written_breach(k, alarm[b])
      BY <1>0, <1>1, <1>3, <2>2
    <3>2. alarm[b] \in AlarmRows /\ alarm[b].rule = k.rule /\ alarm[b].status # "NONE"
      BY <1>0, <1>3, <2>2 DEF Refers
    <3> QED BY <2>2, <3>1, <3>2 DEF written_breach, AlarmRows
  <2> QED BY <2>1, <2>2
<1>6. /\ k.incident = 0 => incident'[i].severity = Severity[k.rule]
      /\ k.incident # 0 =>
           /\ incident'[i].last = IF k.last > k.ilast THEN k.last ELSE incident[i].last
           /\ incident'[i].severity = IF Severity[k.rule] > k.iseverity THEN Severity[k.rule]
                                      ELSE incident[i].severity
  <2>1. CASE k.incident = 0
    <3>1. incident'[i] = [last |-> k.last, severity |-> Severity[k.rule]]
      BY <1>0, <1>1, <1>3, <2>1
    <3> QED BY <2>1, <3>1
  <2>2. CASE k.incident # 0
    <3>1. incident'[i] = _absorb_alarm(k, incident[i])
      BY <1>0, <1>1, <1>3, <2>2
    <3>2. incident[i] \in [last : Times, severity : -1 .. 4]
      BY <1>0, <1>3
    <3> QED BY <2>2, <3>1, <3>2 DEF _absorb_alarm
  <2> QED BY <2>1, <2>2
<1>7. Commits(w, b, i)
  BY <1>1, <1>2, <1>3, <1>4, <1>5, <1>6 DEF Commits
<1> QED BY <1>0, <1>3, <1>7

\* The steps of a worker, as what they do to its record and to the tables.
WorkerStep(w) ==
  \/ \E x \in Works : /\ Becomes(w, x) /\ x.pc = "read" /\ x.rule \in Rules /\ Found(x)
                      /\ \/ worker[w].pc = "idle" /\ insert_once(w, x.time)
                         \/ worker[w].pc # "idle" /\ x.time = worker[w].time
  \/ \E x \in Works : /\ Becomes(w, x) /\ worker[w].pc = "read" /\ x.pc = "alarm"
                      /\ x.rule = worker[w].rule /\ x.time = worker[w].time /\ Attached(x)
                      /\ x.alarm # 0 =>
                           /\ x.alarm = worker[w].alarm /\ x.count = worker[w].count + 1
                           /\ x.last = Later(worker[w].time, worker[w].last)
  \/ /\ worker[w].pc = "alarm" /\ worker[w].rule \in Rules
     /\ \E b \in Alarms, i \in Incidents : Commits(w, b, i)
  \/ /\ worker[w].pc # "idle"
     /\ worker' = [worker EXCEPT ![w] = NoWork]
     /\ stored' \in { stored, [stored EXCEPT ![worker[w].time] = "CONTAINED"] }
     /\ UNCHANGED << alarm, incident, links >>

\* The steps of operators: a status is written, or nothing.
OperatorStep ==
  /\ UNCHANGED << stored, incident, links, worker >>
  /\ \A a \in Alarms : /\ alarm'[a].rule = alarm[a].rule /\ alarm'[a].count = alarm[a].count
                       /\ alarm'[a].last = alarm[a].last
                       /\ alarm'[a].status = "NONE" <=> alarm[a].status = "NONE"

LEMMA StepShape ==
  ASSUME TypeOK, OpenInv, RefInv, [Next]_vars
  PROVE  OperatorStep \/ \E w \in Workers : WorkerStep(w)
PROOF
<1>1. ASSUME NEW w \in Workers, NEW t \in Times, NEW r \in Rules, IngestRead(w, t, r)
      PROVE  WorkerStep(w)
  <2>1. PICK x \in Works : Becomes(w, x) /\ x.pc = "read" /\ x.rule = r /\ x.time = t /\ Found(x)
    BY <1>1, ReadShape
  <2>2. worker[w].pc = "idle" /\ insert_once(w, x.time)
    BY <1>1, <2>1, Zenon DEF IngestRead
  <2>3. x.rule \in Rules
    BY <2>1
  <2> QED BY <2>1, <2>2, <2>3, Zenon DEF WorkerStep
<1>2. ASSUME NEW w \in Workers, IngestUpdate(w)
      PROVE  WorkerStep(w)
  <2>1. PICK x \in Works :
          /\ Becomes(w, x) /\ worker[w].pc = "read"
          /\ x.pc = "alarm" /\ x.rule = worker[w].rule
          /\ x.alarm = worker[w].alarm /\ x.alarm # 0
          /\ x.time = worker[w].time /\ x.count = worker[w].count + 1
          /\ x.last = _apply_breach(worker[w].time, worker[w].last)
          /\ Attached(x)
    BY <1>2, UpdateShape
  <2> QED BY <2>1, Zenon DEF WorkerStep, _apply_breach
<1>3. ASSUME NEW w \in Workers, IngestInsert(w)
      PROVE  WorkerStep(w)
  <2>1. PICK x \in Works :
          /\ Becomes(w, x) /\ worker[w].pc = "read" /\ x.rule = worker[w].rule
          /\ x.time = worker[w].time
          /\ \/ x.pc = "read" /\ Found(x)
             \/ x.pc = "alarm" /\ x.alarm = 0 /\ Attached(x)
    BY <1>3, InsertShape
  <2>2. worker[w].pc # "idle" /\ x.rule \in Rules
    BY <2>1 DEF OpenInv, WorkInv
  <2> QED BY <2>1, <2>2, Zenon DEF WorkerStep
<1>4. ASSUME NEW w \in Workers, IngestCommit(w)
      PROVE  WorkerStep(w)
  <2>1. /\ worker[w].pc = "alarm" /\ worker[w].rule \in Rules
        /\ \E b \in Alarms, i \in Incidents : Commits(w, b, i)
    BY <1>4, CommitShape DEF OpenInv
  <2> QED BY <2>1, Zenon DEF WorkerStep
<1>5. ASSUME NEW w \in Workers, IngestContained(w) \/ IngestLost(w)
      PROVE  WorkerStep(w)
  <2>1. /\ worker[w].pc # "idle"
        /\ worker' = [worker EXCEPT ![w] = NoWork]
        /\ stored' \in { stored, [stored EXCEPT ![worker[w].time] = "CONTAINED"] }
        /\ UNCHANGED << alarm, incident, links >>
    BY <1>5 DEF IngestContained, IngestLost
  <2> QED BY <2>1, Zenon DEF WorkerStep
<1>6. ASSUME NEW o \in Operators, CommandCommit(o)
      PROVE  OperatorStep
  <2>1. /\ UNCHANGED << stored, incident, links, worker >>
        /\ alarm' = [alarm EXCEPT ![command[o].alarm].status = command[o].target]
        /\ command[o].pc = "checked"
    BY <1>6, Zenon DEF CommandCommit
  <2>2. /\ command[o].target # "NONE" /\ command[o].alarm \in Alarms
        /\ alarm[command[o].alarm].status # "NONE"
    BY <2>1 DEF OpenInv, CommandInv
  <2> QED BY <2>1, <2>2 DEF OperatorStep, TypeOK, AlarmRows
<1>7. ASSUME UNCHANGED << stored, alarm, incident, links, worker >>
      PROVE  OperatorStep
  BY <1>7 DEF OperatorStep
<1>8. ASSUME NEW o \in Operators, NEW a \in Alarms, NEW target \in { "ACKNOWLEDGED", "CLEARED" },
             CommandRead(o, a, target)
      PROVE  OperatorStep
  BY <1>7, <1>8 DEF CommandRead
<1>9. ASSUME NEW o \in Operators, CommandLost(o)
      PROVE  OperatorStep
  BY <1>7, <1>9 DEF CommandLost
<1>10. CASE UNCHANGED vars
  BY <1>7, <1>10 DEF vars
<1> QED BY <1>1, <1>2, <1>3, <1>4, <1>5, <1>6, <1>8, <1>9, <1>10 DEF Next

\* A sample is in flight at most once, and only while it is not stored.
LEMMA TimeStep ==
  ASSUME TypeOK, TimeInv, OperatorStep \/ \E w \in Workers : WorkerStep(w)
  PROVE  TimeInv'
PROOF
<1>0. worker \in [Workers -> Works] /\ stored \in [Times -> Rules \cup { "NONE", "CONTAINED" }]
      /\ NoWork.pc = "idle"
  BY DEF TypeOK, NoWork
<1>1. CASE OperatorStep
  BY <1>1 DEF OperatorStep, TimeInv
<1>2. ASSUME NEW w \in Workers, WorkerStep(w)
      PROVE  TimeInv'
  \* The transaction goes on with its sample or takes up one that nobody has.
  <2>1. ASSUME NEW x \in Works, Becomes(w, x),
               \/ worker[w].pc = "idle" /\ insert_once(w, x.time)
               \/ worker[w].pc # "idle" /\ x.time = worker[w].time
        PROVE  TimeInv'
    BY <1>0, <2>1 DEF Becomes, TimeInv, insert_once
  \* The transaction ends, and what it stores is its own sample.
  <2>2. ASSUME worker[w].pc # "idle", worker' = [worker EXCEPT ![w] = NoWork],
               \A t \in Times \ { worker[w].time } : stored'[t] = stored[t]
        PROVE  TimeInv'
    BY <1>0, <2>2 DEF TimeInv, Works
  <2>3. CASE /\ worker[w].pc = "alarm" /\ worker[w].rule \in Rules
             /\ \E b \in Alarms, i \in Incidents : Commits(w, b, i)
    <3>1. /\ worker[w].pc # "idle" /\ worker' = [worker EXCEPT ![w] = NoWork]
          /\ stored' = [stored EXCEPT ![worker[w].time] = worker[w].rule]
      BY <2>3 DEF Commits
    <3> QED BY <1>0, <2>2, <3>1
  <2> QED BY <1>0, <1>2, <2>1, <2>2, <2>3 DEF WorkerStep
<1> QED BY <1>1, <1>2

\* Instances that are there stay, with their rule.
LEMMA RefStep ==
  ASSUME TypeOK, RefInv, OperatorStep \/ \E w \in Workers : WorkerStep(w)
  PROVE  RefInv'
PROOF
<1>0. worker \in [Workers -> Works] /\ NoWork.pc = "idle" /\ links \subseteq Incidents \X Alarms
  BY DEF TypeOK, NoWork
<1>1. CASE OperatorStep
  <2>1. ASSUME NEW v \in Workers, worker'[v].pc # "idle"
        PROVE  Refers(worker[v])'
    BY <1>1, <2>1 DEF OperatorStep, RefInv, Refers
  <2>2. \A link \in links' : alarm'[link[2]].status # "NONE"
    BY <1>0, <1>1 DEF OperatorStep, RefInv
  <2>3. \A a \in Alarms : IF alarm'[a].status = "NONE" THEN alarm'[a].count = 0
                                                       ELSE alarm'[a].rule \in Rules
    BY <1>1 DEF OperatorStep, RefInv
  <2> QED BY <2>1, <2>2, <2>3 DEF RefInv
<1>2. ASSUME NEW w \in Workers, WorkerStep(w)
      PROVE  RefInv'
  <2>1. ASSUME NEW x \in Works, Becomes(w, x), Refers(x)
        PROVE  RefInv'
    BY <1>0, <2>1 DEF Becomes, RefInv, Refers
  <2>2. CASE \E x \in Works : /\ Becomes(w, x) /\ x.pc = "read" /\ x.rule \in Rules /\ Found(x)
                              /\ \/ worker[w].pc = "idle" /\ insert_once(w, x.time)
                                 \/ worker[w].pc # "idle" /\ x.time = worker[w].time
    <3>1. PICK x \in Works : Becomes(w, x) /\ Found(x)
      BY <2>2
    <3> QED BY <2>1, <3>1 DEF Found, Refers
  <2>3. CASE \E x \in Works : /\ Becomes(w, x) /\ worker[w].pc = "read" /\ x.pc = "alarm"
                              /\ x.rule = worker[w].rule /\ x.time = worker[w].time /\ Attached(x)
                              /\ x.alarm # 0 =>
                                   /\ x.alarm = worker[w].alarm /\ x.count = worker[w].count + 1
                                   /\ x.last = Later(worker[w].time, worker[w].last)
    <3>1. PICK x \in Works : /\ Becomes(w, x) /\ worker[w].pc = "read" /\ x.rule = worker[w].rule
                             /\ x.alarm # 0 => x.alarm = worker[w].alarm
      BY <2>3
    <3> QED BY <2>1, <3>1 DEF Refers, RefInv
  <2>4. CASE /\ worker[w].pc = "alarm" /\ worker[w].rule \in Rules
             /\ \E b \in Alarms, i \in Incidents : Commits(w, b, i)
    <3>1. PICK b \in Alarms, i \in Incidents : Commits(w, b, i)
      BY <2>4
    <3>2. \A a \in Alarms : alarm[a].status # "NONE" =>
            alarm'[a].status # "NONE" /\ alarm'[a].rule = alarm[a].rule
      BY <2>4, <3>1 DEF Commits, RefInv, Refers
    <3>3. ASSUME NEW v \in Workers, worker'[v].pc # "idle"
          PROVE  Refers(worker[v])'
      <4>1. worker'[v] = worker[v] /\ worker[v].pc # "idle"
        BY <1>0, <3>1, <3>3 DEF Commits
      <4> QED BY <3>2, <4>1 DEF RefInv, Refers
    <3>4. ASSUME NEW link \in links'
          PROVE  alarm'[link[2]].status # "NONE"
      BY <1>0, <3>1, <3>2 DEF Commits, RefInv
    <3>5. ASSUME NEW a \in Alarms
          PROVE  IF alarm'[a].status = "NONE" THEN alarm'[a].count = 0
                                              ELSE alarm'[a].rule \in Rules
      BY <2>4, <3>1 DEF Commits, RefInv
    <3> QED BY <3>3, <3>4, <3>5 DEF RefInv
  <2>5. CASE /\ worker[w].pc # "idle"
             /\ worker' = [worker EXCEPT ![w] = NoWork]
             /\ stored' \in { stored, [stored EXCEPT ![worker[w].time] = "CONTAINED"] }
             /\ UNCHANGED << alarm, incident, links >>
    BY <1>0, <2>5 DEF RefInv, Refers
  <2> QED BY <1>2, <2>2, <2>3, <2>4, <2>5 DEF WorkerStep
<1> QED BY <1>1, <1>2

\* Samples that are ingested one after the other find what they have read when they commit.
LEMMA OrderStep ==
  ASSUME TypeOK, RefInv, OrderInv, OneAtATime',
         OperatorStep \/ \E w \in Workers : WorkerStep(w)
  PROVE  OrderInv'
PROOF
<1>0. /\ worker \in [Workers -> Works] /\ NoWork.pc = "idle" /\ links \subseteq Incidents \X Alarms
      /\ alarm \in [Alarms -> AlarmRows]
      /\ incident \in [Incidents -> [last : Times, severity : -1 .. 4]]
  BY DEF TypeOK, NoWork
<1>1. CASE OperatorStep
  <2>1. ASSUME NEW v \in Workers
        PROVE  Current(worker[v])'
    <3>1. /\ worker'[v] = worker[v] /\ incident' = incident /\ Current(worker[v])
          /\ worker[v].pc # "idle" /\ worker[v].alarm # 0 => worker[v].alarm \in Alarms
      BY <1>1 DEF OperatorStep, OrderInv, RefInv, Refers
    <3> QED BY <1>1, <3>1 DEF OperatorStep, Current, Reading
  <2>2. SeverityCovers'
    <3>1. \A link \in links : link[2] \in Alarms
      BY <1>0
    <3> QED BY <1>1, <3>1 DEF OperatorStep, OrderInv, SeverityCovers
  <2> QED BY <2>1, <2>2 DEF OrderInv
<1>2. ASSUME NEW w \in Workers, WorkerStep(w)
      PROVE  OrderInv'
  <2>1. ASSUME NEW x \in Works, Becomes(w, x), Current(x)
        PROVE  OrderInv'
    <3>1. \A v \in Workers : Current(worker[v])'
      BY <1>0, <2>1 DEF Becomes, OrderInv, Current, Reading
    <3>2. SeverityCovers'
      BY <2>1 DEF Becomes, OrderInv, SeverityCovers
    <3> QED BY <3>1, <3>2 DEF OrderInv
  <2>2. CASE \E x \in Works : /\ Becomes(w, x) /\ x.pc = "read" /\ x.rule \in Rules /\ Found(x)
                              /\ \/ worker[w].pc = "idle" /\ insert_once(w, x.time)
                                 \/ worker[w].pc # "idle" /\ x.time = worker[w].time
    <3>1. PICK x \in Works : Becomes(w, x) /\ x.pc = "read" /\ Found(x)
      BY <2>2
    <3> QED BY <2>1, <3>1 DEF Found, Current, Reading
  <2>3. CASE \E x \in Works : /\ Becomes(w, x) /\ worker[w].pc = "read" /\ x.pc = "alarm"
                              /\ x.rule = worker[w].rule /\ x.time = worker[w].time /\ Attached(x)
                              /\ x.alarm # 0 =>
                                   /\ x.alarm = worker[w].alarm /\ x.count = worker[w].count + 1
                                   /\ x.last = Later(worker[w].time, worker[w].last)
    <3>1. PICK x \in Works : /\ Becomes(w, x) /\ worker[w].pc = "read" /\ x.pc = "alarm"
                             /\ Attached(x)
                             /\ x.alarm # 0 =>
                                  /\ x.alarm = worker[w].alarm /\ x.count = worker[w].count + 1
                                  /\ x.last = Later(worker[w].time, worker[w].last)
      BY <2>3
    <3>2. Current(worker[w]) /\ worker[w] \in Works
      BY <1>0 DEF OrderInv
    <3>3. x.alarm # 0 => /\ x.count - 1 = alarm[x.alarm].count
                         /\ x.last >= alarm[x.alarm].last
      <4>1. /\ worker[w].count \in Nat /\ worker[w].last \in Int /\ worker[w].time \in Int
        BY <3>2, BoundsAssumption DEF Works, Times
      <4> QED BY <3>1, <3>2, <4>1 DEF Current, Reading, Later
    <3> QED BY <2>1, <3>1, <3>3 DEF Attached, Current, Reading
  <2>4. CASE /\ worker[w].pc = "alarm" /\ worker[w].rule \in Rules
             /\ \E b \in Alarms, i \in Incidents : Commits(w, b, i)
    <3>1. PICK b \in Alarms, i \in Incidents : Commits(w, b, i)
      BY <2>4
    <3> DEFINE k == worker[w]
    <3>2. \A v \in Workers : worker'[v].pc = "idle"
      <4>1. ASSUME NEW v \in Workers, v # w
            PROVE  worker[v] = NoWork
        BY <1>0, <2>4, <4>1 DEF OrderInv, OneAtATime
      <4> QED BY <1>0, <3>1, <4>1 DEF Commits
    <3>3. \A v \in Workers : Current(worker[v])'
      BY <3>2 DEF Current
    <3>4. /\ Current(k) /\ k \in Works /\ Severity[k.rule] \in 0 .. 4
          /\ incident[i].severity \in -1 .. 4
      BY <1>0, <2>4, SeverityAssumption DEF OrderInv
    <3>5. /\ incident'[i].severity >= incident[i].severity
          /\ incident'[i].severity >= Severity[k.rule]
      <4>1. CASE k.incident = 0
        BY <3>1, <3>4, <4>1 DEF Commits, Live
      <4>2. CASE k.incident # 0
        <5>1. i = k.incident /\ k.iseverity = incident[i].severity
              /\ incident'[i].severity = IF Severity[k.rule] > k.iseverity THEN Severity[k.rule]
                                         ELSE incident[i].severity
          BY <2>4, <3>1, <3>4, <4>2 DEF Commits, Current
        <5> QED BY <3>4, <5>1
      <4> QED BY <4>1, <4>2
    <3>6. ASSUME NEW link \in links'
          PROVE  incident'[link[1]].severity >= Severity[alarm'[link[2]].rule]
      <4>1. CASE link = <<i, b>>
        BY <3>1, <3>5, <4>1 DEF Commits
      <4>2. CASE link \in links
        <5>1. /\ link[1] \in Incidents /\ link[2] \in Alarms
              /\ alarm[link[2]].status # "NONE" /\ alarm[link[2]].rule \in Rules
              /\ incident[link[1]].severity >= Severity[alarm[link[2]].rule]
          BY <1>0, <4>2 DEF RefInv, OrderInv, SeverityCovers
        <5>2. alarm'[link[2]].rule = alarm[link[2]].rule
          BY <2>4, <3>1, <5>1 DEF Commits, RefInv, Refers
        <5>3. incident'[link[1]].severity >= incident[link[1]].severity
          <6>1. incident[link[1]].severity \in -1 .. 4
            BY <1>0, <5>1
          <6> QED BY <3>1, <3>5, <5>1, <6>1 DEF Commits
        <5>4. /\ Severity[alarm[link[2]].rule] \in Int /\ incident[link[1]].severity \in Int
              /\ incident'[link[1]].severity \in Int
          <6>1. incident'[i].severity \in Int
            <7>1. incident'[i].severity \in { Severity[k.rule], incident[i].severity }
              BY <3>1 DEF Commits
            <7> QED BY <3>4, <7>1
          <6>2. link[1] # i => incident'[link[1]] = incident[link[1]]
            BY <3>1, <5>1 DEF Commits
          <6>3. incident[link[1]].severity \in -1 .. 4 /\ Severity[alarm[link[2]].rule] \in 0 .. 4
            BY <1>0, <5>1, SeverityAssumption
          <6> QED BY <6>1, <6>2, <6>3
        <5> QED BY <5>1, <5>2, <5>3, <5>4
      <4> QED BY <3>1, <4>1, <4>2 DEF Commits
    <3>7. SeverityCovers'
      BY <3>6 DEF SeverityCovers
    <3> QED BY <3>3, <3>7 DEF OrderInv
  <2>5. CASE /\ worker[w].pc # "idle"
             /\ worker' = [worker EXCEPT ![w] = NoWork]
             /\ stored' \in { stored, [stored EXCEPT ![worker[w].time] = "CONTAINED"] }
             /\ UNCHANGED << alarm, incident, links >>
    <3>1. \A v \in Workers : Current(worker[v])'
      BY <1>0, <2>5 DEF OrderInv, Current, Reading
    <3>2. SeverityCovers'
      BY <2>5 DEF OrderInv, SeverityCovers
    <3> QED BY <3>1, <3>2 DEF OrderInv
  <2> QED BY <1>2, <2>2, <2>3, <2>4, <2>5 DEF WorkerStep
<1> QED BY <1>1, <1>2

\* The count of an instance goes up by one with each breach that is stored for it, or not at
\* all: what a transaction writes is one more than it has read, and that has been counted.
LEMMA CountStep ==
  ASSUME TypeOK, TypeOK', WorkInv, TimeInv, RefInv, CountInv, serial => OrderInv, serial' = serial,
         OperatorStep \/ \E w \in Workers : WorkerStep(w)
  PROVE  CountInv'
PROOF
<1>0. /\ worker \in [Workers -> Works] /\ NoWork.pc = "idle"
      /\ alarm \in [Alarms -> AlarmRows] /\ alarm' \in [Alarms -> AlarmRows]
      /\ stored \in [Times -> Rules \cup { "NONE", "CONTAINED" }]
  BY DEF TypeOK, NoWork
<1>1. PICK h \in [Times -> (0 .. MaxAlarms) \X Nat] : Covers(h) /\ (serial => Exact(h))
  BY DEF CountInv
\* As long as no breach is stored, the same occurrences are taken from the same breaches.
<1>2. ASSUME \A a \in Alarms : alarm'[a].rule = alarm[a].rule /\ alarm'[a].count = alarm[a].count,
             \A t \in Times : stored'[t] \in Rules \/ stored[t] \in Rules => stored'[t] = stored[t],
             \A w \in Workers : worker'[w].pc # "idle" /\ worker'[w].alarm # 0 =>
               /\ worker'[w].alarm \in Alarms
               /\ alarm[worker'[w].alarm].rule \in Rules
               /\ Numbered(h, worker'[w].alarm, Reading(worker'[w]))
      PROVE  CountInv'
  <2>1. ASSUME NEW a \in Alarms, NEW c, alarm[a].rule \in Rules, Numbered(h, a, c)
        PROVE  Numbered(h, a, c)'
    BY <1>2, <2>1 DEF Numbered
  <2>2. ASSUME NEW a \in Alarms
        PROVE  Numbered(h, a, alarm[a].count)'
    <3>1. CASE alarm[a].status = "NONE"
      <4>1. alarm'[a].count = 0
        BY <1>2, <3>1 DEF RefInv
      <4> QED BY <4>1 DEF Numbered
    <3>2. CASE alarm[a].status # "NONE"
      <4>1. alarm[a].rule \in Rules /\ Numbered(h, a, alarm[a].count)
        BY <1>1, <3>2 DEF RefInv, Covers
      <4>2. \A n \in 1 .. alarm[a].count : \E t \in Times : stored'[t] = alarm'[a].rule /\ h[t] = <<a, n>>
        BY <1>2, <4>1 DEF Numbered
      <4> QED BY <1>2, <4>2 DEF Numbered
    <3> QED BY <3>1, <3>2
  <2>3. ASSUME NEW v \in Workers, worker'[v].pc # "idle", worker'[v].alarm # 0
        PROVE  Numbered(h, worker[v].alarm, Reading(worker[v]))'
    BY <1>2, <2>3 DEF Numbered, Reading
  <2>4. Covers(h)'
    BY <2>2, <2>3 DEF Covers
  <2>5. ASSUME serial
        PROVE  Exact(h)'
    <3>1. \A r : Counted(r)' = Counted(r)
      BY <1>2 DEF Counted
    <3> QED BY <1>1, <1>2, <2>5, <3>1 DEF Exact
  <2> QED BY <2>4, <2>5 DEF CountInv
<1>3. CASE OperatorStep
  <2>1. ASSUME NEW v \in Workers, worker'[v].pc # "idle", worker'[v].alarm # 0
        PROVE  /\ worker'[v].alarm \in Alarms
               /\ alarm[worker'[v].alarm].rule \in Rules
               /\ Numbered(h, worker'[v].alarm, Reading(worker'[v]))
    BY <1>1, <1>3, <2>1 DEF OperatorStep, Covers, RefInv, Refers
  <2> QED BY <1>2, <1>3, <2>1 DEF OperatorStep
<1>4. ASSUME NEW w \in Workers, WorkerStep(w)
      PROVE  CountInv'
  <2>1. ASSUME NEW x \in Works, Becomes(w, x), x.pc # "idle",
               x.alarm # 0 => /\ x.alarm \in Alarms /\ alarm[x.alarm].rule \in Rules
                              /\ Numbered(h, x.alarm, Reading(x))
        PROVE  CountInv'
    <3>1. /\ worker' = [worker EXCEPT ![w] = x] /\ UNCHANGED << stored, alarm >>
      BY <2>1 DEF Becomes
    <3>2. ASSUME NEW v \in Workers, worker'[v].pc # "idle", worker'[v].alarm # 0
          PROVE  /\ worker'[v].alarm \in Alarms
                 /\ alarm[worker'[v].alarm].rule \in Rules
                 /\ Numbered(h, worker'[v].alarm, Reading(worker'[v]))
      <4>1. CASE v = w
        BY <1>0, <2>1, <3>1, <3>2, <4>1
      <4>2. CASE v # w
        BY <1>0, <1>1, <3>1, <3>2, <4>2 DEF Covers, RefInv, Refers
      <4> QED BY <4>1, <4>2
    <3> QED BY <1>2, <3>1, <3>2
  <2>2. CASE \E x \in Works : /\ Becomes(w, x) /\ x.pc = "read" /\ x.rule \in Rules /\ Found(x)
                              /\ \/ worker[w].pc = "idle" /\ insert_once(w, x.time)
                                 \/ worker[w].pc # "idle" /\ x.time = worker[w].time
    <3>1. PICK x \in Works : Becomes(w, x) /\ x.pc = "read" /\ x.rule \in Rules /\ Found(x)
      BY <2>2
    <3>2. x.alarm # 0 => /\ x.alarm \in Alarms /\ alarm[x.alarm].rule \in Rules
                         /\ Numbered(h, x.alarm, Reading(x))
      BY <1>1, <3>1 DEF Found, Reading, Covers
    <3> QED BY <2>1, <3>1, <3>2
  <2>3. CASE \E x \in Works : /\ Becomes(w, x) /\ worker[w].pc = "read" /\ x.pc = "alarm"
                              /\ x.rule = worker[w].rule /\ x.time = worker[w].time /\ Attached(x)
                              /\ x.alarm # 0 =>
                                   /\ x.alarm = worker[w].alarm /\ x.count = worker[w].count + 1
                                   /\ x.last = Later(worker[w].time, worker[w].last)
    <3>1. PICK x \in Works : /\ Becomes(w, x) /\ worker[w].pc = "read" /\ x.pc = "alarm"
                             /\ x.alarm # 0 =>
                                  x.alarm = worker[w].alarm /\ x.count = worker[w].count + 1
      BY <2>3
    <3>2. worker[w].count \in Nat
      BY <1>0 DEF Works
    <3>3. x.alarm # 0 => /\ x.alarm \in Alarms /\ alarm[x.alarm].rule \in Rules
                         /\ Numbered(h, x.alarm, Reading(worker[w]))
      BY <1>1, <3>1 DEF RefInv, Refers, Covers
    <3>4. x.alarm # 0 => Reading(x) = Reading(worker[w])
      BY <3>1, <3>2 DEF Reading
    <3> QED BY <2>1, <3>1, <3>3, <3>4
  <2>4. CASE /\ worker[w].pc = "alarm" /\ worker[w].rule \in Rules
             /\ \E b \in Alarms, i \in Incidents : Commits(w, b, i)
    <3>1. PICK b \in Alarms, i \in Incidents : Commits(w, b, i)
      BY <2>4
    <3>k. PICK k \in Works : k = worker[w]
      BY <1>0
    <3>c. PICK c \in Nat : c = alarm'[b].count
      BY <1>0 DEF AlarmRows
    <3>a. k.time \in Times /\ b \in 0 .. MaxAlarms
      BY BoundsAssumption DEF Works, Alarms
    <3>b. stored[k.time] = "NONE" /\ k.rule \in Rules
      BY <2>4, <3>k DEF TimeInv
    <3>d. /\ stored' = [stored EXCEPT ![k.time] = k.rule]
          /\ alarm'[b].rule = k.rule
          /\ worker' = [worker EXCEPT ![w] = NoWork]
          /\ \A a \in Alarms \ {b} : alarm'[a] = alarm[a]
      BY <3>1, <3>k DEF Commits
    <3>e. alarm[b].status = "NONE" \/ alarm[b].rule = k.rule
      BY <2>4, <3>1, <3>k DEF Commits, RefInv, Refers
    <3>2. /\ k.time \in Times /\ b \in 0 .. MaxAlarms
          /\ stored[k.time] = "NONE" /\ k.rule \in Rules
          /\ stored' = [stored EXCEPT ![k.time] = k.rule]
          /\ alarm'[b].rule = k.rule
          /\ worker' = [worker EXCEPT ![w] = NoWork]
          /\ \A a \in Alarms \ {b} : alarm'[a] = alarm[a]
          /\ alarm[b].status = "NONE" \/ alarm[b].rule = k.rule
      BY <3>a, <3>b, <3>d, <3>e
    <3>g. PICK g \in [Times -> (0 .. MaxAlarms) \X Nat] : g = [h EXCEPT ![k.time] = <<b, c>>]
      BY <3>2
    <3>3. /\ g[k.time] = <<b, c>> /\ stored'[k.time] = k.rule
          /\ \A t \in Times \ {k.time} : g[t] = h[t] /\ stored'[t] = stored[t]
      BY <1>0, <3>2, <3>g
    \* What the instances that are there have counted is still taken from where it was.
    <3>4. ASSUME NEW a \in Alarms, alarm[a].status # "NONE", NEW n,
                 \E t \in Times : stored[t] = alarm[a].rule /\ h[t] = <<a, n>>
          PROVE  \E t \in Times : stored'[t] = alarm'[a].rule /\ g[t] = <<a, n>>
      <4>1. alarm[a].rule \in Rules /\ alarm'[a].rule = alarm[a].rule
        BY <3>2, <3>4 DEF RefInv
      <4>2. PICK t \in Times : stored[t] = alarm[a].rule /\ h[t] = <<a, n>>
        BY <3>4
      <4>3. t # k.time
        BY <3>2, <4>1, <4>2, NoRuleAssumption
      <4> QED BY <3>3, <4>1, <4>2, <4>3
    <3>5. ASSUME NEW n \in 1 .. c
          PROVE  \E t \in Times : stored'[t] = alarm'[b].rule /\ g[t] = <<b, n>>
      <4>1. CASE n = c
        BY <3>2, <3>3, <4>1
      <4>2. CASE n # c
        <5>1. k.alarm # 0 /\ b = k.alarm /\ c = k.count /\ alarm[b].status # "NONE"
          BY <2>4, <3>1, <3>k, <3>c, <3>5, <4>2 DEF Commits, RefInv, Refers
        <5>2. Numbered(h, b, c - 1)
          BY <1>1, <2>4, <3>k, <5>1 DEF Covers, Reading
        <5>3. n \in 1 .. (c - 1)
          BY <3>5, <4>2
        <5> QED BY <3>4, <5>1, <5>2, <5>3 DEF Numbered
      <4> QED BY <4>1, <4>2
    <3>6. ASSUME NEW a \in Alarms
          PROVE  Numbered(g, a, alarm[a].count)'
      <4>1. CASE a = b
        BY <3>c, <3>5, <4>1 DEF Numbered
      <4>2. CASE a # b /\ alarm[a].status = "NONE"
        <5>1. alarm'[a].count = 0
          BY <3>2, <4>2 DEF RefInv
        <5> QED BY <5>1 DEF Numbered
      <4>3. CASE a # b /\ alarm[a].status # "NONE"
        <5>1. alarm'[a].count = alarm[a].count /\ Numbered(h, a, alarm[a].count)
          BY <1>1, <3>2, <4>3 DEF Covers
        <5> QED BY <3>4, <4>3, <5>1 DEF Numbered
      <4> QED BY <4>1, <4>2, <4>3
    <3>7. ASSUME NEW v \in Workers, worker'[v].pc # "idle", worker'[v].alarm # 0
          PROVE  Numbered(g, worker[v].alarm, Reading(worker[v]))'
      <4>1. worker'[v] = worker[v] /\ worker[v].pc # "idle" /\ worker[v].alarm # 0
        BY <1>0, <3>2, <3>7
      <4>2. /\ worker[v].alarm \in Alarms /\ alarm[worker[v].alarm].status # "NONE"
            /\ Numbered(h, worker[v].alarm, Reading(worker[v]))
        BY <1>1, <4>1 DEF Covers, RefInv, Refers
      <4>3. \A n \in 1 .. Reading(worker[v]) :
              \E t \in Times : stored'[t] = alarm'[worker[v].alarm].rule /\ g[t] = <<worker[v].alarm, n>>
        BY <3>4, <4>2 DEF Numbered
      <4>4. Reading(worker[v])' = Reading(worker[v])
        BY <4>1 DEF Reading
      <4> QED BY <4>1, <4>3, <4>4 DEF Numbered
    <3>8. Covers(g)'
      BY <3>3, <3>6, <3>7 DEF Covers
    <3>9. ASSUME serial
          PROVE  Exact(g)'
      <4>1. c = IF alarm[b].status = "NONE" THEN 1 ELSE alarm[b].count + 1
        <5>1. CASE k.alarm = 0
          BY <3>1, <3>k, <3>c, <5>1 DEF Commits
        <5>2. CASE k.alarm # 0
          <6>1. Reading(k) = alarm[b].count /\ b = k.alarm /\ c = k.count /\ alarm[b].status # "NONE"
            BY <2>4, <3>1, <3>k, <3>c, <3>9, <5>2 DEF OrderInv, Current, Commits, RefInv, Refers
          <6>2. k.count \in Nat
            BY DEF Works
          <6> QED BY <2>4, <3>k, <6>1, <6>2 DEF Reading
        <5> QED BY <5>1, <5>2
      <4>2. alarm[b].count \in Nat /\ (alarm[b].status = "NONE" => alarm[b].count = 0)
        BY <1>0 DEF AlarmRows, RefInv
      <4>3. c \in 1 .. c /\ c \notin 1 .. alarm[b].count /\ 1 .. alarm[b].count \subseteq 1 .. c
        BY <4>1, <4>2
      <4>4. ASSUME NEW t \in Times, t # k.time, stored[t] \in Rules
            PROVE  h[t] \in Counted(stored[t])' /\ h[t] # <<b, c>>
        <5>1. PICK a \in Alarms : alarm[a].rule = stored[t] /\ h[t] \in {a} \X (1 .. alarm[a].count)
          BY <1>1, <3>9, <4>4 DEF Exact, Counted
        <5>2. PICK n \in 1 .. alarm[a].count : h[t] = <<a, n>>
          BY <5>1
        <5>3. CASE a = b
          <6>1. alarm[b].status # "NONE"
            BY <4>2, <5>2, <5>3
          <6>2. alarm'[b].rule = stored[t] /\ n \in 1 .. alarm'[b].count
            BY <3>2, <3>c, <4>3, <5>1, <5>2, <5>3, <6>1
          <6>3. <<b, n>> \in Counted(stored[t])'
            BY <3>2, <6>2, <3>3, <4>4 DEF Counted
          <6> QED BY <4>3, <5>2, <5>3, <6>3
        <5>4. CASE a # b
          <6>1. <<a, n>> \in Counted(stored[t])'
            BY <3>2, <3>3, <4>4, <5>1, <5>4 DEF Counted
          <6> QED BY <5>2, <5>4, <6>1
        <5> QED BY <5>3, <5>4
      <4>5. <<b, c>> \in Counted(k.rule)'
        BY <3>2, <3>c, <4>3 DEF Counted
      <4>6. ASSUME NEW t \in Times, stored'[t] \in Rules
            PROVE  g[t] \in Counted(stored[t])'
        <5>1. CASE t = k.time
          <6>1. Counted(stored[t])' = Counted(k.rule)'
            BY <3>3, <5>1
          <6> QED BY <3>3, <4>5, <5>1, <6>1
        <5>2. CASE t # k.time
          BY <3>3, <4>4, <4>6, <5>2
        <5> QED BY <5>1, <5>2
      <4>7. ASSUME NEW s \in Times, NEW t \in Times, stored'[s] \in Rules, stored'[t] = stored'[s],
                   g[s] = g[t]
            PROVE  s = t
        BY <1>1, <3>3, <3>9, <4>4, <4>7 DEF Exact
      <4> QED BY <4>6, <4>7 DEF Exact
    <3> QED BY <3>3, <3>8, <3>9 DEF CountInv
  <2>5. CASE /\ worker[w].pc # "idle"
             /\ worker' = [worker EXCEPT ![w] = NoWork]
             /\ stored' \in { stored, [stored EXCEPT ![worker[w].time] = "CONTAINED"] }
             /\ UNCHANGED << alarm, incident, links >>
    <3>1. ASSUME NEW t \in Times, stored'[t] \in Rules \/ stored[t] \in Rules
          PROVE  stored'[t] = stored[t]
      BY <1>0, <2>5, <3>1, NoRuleAssumption DEF TimeInv
    <3>2. ASSUME NEW v \in Workers, worker'[v].pc # "idle", worker'[v].alarm # 0
          PROVE  /\ worker'[v].alarm \in Alarms
                 /\ alarm[worker'[v].alarm].rule \in Rules
                 /\ Numbered(h, worker'[v].alarm, Reading(worker'[v]))
      BY <1>0, <1>1, <2>5, <3>2 DEF Covers, RefInv, Refers
    <3> QED BY <1>2, <2>5, <3>1, <3>2
  <2> QED BY <1>4, <2>2, <2>3, <2>4, <2>5 DEF WorkerStep
<1> QED BY <1>3, <1>4

\* Taking breaches to occurrences, the rule's breaches are at least as many as what its
\* instances count, and exactly as many if every one is counted once.
LEMMA CountBound ==
  ASSUME TypeOK, NEW h, Covers(h), NEW r \in Rules
  PROVE  /\ Occurrences(r) <= Breaches(r)
         /\ Exact(h) => Occurrences(r) = Breaches(r)
PROOF
<1> DEFINE S == { t \in Times : stored[t] = r }
           T == { t \in S : h[t] \in Counted(r) }
           f == [t \in T |-> h[t]]
<1>1. IsFiniteSet(Times)
  BY FS_Interval, BoundsAssumption DEF Times
<1>2. IsFiniteSet(S) /\ IsFiniteSet(T) /\ Cardinality(T) <= Cardinality(S)
  <2>1. S \in SUBSET Times /\ T \in SUBSET S
    OBVIOUS
  <2> HIDE DEF S, T
  <2>2. IsFiniteSet(S)
    BY <1>1, <2>1, FS_Subset
  <2> QED BY <2>1, <2>2, FS_Subset
<1>3. f \in [T -> Counted(r)]
  OBVIOUS
<1>4. ASSUME NEW p \in Counted(r)
      PROVE  \E t \in T : f[t] = p
  <2>1. PICK a \in Alarms : alarm[a].rule = r /\ p \in {a} \X (1 .. alarm[a].count)
    BY <1>4 DEF Counted
  <2>2. PICK n \in 1 .. alarm[a].count : p = <<a, n>>
    BY <2>1
  <2>3. PICK t \in Times : stored[t] = r /\ h[t] = <<a, n>>
    BY <2>1, <2>2 DEF Covers, Numbered
  <2>4. t \in T
    BY <1>4, <2>2, <2>3
  <2> QED BY <2>2, <2>3, <2>4
<1> HIDE DEF f, T
<1>5. f \in Surjection(T, Counted(r))
  BY <1>3, <1>4, Fun_IsSurj
<1>6. /\ IsFiniteSet(Counted(r)) /\ Cardinality(Counted(r)) <= Cardinality(T)
      /\ f \in Injection(T, Counted(r)) => Cardinality(Counted(r)) = Cardinality(T)
  BY <1>2, <1>5, FS_Surjection
<1>7. Cardinality(Counted(r)) \in Nat /\ Cardinality(T) \in Nat /\ Cardinality(S) \in Nat
  BY <1>2, <1>6, FS_CardinalityType
<1>8. ASSUME Exact(h)
      PROVE  Cardinality(Counted(r)) = Cardinality(S)
  <2>1. T = S
    BY <1>8 DEF Exact, T
  <2>2. \A s, t \in T : f[s] = f[t] => s = t
    BY <1>8 DEF Exact, T, f
  <2>3. f \in Injection(T, Counted(r))
    BY <1>3, <2>2, Fun_IsInj
  <2> QED BY <1>6, <2>1, <2>3
<1> QED BY <1>2, <1>6, <1>7, <1>8 DEF Occurrences, Breaches

\* A step that pulls no latest activity back.
Forward ==
  /\ \A a \in Alarms : alarm[a].status # "NONE" => alarm'[a].last >= alarm[a].last
  /\ \A i \in Live : incident'[i].last >= incident[i].last

LEMMA ForwardStep ==
  ASSUME TypeOK, OrderInv, OperatorStep \/ \E w \in Workers : WorkerStep(w)
  PROVE  Forward
PROOF
<1>0. /\ \A a \in Alarms : alarm[a].last \in Int
      /\ \A i \in Incidents : incident[i].last \in Int
      /\ worker \in [Workers -> Works]
  BY BoundsAssumption DEF TypeOK, AlarmRows, Times
<1>1. ASSUME \A a \in Alarms : alarm'[a].last = alarm[a].last, incident' = incident
      PROVE  Forward
  BY <1>0, <1>1 DEF Forward, Live
<1>2. CASE OperatorStep
  BY <1>1, <1>2 DEF OperatorStep
<1>3. ASSUME NEW w \in Workers, WorkerStep(w), ~ UNCHANGED << alarm, incident >>
      PROVE  Forward
  <2>1. PICK b \in Alarms, i \in Incidents : Commits(w, b, i) /\ worker[w].pc = "alarm"
    BY <1>3 DEF WorkerStep, Becomes
  <2>2. /\ Current(worker[w]) /\ worker[w] \in Works
        /\ worker[w].last \in Int /\ worker[w].ilast \in Int
    BY <1>0, BoundsAssumption DEF OrderInv, Works, Times
  <2>3. alarm[b].status # "NONE" => alarm'[b].last >= alarm[b].last
    BY <1>0, <2>1, <2>2 DEF Commits, Current
  <2>4. i \in Live => incident'[i].last >= incident[i].last
    BY <1>0, <2>1, <2>2 DEF Commits, Current
  <2>5. \A a \in Alarms : a # b => alarm'[a].last >= alarm[a].last
    BY <1>0, <2>1 DEF Commits
  <2>6. \A j \in Incidents : j # i => incident'[j].last >= incident[j].last
    BY <1>0, <2>1 DEF Commits
  <2> QED BY <2>3, <2>4, <2>5, <2>6 DEF Forward, Live
<1> QED BY <1>1, <1>2, <1>3

\* Everything the counts rest on.
TallyInv == TimeInv /\ RefInv /\ CountInv /\ (serial => OrderInv)

\* It is inductive, together with the invariant behind the open instances.
LEMMA TallyInvariant == MCSpec => [](AInv /\ TallyInv)
PROOF
<1>1. MCSpec => Spec
  <2>1. MCInit => Init
    BY DEF MCInit
  <2>2. [MCNext]_<<vars, serial>> => [Next]_vars
    BY DEF MCNext
  <2> QED BY <2>1, <2>2, PTL DEF MCSpec, Spec
<1>2. MCInit => TallyInv
  <2> SUFFICES ASSUME MCInit PROVE TallyInv
    OBVIOUS
  <2>0. /\ \A w \in Workers : worker[w] = NoWork
        /\ NoWork.pc = "idle"
        /\ \A a \in Alarms : alarm[a] = NoAlarm
        /\ NoAlarm.status = "NONE" /\ NoAlarm.count = 0
        /\ links = {} /\ \A t \in Times : stored[t] = "NONE"
    BY DEF MCInit, Init, NoWork, NoAlarm
  <2>1. TimeInv /\ RefInv
    BY <2>0 DEF TimeInv, RefInv
  <2>2. OrderInv
    BY <2>0 DEF OrderInv, OneAtATime, SeverityCovers, Current
  <2>3. CountInv
    <3>1. PICK h \in [Times -> (0 .. MaxAlarms) \X Nat] : h = [t \in Times |-> <<0, 0>>]
      <4>1. [t \in Times |-> <<0, 0>>] \in [Times -> (0 .. MaxAlarms) \X Nat]
        BY BoundsAssumption
      <4> QED BY <4>1
    <3>2. Covers(h)
      <4>1. \A a \in Alarms : alarm[a].count = 0 /\ 1 .. 0 = {}
        BY <2>0
      <4>2. \A w \in Workers : worker[w].pc = "idle"
        BY <2>0
      <4>3. \A a \in Alarms : Numbered(h, a, alarm[a].count)
        BY <4>1 DEF Numbered
      <4> QED BY <4>2, <4>3 DEF Covers
    <3>3. Exact(h)
      BY <2>0, NoRuleAssumption DEF Exact
    <3> QED BY <3>2, <3>3 DEF CountInv
  <2> QED BY <2>1, <2>2, <2>3 DEF TallyInv
<1>3. AInv /\ AInv' /\ TallyInv /\ [MCNext]_<<vars, serial>> => TallyInv'
  <2> SUFFICES ASSUME AInv, AInv', TallyInv, [MCNext]_<<vars, serial>>
               PROVE  TallyInv'
    OBVIOUS
  <2>1. /\ TypeOK /\ TypeOK' /\ OpenInv /\ WorkInv
        /\ TimeInv /\ RefInv /\ CountInv /\ (serial => OrderInv)
    BY DEF AInv, OpenInv, TallyInv
  <2>2. [Next]_vars /\ serial' = serial
    BY DEF MCNext
  <2>3. serial => OneAtATime'
    BY <2>1 DEF MCNext, OrderInv, OneAtATime, vars
  <2>4. OperatorStep \/ \E w \in Workers : WorkerStep(w)
    BY <2>1, <2>2, StepShape
  <2>5. TimeInv'
    BY <2>1, <2>4, TimeStep
  <2>6. RefInv'
    BY <2>1, <2>4, RefStep
  <2>7. CountInv'
    BY <2>1, <2>2, <2>4, CountStep
  <2>8. serial => OrderInv'
    BY <2>1, <2>3, <2>4, OrderStep
  <2> QED BY <2>2, <2>5, <2>6, <2>7, <2>8 DEF TallyInv
<1> QED BY <1>1, <1>2, <1>3, Invariance, PTL DEF MCSpec

\* Redelivery, races and rolled back transactions never count a breach twice (insert_once,
\* the savepoint of _apply_alarm_rules); ingested one after the other, no breach is lost and
\* every incident is as severe as its worst alarm, whatever operators do.
THEOREM BreachesAreCounted == MCSpec => []Counts
PROOF
<1>1. AInv /\ TallyInv => Counts
  <2> SUFFICES ASSUME AInv, TallyInv PROVE Counts
    OBVIOUS
  <2>1. TypeOK /\ CountInv /\ (serial => OrderInv)
    BY DEF AInv, TallyInv
  <2>2. PICK h : Covers(h) /\ (serial => Exact(h))
    BY <2>1 DEF CountInv
  <2>3. NeverOvercounted
    BY <2>1, <2>2, CountBound DEF NeverOvercounted
  <2>4. serial => CountedExactly
    BY <2>1, <2>2, CountBound DEF CountedExactly
  <2>5. serial => SeverityCovers
    BY <2>1 DEF OrderInv
  <2> QED BY <2>3, <2>4, <2>5 DEF Counts
<1> QED BY <1>1, TallyInvariant, PTL

\* Ingested one after the other, in whatever order, no sample pulls the latest activity of an
\* alarm or an incident back (_apply_breach, _absorb_alarm).
THEOREM ActivityMovesForward == MCSpec => SerialActivityForward
PROOF
<1>1. AInv /\ TallyInv /\ [MCNext]_<<vars, serial>> => [serial => Forward]_<<vars, serial>>
  <2> SUFFICES ASSUME AInv, TallyInv, [MCNext]_<<vars, serial>>, serial
               PROVE  Forward
    OBVIOUS
  <2>1. TypeOK /\ OpenInv /\ RefInv /\ OrderInv
    BY DEF AInv, TallyInv
  <2>2. [Next]_vars
    BY DEF MCNext
  <2>3. OperatorStep \/ \E w \in Workers : WorkerStep(w)
    BY <2>1, <2>2, StepShape
  <2> QED BY <2>1, <2>3, ForwardStep
<1>2. [serial => Forward]_<<vars, serial>> =>
        [serial =>
          /\ \A a \in Alarms : alarm[a].status # "NONE" => alarm'[a].last >= alarm[a].last
          /\ \A i \in Live : incident'[i].last >= incident[i].last]_<<vars, serial>>
  BY DEF Forward
<1> QED BY <1>1, <1>2, TallyInvariant, PTL DEF MCSpec, SerialActivityForward

-----------------------------------------------------------------------------
(* The rule registry, AlarmRules.                                          *)

\* A row whose columns are each what evaluation expects.
SoundRow(r) ==
  /\ r.signal_name \in RULE_SIGNAL_NAMES
  /\ r.operator \in RULE_OPERATORS
  /\ r.threshold # Null
  /\ r.device_type \in DeviceTypes \cup {Null}

\* What a patch sets is sound column by column.
SoundPatch(changes) ==
  /\ DOMAIN changes \subseteq Fields
  /\ "signal_name" \in DOMAIN changes => changes["signal_name"] \in RULE_SIGNAL_NAMES
  /\ "operator" \in DOMAIN changes => changes["operator"] \in RULE_OPERATORS
  /\ "threshold" \in DOMAIN changes => changes["threshold"] # Null
  /\ "device_type" \in DOMAIN changes => changes["device_type"] \in DeviceTypes \cup {Null}

\* A request that has validated something: a body, or a patch that is still valid on top of
\* the row unless the row has changed since.
SoundCall(x) ==
  \/ x = Idle
  \/ x.at = "create" /\ validate_rule_definition(x.body) /\ SoundRow(x.body)
  \/ /\ x.at = "patch" /\ DOMAIN x = { "at", "stale", "changes" } /\ x.stale \in BOOLEAN
     /\ rule # Unregistered
     /\ SoundPatch(x.changes)
     /\ x.stale \/ validate_rule_definition(apply_update(rule, x.changes))

\* What a request holds is sound, and so is the row, whose threshold is in the range of its
\* signal unless a patch was committed over a row changed since its load.
RegistryInv ==
  /\ DOMAIN call = Editors
  /\ \A e \in Editors : SoundCall(call[e])
  /\ raced \in BOOLEAN
  /\ rule # Unregistered => SoundRow(rule) /\ (raced \/ validate_rule_definition(rule))

\* The columns of a patched row.
LEMMA Columns ==
  ASSUME NEW r, NEW changes
  PROVE  LET row == apply_update(r, changes) IN
         /\ row.signal_name = IF "signal_name" \in DOMAIN changes THEN changes["signal_name"] ELSE r.signal_name
         /\ row.operator = IF "operator" \in DOMAIN changes THEN changes["operator"] ELSE r.operator
         /\ row.threshold = IF "threshold" \in DOMAIN changes THEN changes["threshold"] ELSE r.threshold
         /\ row.device_type = IF "device_type" \in DOMAIN changes THEN changes["device_type"] ELSE r.device_type
         /\ row.enabled = IF "enabled" \in DOMAIN changes THEN changes["enabled"] ELSE r.enabled
BY DEF apply_update, Fields

\* A sound patch of a sound row gives a sound row, also of another row than the one it was validated on.
LEMMA PatchedIsSound ==
  ASSUME NEW r, NEW changes, SoundRow(r), SoundPatch(changes)
  PROVE  SoundRow(apply_update(r, changes)) /\ apply_update(r, changes) # Unregistered
PROOF
<1>1. SoundRow(apply_update(r, changes))
  BY Columns DEF SoundRow, SoundPatch
<1>2. Unregistered.signal_name = Null
  BY DEF Unregistered
<1> QED BY <1>1, <1>2, VocabularyAssumption DEF SoundRow

\* A body that passed validate_rule_definition is sound.
LEMMA ValidatedIsSound ==
  ASSUME NEW body \in Body, validate_rule_definition(body)
  PROVE  SoundRow(body)
BY DEF Body, SoundRow, validate_rule_definition

\* The columns that a patch changes are sound when the merged row passed the validation, and
\* setting only these gives the same row as setting all that it names.
LEMMA ValidatedPatch ==
  ASSUME NEW r, NEW changes \in Patches, validate_rule_definition(apply_update(r, changes)),
         NEW changed, changed = { f \in DOMAIN changes : changes[f] # r[f] },
         NEW delta, delta = [f \in changed |-> changes[f]]
  PROVE  SoundPatch(delta) /\ apply_update(r, delta) = apply_update(r, changes)
PROOF
<1>1. PICK fields \in SUBSET Fields, body \in Body : changes = [f \in fields |-> body[f]]
  BY DEF Patches
<1>2. DOMAIN changes = fields /\ \A f \in fields : changes[f] = body[f]
  BY <1>1
<1>3. DOMAIN delta = changed /\ changed \subseteq fields /\ \A f \in changed : delta[f] = changes[f]
  BY <1>2
<1>4. "device_type" \in fields => changes["device_type"] \in DeviceTypes \cup {Null}
  BY <1>2 DEF Body
<1>5. SoundPatch(changes)
  BY <1>2, <1>4, Columns DEF SoundPatch, validate_rule_definition
<1>6. SoundPatch(delta)
  BY <1>2, <1>3, <1>5 DEF SoundPatch
<1>7. \A f \in Fields : IF f \in DOMAIN delta THEN delta[f] = changes[f]
                        ELSE f \in DOMAIN changes => changes[f] = r[f]
  BY <1>2, <1>3
<1>8. apply_update(r, delta) = apply_update(r, changes)
  BY <1>2, <1>3, <1>7 DEF apply_update
<1> QED BY <1>6, <1>8

\* Every validation and every write of create_rule and update_rule keeps the invariant: what a
\* stale patch loses is the range of its threshold, and never the soundness of a column.
LEMMA RegistryStep ==
  ASSUME RegistryInv, [RegistryNext]_registry_vars
  PROVE  RegistryInv'
PROOF
<1>0. Idle.at = "idle"
  BY DEF Idle
<1>1. ASSUME NEW e \in Editors, NEW body \in Body, CreateCheck(e, body) PROVE RegistryInv'
  <2> DEFINE x == [at |-> "create", body |-> body]
  <2>1. call' = [call EXCEPT ![e] = x] /\ rule' = rule /\ raced' = raced
    BY <1>1 DEF CreateCheck
  <2>2. x.at = "create" /\ x.body = body
    OBVIOUS
  <2>3. SoundCall(x)'
    BY <1>1, <2>2, ValidatedIsSound DEF CreateCheck, SoundCall, SoundRow, validate_rule_definition
  <2> HIDE DEF x
  <2>4. DOMAIN call' = Editors /\ \A d \in Editors : call'[d] = IF d = e THEN x ELSE call[d]
    BY <2>1 DEF RegistryInv
  <2>5. \A d \in Editors : SoundCall(call[d])'
    BY <2>1, <2>3, <2>4 DEF RegistryInv, SoundCall, SoundRow, validate_rule_definition, apply_update
  <2> QED BY <2>1, <2>4, <2>5 DEF RegistryInv, SoundRow, validate_rule_definition
<1>2. ASSUME NEW e \in Editors, create_rule(e) PROVE RegistryInv'
  <2>1. /\ call[e].at = "create" /\ call' = [call EXCEPT ![e] = Idle] /\ raced' = raced
        /\ rule' = IF rule = Unregistered THEN call[e].body ELSE rule
    BY <1>2 DEF create_rule
  <2>2. validate_rule_definition(call[e].body) /\ SoundRow(call[e].body)
    BY <1>0, <2>1 DEF RegistryInv, SoundCall
  <2>3. DOMAIN call' = Editors /\ \A d \in Editors : call'[d] = IF d = e THEN Idle ELSE call[d]
    BY <2>1 DEF RegistryInv
  <2>4. rule' # Unregistered => SoundRow(rule') /\ (raced \/ validate_rule_definition(rule'))
    BY <2>1, <2>2 DEF RegistryInv
  <2>5. ASSUME NEW d \in Editors PROVE SoundCall(call[d])'
    <3>1. CASE d = e
      BY <2>3, <3>1 DEF SoundCall
    <3>2. CASE d # e /\ call[d].at = "patch"
      <4>1. rule' = rule /\ call'[d] = call[d] /\ SoundCall(call[d])
        BY <1>0, <2>1, <2>3, <3>2 DEF RegistryInv, SoundCall
      <4> QED BY <4>1 DEF SoundCall
    <3>3. CASE d # e /\ call[d].at # "patch"
      <4>1. call'[d] = call[d] /\ SoundCall(call[d])
        BY <2>3, <3>3 DEF RegistryInv
      <4> QED BY <3>3, <4>1 DEF SoundCall
    <3> QED BY <3>1, <3>2, <3>3
  <2> QED BY <2>1, <2>3, <2>4, <2>5 DEF RegistryInv
<1>3. ASSUME NEW e \in Editors, NEW changes \in Patches, PatchCheck(e, changes) PROVE RegistryInv'
  <2>1. PICK changed : changed = { f \in DOMAIN changes : changes[f] # rule[f] }
    OBVIOUS
  <2>2. PICK delta : delta = [f \in changed |-> changes[f]]
    OBVIOUS
  <2> DEFINE x == [at |-> "patch", stale |-> FALSE, changes |-> delta]
  <2>3. call' = [call EXCEPT ![e] = x] /\ rule' = rule /\ raced' = raced /\ rule # Unregistered
    BY <1>3, <2>1, <2>2 DEF PatchCheck
  <2>4. x.at = "patch" /\ DOMAIN x = { "at", "stale", "changes" } /\ x.stale = FALSE /\ x.changes = delta
    OBVIOUS
  <2>5. SoundPatch(delta) /\ validate_rule_definition(apply_update(rule, delta))
    <3>1. PICK r : r = rule
      OBVIOUS
    <3>2. validate_rule_definition(apply_update(r, changes))
      BY <1>3, <3>1 DEF PatchCheck
    <3>3. SoundPatch(delta) /\ apply_update(r, delta) = apply_update(r, changes)
      BY <2>1, <2>2, <3>1, <3>2, ValidatedPatch
    <3> QED BY <3>1, <3>2, <3>3
  <2> HIDE DEF x
  <2>6. DOMAIN call' = Editors /\ \A d \in Editors : call'[d] = IF d = e THEN x ELSE call[d]
    BY <2>3 DEF RegistryInv
  <2>7. ASSUME NEW d \in Editors PROVE SoundCall(call[d])'
    <3>1. CASE d = e
      BY <2>3, <2>4, <2>5, <2>6, <3>1 DEF SoundCall
    <3>2. CASE d # e
      <4>1. call'[d] = call[d] /\ SoundCall(call[d])
        BY <2>6, <3>2 DEF RegistryInv
      <4> QED BY <2>3, <4>1 DEF SoundCall
    <3> QED BY <3>1, <3>2
  <2> QED BY <2>3, <2>6, <2>7 DEF RegistryInv
<1>4. ASSUME NEW e \in Editors, update_rule(e) PROVE RegistryInv'
  <2>1. PICK x : x = call[e]
    OBVIOUS
  <2>2. PICK row : row = apply_update(rule, x.changes)
    OBVIOUS
  <2>3. /\ x.at = "patch" /\ rule # Unregistered /\ SoundPatch(x.changes) /\ x.stale \in BOOLEAN
        /\ x.stale \/ validate_rule_definition(row)
    BY <1>0, <1>4, <2>1, <2>2 DEF update_rule, RegistryInv, SoundCall
  <2>4. SoundRow(row) /\ row # Unregistered
    <3>1. PICK r : r = rule
      OBVIOUS
    <3>2. SoundRow(r)
      BY <2>3, <3>1 DEF RegistryInv
    <3> QED BY <2>2, <2>3, <3>1, <3>2, PatchedIsSound
  <2>5. CASE row.enabled = Null
    <3>1. rule' = rule /\ raced' = raced /\ call' = [call EXCEPT ![e] = Idle]
      BY <1>4, <2>1, <2>2, <2>5 DEF update_rule
    <3>2. DOMAIN call' = Editors /\ \A d \in Editors : call'[d] = IF d = e THEN Idle ELSE call[d]
      BY <3>1 DEF RegistryInv
    <3>3. \A d \in Editors : SoundCall(call[d])'
      BY <3>1, <3>2 DEF RegistryInv, SoundCall
    <3> QED BY <3>1, <3>2, <3>3 DEF RegistryInv
  <2>6. CASE row.enabled # Null
    <3>1. /\ rule' = row /\ raced' = (raced \/ x.stale)
          /\ call' = [IF row # rule THEN Outdated ELSE call EXCEPT ![e] = Idle]
      BY <1>4, <2>1, <2>2, <2>6 DEF update_rule
    <3>2. /\ raced' \in BOOLEAN
          /\ SoundRow(rule') /\ (raced' \/ validate_rule_definition(rule'))
      BY <2>3, <2>4, <3>1 DEF RegistryInv
    <3>3. DOMAIN Outdated = Editors
      BY DEF Outdated
    <3>4. DOMAIN call' = Editors /\ call'[e] = Idle
      BY <3>1, <3>3 DEF RegistryInv
    <3>5. ASSUME NEW d \in Editors PROVE SoundCall(call[d])'
      <4>1. CASE d = e
        BY <3>4, <4>1 DEF SoundCall
      <4>2. CASE d # e /\ row = rule
        <5>1. call'[d] = call[d] /\ rule' = rule /\ SoundCall(call[d])
          BY <3>1, <4>2 DEF RegistryInv
        <5> QED BY <5>1 DEF SoundCall
      <4>3. CASE d # e /\ row # rule /\ call[d].at # "patch"
        <5>1. call'[d] = call[d] /\ SoundCall(call[d])
          BY <3>1, <3>3, <4>3 DEF RegistryInv, Outdated
        <5> QED BY <4>3, <5>1 DEF SoundCall
      <4>4. CASE d # e /\ row # rule /\ call[d].at = "patch"
        <5>1. call'[d] = [call[d] EXCEPT !.stale = TRUE]
          BY <3>1, <3>3, <4>4 DEF Outdated
        <5>2. DOMAIN call[d] = { "at", "stale", "changes" } /\ SoundPatch(call[d].changes)
          BY <1>0, <4>4 DEF RegistryInv, SoundCall
        <5>3. /\ DOMAIN call'[d] = { "at", "stale", "changes" } /\ call'[d].at = "patch"
              /\ call'[d].stale = TRUE /\ call'[d].changes = call[d].changes
          BY <4>4, <5>1, <5>2
        <5> QED BY <2>4, <3>1, <5>2, <5>3 DEF SoundCall
      <4> QED BY <4>1, <4>2, <4>3, <4>4
    <3> QED BY <3>2, <3>4, <3>5 DEF RegistryInv
  <2> QED BY <2>5, <2>6
<1>5. CASE UNCHANGED registry_vars
  BY <1>5 DEF registry_vars, RegistryInv, SoundCall
<1> QED BY <1>1, <1>2, <1>3, <1>4, <1>5 DEF RegistryNext

\* The invariant holds in every state of the registry.
LEMMA RegistryInvariance == RegistrySpec => []RegistryInv
PROOF
<1>1. RegistryInit => RegistryInv
  BY DEF RegistryInit, RegistryInv, SoundCall
<1> QED BY <1>1, RegistryStep, PTL DEF RegistrySpec

\* The rule that evaluate_rules meets never makes it raise, which would drop every alarm of the
\* sample (services/telemetry.py:193): racing patches included, its operator is one that compare
\* knows and its threshold a number, and it is breached only by a reading the sample has.
THEOREM StoredRulesEvaluate == RegistrySpec => []EvaluationNeverRaises
PROOF
<1>1. RegistryInv => EvaluationNeverRaises
  <2> SUFFICES ASSUME RegistryInv, rule # Unregistered,
                      NEW payload \in Payloads, NEW t \in DeviceTypes,
                      Breached(rule, canonical_readings(payload), t)
               PROVE  /\ payload[rule.signal_name] # Null
                      /\ rule \in list_applicable({rule}, t)
    BY DEF EvaluationNeverRaises, RegistryInv, SoundRow
  <2>1. payload[rule.signal_name] # Null
    BY DEF Breached, canonical_readings
  <2>2. rule \in list_applicable({rule}, t)
    BY DEF Breached, list_applicable
  <2> QED BY <2>1, <2>2
<1> QED BY <1>1, RegistryInvariance, PTL

\* An enabled rule that validate_rule_definition admitted and no stale patch overwrote is
\* breached by some reading in the range of its signal, unless it asks for more than the
\* top of the range or less than the bottom.
THEOREM OnlyEdgesAreInert == RegistrySpec => []InertOnlyAtTheEdges
PROOF
<1>1. RegistryInv => InertOnlyAtTheEdges
  <2> SUFFICES ASSUME RegistryInv, rule # Unregistered, rule.enabled, ~raced
               PROVE  LET s == rule.signal_name
                          fires(v) == \E t \in DeviceTypes : Breached(rule, [x \in {s} |-> v], t)
                      IN  (\E v \in Low[s]..High[s] : fires(v))
                            <=> <<rule.operator, rule.threshold>> \notin {<<"GT", High[s]>>, <<"LT", Low[s]>>}
    BY DEF InertOnlyAtTheEdges
  <2> DEFINE s == rule.signal_name
             op == rule.operator
             h == rule.threshold
  <2>1. s \in RULE_SIGNAL_NAMES /\ op \in RULE_OPERATORS /\ rule.device_type \in DeviceTypes \cup {Null}
    BY DEF RegistryInv, SoundRow
  <2>2. h \in Low[s]..High[s]
    BY DEF RegistryInv, validate_rule_definition
  <2>3. Low[s] \in Int /\ High[s] \in Int /\ Low[s] < High[s] /\ h \in Int /\ Low[s] <= h /\ h <= High[s]
    BY <2>1, <2>2, RangeAssumption
  <2>4. ASSUME NEW v PROVE (\E t \in DeviceTypes : Breached(rule, [x \in {s} |-> v], t)) <=> compare(op, v, h)
    <3>1. \E t \in DeviceTypes : rule.device_type \in {Null, t}
      BY <2>1, VocabularyAssumption
    <3>2. s \in DOMAIN [x \in {s} |-> v] /\ [x \in {s} |-> v][s] = v
      OBVIOUS
    <3> QED BY <3>1, <3>2 DEF Breached
  <2>5. (\E v \in Low[s]..High[s] : compare(op, v, h)) <=> <<op, h>> \notin {<<"GT", High[s]>>, <<"LT", Low[s]>>}
    <3> HIDE DEF s, op, h
    <3>1. CASE op \in { "GTE", "LTE", "EQ" }
      <4>1. compare(op, h, h)
        <5>1. h >= h /\ h <= h
          BY <2>3
        <5>2. CASE op = "GTE"
          BY <5>1, <5>2 DEF compare
        <5>3. CASE op = "LTE"
          BY <5>1, <5>3 DEF compare
        <5>4. CASE op = "EQ"
          BY <5>4 DEF compare
        <5> QED BY <3>1, <5>2, <5>3, <5>4
      <4> QED BY <2>2, <3>1, <4>1
    <3>2. CASE op = "GT"
      <4>1. \A v : compare(op, v, h) <=> v > h
        BY <3>2 DEF compare
      <4> QED BY <2>3, <3>2, <4>1
    <3>3. CASE op = "LT"
      <4>1. \A v : compare(op, v, h) <=> v < h
        BY <3>3 DEF compare
      <4> QED BY <2>3, <3>3, <4>1
    <3>4. CASE op = "NE"
      <4>1. \A v : compare(op, v, h) <=> v # h
        BY <3>4 DEF compare
      <4>2. Low[s] # h \/ High[s] # h
        BY <2>3
      <4> QED BY <2>3, <3>4, <4>1, <4>2
    <3> QED BY <2>1, <3>1, <3>2, <3>3, <3>4 DEF RULE_OPERATORS
  <2> QED BY <2>4, <2>5
<1> QED BY <1>1, RegistryInvariance, PTL
=============================================================================
