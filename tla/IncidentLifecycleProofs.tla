----------------------- MODULE IncidentLifecycleProofs -----------------------
(***************************************************************************)
(* Proofs about IncidentLifecycle, for any incidents, diagnoses and        *)
(* requests in flight.                                                     *)
(***************************************************************************)
EXTENDS IncidentLifecycle, SequenceTheorems, FiniteSetTheorems, TLAPS

Rows == [ status : IncidentStatuses \cup {"absent"}, acknowledged : BOOLEAN,
          resolved : BOOLEAN, closed : BOOLEAN ]

Links == [ status : {"FAULT", "NORMAL"}, incident : Incidents \cup {NoIncident} ]

Creates == [at : {"create"}, d : 1..MaxDiagnoses]
CommandCalls == [at : {"command"}, i : Incidents, target : Commands, seen : Rows]
Starts == [at : {"gated"}, i : Incidents, d : 1..MaxDiagnoses]

CallRecords == {Idle} \cup Creates \cup CommandCalls \cup Starts

Types ==
  /\ row \in [Incidents -> Rows]
  /\ link \in Seq(Links) /\ Len(link) <= MaxDiagnoses
  /\ run \in [Incidents \X (1..MaxDiagnoses) -> {"none", "running", "waiting", "ended"}]
  /\ mitigated \in SUBSET Incidents /\ overwritten \in SUBSET Incidents
  /\ born \in [1..MaxDiagnoses -> SUBSET Incidents]

\* Statuses and stamps that only an incident reported mitigated carries.
Late == { "MITIGATED", "RESOLVED", "CLOSED", "REOPENED" }
PastMitigation(x) == x.status \in Late \/ x.resolved

RowInv == \A i \in Incidents : PastMitigation(row[i]) => i \in mitigated

\* The stamps of a row agree with its status.
Stamped(x) ==
  /\ x.status \in {"RESOLVED", "CLOSED"} => x.resolved
  /\ x.status = "CLOSED" => x.closed
  /\ x.closed => x.resolved
  /\ x.status = "REOPENED" => ~x.resolved /\ ~x.closed

\* A request is about a diagnosis that exists; a command may follow the status it saw, and
\* one that leaves the live statuses is about an incident that was reported mitigated.
Sound(x) ==
  /\ x.at \in {"create", "gated"} => x.d \in DOMAIN link
  /\ x.at = "command" => /\ x.seen.status \in IncidentStatuses
                         /\ x.target \in INCIDENT_TRANSITIONS[x.seen.status]
                         /\ x.target \in Late => x.i \in mitigated

CallInv == call \in [Callers -> CallRecords] /\ \A c \in Callers : Sound(call[c])

\* The requests that found a diagnosis without incident and will create one.
Creating(d) == { c \in Callers : call[c].at = "create" /\ call[c].d = d }

\* A diagnosis an incident was created for stays linked, so that from the first incident on
\* only the requests that read its link before can create another.
BirthInv ==
  \A d \in 1..MaxDiagnoses :
    /\ IsFiniteSet(born[d])
    /\ Cardinality(born[d]) + Cardinality(Creating(d)) <= Cardinality(Callers)
    /\ born[d] # {} => d \in DOMAIN link /\ link[d].incident # NoIncident

LInv == Types /\ RowInv /\ StampsUnlessOverwritten /\ CallInv /\ BirthInv

-----------------------------------------------------------------------------
(* The transition table                                                     *)

\* The rows of the table the proofs need: which statuses the commands may follow.
LEMMA Table ==
  ASSUME NEW s \in IncidentStatuses, NEW target \in INCIDENT_TRANSITIONS[s]
  PROVE  /\ target = "RESOLVED" => s = "MITIGATED"
         /\ target = "CLOSED" => s = "RESOLVED"
         /\ target = "REOPENED" => s = "CLOSED"
BY DEF INCIDENT_TRANSITIONS, IncidentStatuses

-----------------------------------------------------------------------------
(* Rows                                                                     *)

\* A row that is written keeps the promises about rows, if what is written does.
LEMMA RowWritten ==
  ASSUME Types, RowInv, StampsUnlessOverwritten, NEW i \in Incidents, NEW x \in Rows,
         row' = [row EXCEPT ![i] = x],
         mitigated \subseteq mitigated', overwritten \subseteq overwritten',
         PastMitigation(x) => i \in mitigated', i \notin overwritten' => Stamped(x)
  PROVE  row' \in [Incidents -> Rows] /\ RowInv' /\ StampsUnlessOverwritten'
PROOF
<1>1. row' \in [Incidents -> Rows] /\ \A j \in Incidents : row'[j] = IF j = i THEN x ELSE row[j]
  BY DEF Types
<1>2. RowInv'
  BY <1>1 DEF RowInv, PastMitigation
<1>3. ASSUME NEW j \in Incidents \ overwritten' PROVE Stamped(row'[j])
  <2>1. CASE j = i
    BY <1>1, <1>3, <2>1
  <2>2. CASE j # i
    BY <1>1, <1>3, <2>2 DEF StampsUnlessOverwritten, Stamped
  <2> QED BY <2>1, <2>2
<1>4. StampsUnlessOverwritten'
  BY <1>3 DEF StampsUnlessOverwritten, Stamped
<1> QED BY <1>1, <1>2, <1>4

\* The workflow's raw status writes, and the report of a mitigation, leave the stamps.
LEMMA RawWrite ==
  ASSUME Types, RowInv, StampsUnlessOverwritten, NEW i \in Incidents,
         NEW s \in { "MITIGATED", "UNDER_ANALYSIS", "ACTION_PENDING", "WORK_ORDER_CREATED" },
         row' = [row EXCEPT ![i].status = s],
         mitigated \subseteq mitigated', overwritten' = overwritten, s = "MITIGATED" => i \in mitigated'
  PROVE  row' \in [Incidents -> Rows] /\ RowInv' /\ StampsUnlessOverwritten'
PROOF
<1> DEFINE x == [row[i] EXCEPT !.status = s]
<1>1. row[i] \in Rows /\ row' = [row EXCEPT ![i] = x]
  BY DEF Types
<1>2. s \in IncidentStatuses
  BY DEF IncidentStatuses
<1>3. x \in Rows /\ x.status = s /\ x.resolved = row[i].resolved /\ x.closed = row[i].closed
  BY <1>1, <1>2 DEF Rows
<1>4. PastMitigation(x) => i \in mitigated'
  BY <1>3 DEF PastMitigation, Late, RowInv
<1>5. i \notin overwritten' => Stamped(x)
  BY <1>3 DEF Stamped, StampsUnlessOverwritten
<1> HIDE DEF x
<1> QED BY <1>1, <1>3, <1>4, <1>5, RowWritten

\* A new incident carries no stamp.
LEMMA NewRow ==
  ASSUME Types, RowInv, StampsUnlessOverwritten, NEW i \in Incidents, row' = [row EXCEPT ![i] = Opened],
         mitigated' = mitigated, overwritten' = overwritten
  PROVE  row' \in [Incidents -> Rows] /\ RowInv' /\ StampsUnlessOverwritten'
PROOF
<1>1. /\ Opened \in Rows /\ Opened.status = "OPEN"
      /\ Opened.resolved = FALSE /\ Opened.closed = FALSE
  BY DEF Opened, Absent, Rows, IncidentStatuses
<1>2. ~PastMitigation(Opened) /\ Stamped(Opened)
  BY <1>1 DEF PastMitigation, Late, Stamped
<1> QED BY <1>1, <1>2, RowWritten

\* A command writes over a row that it has seen as it is, or counts as an overwrite.
LEMMA CommandWrites ==
  ASSUME Types, RowInv, StampsUnlessOverwritten, CallInv, NEW c \in Callers, CommitCommand(c)
  PROVE  row' \in [Incidents -> Rows] /\ RowInv' /\ StampsUnlessOverwritten'
PROOF
<1> DEFINE i == call[c].i
           seen == call[c].seen
           target == call[c].target
           x == Written(row[i], seen, target)
<1>1. call[c] \in CommandCalls /\ Sound(call[c]) /\ call[c].at = "command"
  BY DEF CommitCommand, CallInv, CallRecords, Idle, Creates, CommandCalls, Starts
<1>2. i \in Incidents /\ seen \in Rows /\ target \in Commands /\ row[i] \in Rows
  BY <1>1 DEF CommandCalls, Types
<1>3. /\ seen.status \in IncidentStatuses /\ target \in INCIDENT_TRANSITIONS[seen.status]
      /\ target \in Late => i \in mitigated
  BY <1>1 DEF Sound
<1>4. /\ target = "RESOLVED" => seen.status = "MITIGATED"
      /\ target = "CLOSED" => seen.status = "RESOLVED"
      /\ target = "REOPENED" => seen.status = "CLOSED"
  BY <1>3, Table
<1>5. /\ row' = [row EXCEPT ![i] = x] /\ mitigated' = mitigated
      /\ overwritten' = IF row[i] = seen THEN overwritten ELSE overwritten \cup {i}
  BY DEF CommitCommand
<1> HIDE DEF i, seen, target
<1>6. /\ x.status = target
      /\ x.resolved = ((row[i].resolved /\ ~(target = "REOPENED" /\ seen.resolved)) \/ target = "RESOLVED")
      /\ x.closed = ((row[i].closed /\ ~(target = "REOPENED" /\ seen.closed)) \/ target = "CLOSED")
  BY DEF Written
<1>7. x \in Rows
  BY <1>2 DEF Written, Rows, Commands, IncidentStatuses
<1>8. PastMitigation(x) => i \in mitigated'
  BY <1>2, <1>3, <1>5, <1>6 DEF PastMitigation, RowInv, Late
<1>9. ASSUME i \notin overwritten' PROVE Stamped(x)
  <2>1. row[i] = seen /\ i \notin overwritten
    BY <1>5, <1>9
  <2>2. /\ seen.status \in {"RESOLVED", "CLOSED"} => seen.resolved
        /\ seen.status = "CLOSED" => seen.closed
        /\ seen.closed => seen.resolved
    BY <1>2, <2>1 DEF StampsUnlessOverwritten
  <2>3. /\ x.status = target
        /\ x.resolved = ((seen.resolved /\ ~(target = "REOPENED" /\ seen.resolved)) \/ target = "RESOLVED")
        /\ x.closed = ((seen.closed /\ ~(target = "REOPENED" /\ seen.closed)) \/ target = "CLOSED")
    BY <1>6, <2>1
  <2>4. seen.resolved \in BOOLEAN /\ seen.closed \in BOOLEAN
    BY <1>2 DEF Rows
  <2> HIDE DEF x
  <2>5. CASE target = "RESOLVED"
    BY <2>2, <2>3, <2>4, <2>5 DEF Stamped
  <2>6. CASE target = "CLOSED"
    BY <1>4, <2>2, <2>3, <2>4, <2>6 DEF Stamped
  <2>7. CASE target = "REOPENED"
    BY <1>4, <2>2, <2>3, <2>4, <2>7 DEF Stamped
  <2>8. CASE target \notin { "RESOLVED", "CLOSED", "REOPENED" }
    BY <2>2, <2>3, <2>4, <2>8 DEF Stamped
  <2> QED BY <2>5, <2>6, <2>7, <2>8
<1>10. overwritten \subseteq overwritten'
  BY <1>5
<1> HIDE DEF x
<1> QED BY <1>2, <1>5, <1>7, <1>8, <1>9, <1>10, RowWritten

-----------------------------------------------------------------------------
(* Requests, diagnoses and the incidents created for them                   *)

\* What is left of the links when one is appended or set: every diagnosis that was linked is.
LinksKept ==
  /\ DOMAIN link \subseteq DOMAIN link'
  /\ \A d \in DOMAIN link : link[d].incident # NoIncident => link'[d].incident # NoIncident

\* Diagnoses are numbered in order.
LEMMA Numbered ==
  ASSUME Types
  PROVE  DOMAIN link = 1..Len(link) /\ Len(link) \in Nat /\ \A d \in DOMAIN link : d \in 1..MaxDiagnoses /\ link[d] \in Links
PROOF
<1>1. link \in Seq(Links) /\ Len(link) <= MaxDiagnoses
  BY DEF Types
<1>2. Len(link) \in Nat /\ DOMAIN link = 1..Len(link)
  BY <1>1
<1>3. \A d \in 1..Len(link) : d \in 1..MaxDiagnoses
  BY <1>1, <1>2, BoundAssumption
<1>4. \A d \in 1..Len(link) : link[d] \in Links
  BY <1>1
<1> QED BY <1>2, <1>3, <1>4

\* A request is sound whatever else moves on.
LEMMA SoundKept ==
  ASSUME CallInv, DOMAIN link \subseteq DOMAIN link', mitigated \subseteq mitigated'
  PROVE  /\ UNCHANGED call => CallInv'
         /\ \A c \in Callers, x \in CallRecords : Sound(x) /\ call' = [call EXCEPT ![c] = x] => CallInv'
PROOF
<1>0. call \in [Callers -> CallRecords] /\ \A c \in Callers : Sound(call[c])
  BY DEF CallInv
<1>1. ASSUME call' \in [Callers -> CallRecords], \A c \in Callers : Sound(call'[c]) PROVE CallInv'
  BY <1>1 DEF CallInv, Sound
<1>2. ASSUME NEW c \in Callers, NEW x \in CallRecords, Sound(x), call' = [call EXCEPT ![c] = x]
      PROVE  CallInv'
  <2>1. call' \in [Callers -> CallRecords] /\ \A d \in Callers : call'[d] = IF d = c THEN x ELSE call[d]
    BY <1>0, <1>2
  <2>2. \A d \in Callers : Sound(call'[d])
    BY <1>0, <1>2, <2>1
  <2> QED BY <1>1, <2>1, <2>2
<1>3. ASSUME UNCHANGED call PROVE CallInv'
  BY <1>0, <1>1, <1>3
<1> QED BY <1>2, <1>3

\* Only CreateRead adds to the requests that will create an incident.
LEMMA CreatingShrinks ==
  ASSUME CallInv, NEW d
  PROVE  /\ UNCHANGED call => Creating(d)' \subseteq Creating(d)
         /\ \A c \in Callers : \A x : x.at # "create" /\ call' = [call EXCEPT ![c] = x] =>
              Creating(d)' \subseteq Creating(d) \ {c}
BY DEF CallInv, Creating

\* The requests in flight are finitely many.
LEMMA CreatingFinite ==
  ASSUME NEW d
  PROVE  /\ IsFiniteSet(Creating(d)) /\ IsFiniteSet(Creating(d)')
         /\ Cardinality(Creating(d)) \in Nat /\ Cardinality(Creating(d)') \in Nat
         /\ Cardinality(Callers) \in Nat
         /\ Cardinality(Creating(d)') <= Cardinality(Callers)
PROOF
<1>1. Creating(d) \subseteq Callers /\ Creating(d)' \subseteq Callers
  BY DEF Creating
<1> QED BY <1>1, CallerAssumption, FS_Subset, FS_CardinalityType

\* Nothing is created, and no diagnosis loses its link.
LEMMA BirthKept ==
  ASSUME Types, BirthInv, LinksKept, UNCHANGED born, \A d \in 1..MaxDiagnoses : Creating(d)' \subseteq Creating(d)
  PROVE  BirthInv'
PROOF
<1>1. ASSUME NEW d \in 1..MaxDiagnoses
      PROVE  /\ IsFiniteSet(born[d])
             /\ Cardinality(born[d]) + Cardinality(Creating(d)') <= Cardinality(Callers)
             /\ born[d] # {} => d \in DOMAIN link' /\ link'[d].incident # NoIncident
  <2>1. /\ IsFiniteSet(born[d]) /\ Cardinality(born[d]) \in Nat
        /\ Cardinality(born[d]) + Cardinality(Creating(d)) <= Cardinality(Callers)
        /\ born[d] # {} => d \in DOMAIN link /\ link[d].incident # NoIncident
    BY FS_CardinalityType DEF BirthInv
  <2>2. Cardinality(Creating(d)') <= Cardinality(Creating(d))
    BY CreatingFinite, FS_Subset
  <2>3. Cardinality(born[d]) + Cardinality(Creating(d)') <= Cardinality(Callers)
    BY <2>1, <2>2, CreatingFinite
  <2> QED BY <2>1, <2>3 DEF LinksKept
<1> QED BY <1>1 DEF BirthInv

\* A step that creates no incident from a diagnosis, records none and touches rows as the
\* lemmas about rows allow.
LEMMA Ordinary ==
  ASSUME LInv,
         row' \in [Incidents -> Rows], RowInv', StampsUnlessOverwritten', UNCHANGED << link, born >>,
         run' \in [Incidents \X (1..MaxDiagnoses) -> {"none", "running", "waiting", "ended"}],
         mitigated' \in SUBSET Incidents, overwritten' \in SUBSET Incidents, mitigated \subseteq mitigated',
         \/ UNCHANGED call
         \/ \E c \in Callers, x \in CallRecords : Sound(x) /\ x.at # "create" /\ call' = [call EXCEPT ![c] = x]
  PROVE  LInv'
PROOF
<1>1. Types'
  BY DEF LInv, Types
<1>2. CallInv'
  BY SoundKept DEF LInv
<1>3. \A d \in 1..MaxDiagnoses : Creating(d)' \subseteq Creating(d)
  BY CreatingShrinks DEF LInv
<1>4. LinksKept
  BY DEF LinksKept
<1>5. BirthInv'
  BY <1>3, <1>4, BirthKept DEF LInv
<1> QED BY <1>1, <1>2, <1>5 DEF LInv

\* The coordinator appends a diagnosis.
LEMMA DiagnoseStep ==
  ASSUME LInv, NEW s \in {"FAULT", "NORMAL"}, Diagnose(s)
  PROVE  LInv'
PROOF
<1>0. Types /\ CallInv /\ BirthInv /\ RowInv /\ StampsUnlessOverwritten /\ link \in Seq(Links) /\ Len(link) \in Nat
  BY Numbered DEF LInv, Types
<1>1. PICK i \in Incidents \cup {NoIncident} : link' = Append(link, [status |-> s, incident |-> i])
  BY DEF Diagnose, LiveIncidents
<1>2. UNCHANGED << row, run, call, mitigated, overwritten, born >> /\ Len(link) < MaxDiagnoses
  BY DEF Diagnose
<1> DEFINE x == [status |-> s, incident |-> i]
<1>3. x \in Links
  BY DEF Links
<1> HIDE DEF x
<1>4. /\ link' \in Seq(Links) /\ Len(link') = Len(link) + 1
      /\ \A d \in 1..Len(link) : link'[d] = link[d]
  BY <1>0, <1>1, <1>3, AppendProperties DEF x
<1>5. LinksKept
  <2>1. DOMAIN link = 1..Len(link) /\ DOMAIN link' = 1..(Len(link) + 1)
    BY <1>0, <1>4
  <2> QED BY <1>0, <1>4, <2>1 DEF LinksKept
<1>6. Types'
  BY <1>0, <1>2, <1>4, BoundAssumption DEF Types
<1>7. CallInv' /\ \A d \in 1..MaxDiagnoses : Creating(d)' \subseteq Creating(d)
  BY <1>0, <1>2, <1>5, SoundKept, CreatingShrinks DEF LinksKept
<1>8. BirthInv'
  BY <1>0, <1>2, <1>5, <1>7, BirthKept
<1>9. RowInv' /\ StampsUnlessOverwritten'
  BY <1>0, <1>2 DEF RowInv, StampsUnlessOverwritten, PastMitigation
<1> QED BY <1>6, <1>7, <1>8, <1>9 DEF LInv

\* A request reads a diagnosis without incident: none was created for it, so that whoever
\* else reads it the requests in flight are the bound.
LEMMA CreateReadStep ==
  ASSUME LInv, NEW c \in Callers, NEW d \in Diagnoses, CreateRead(c, d)
  PROVE  LInv'
PROOF
<1>0. Types /\ CallInv /\ BirthInv /\ RowInv /\ StampsUnlessOverwritten
  BY DEF LInv
<1> DEFINE x == [at |-> "create", d |-> d]
<1>1. /\ link[d].incident = NoIncident /\ call' = [call EXCEPT ![c] = x]
      /\ UNCHANGED << row, link, run, mitigated, overwritten, born >>
  BY DEF CreateRead
<1>2. d \in DOMAIN link /\ d \in 1..MaxDiagnoses
  BY <1>0, Numbered DEF Diagnoses
<1>3. x \in CallRecords /\ x.at = "create" /\ x.d = d
  BY <1>2 DEF CallRecords, Creates
<1>4. Sound(x)
  BY <1>2, <1>3 DEF Sound
<1> HIDE DEF x
<1>5. CallInv'
  BY <1>0, <1>1, <1>3, <1>4, SoundKept
<1>6. ASSUME NEW e \in 1..MaxDiagnoses
      PROVE  /\ IsFiniteSet(born[e])
             /\ Cardinality(born[e]) + Cardinality(Creating(e)') <= Cardinality(Callers)
             /\ born[e] # {} => e \in DOMAIN link' /\ link'[e].incident # NoIncident
  <2>1. /\ IsFiniteSet(born[e]) /\ Cardinality(born[e]) \in Nat
        /\ Cardinality(born[e]) + Cardinality(Creating(e)) <= Cardinality(Callers)
        /\ born[e] # {} => e \in DOMAIN link /\ link[e].incident # NoIncident
    BY <1>0, FS_CardinalityType DEF BirthInv
  <2>2. CASE e = d
    <3>1. Cardinality(born[e]) = 0
      BY <1>1, <2>1, <2>2, FS_EmptySet
    <3>2. Cardinality(born[e]) + Cardinality(Creating(e)') <= Cardinality(Callers)
      BY <3>1, CreatingFinite
    <3> QED BY <1>1, <2>1, <3>2
  <2>3. CASE e # d
    <3>1. \A b \in Callers : call'[b].at = "create" /\ call'[b].d = e => call[b].at = "create" /\ call[b].d = e
      BY <1>0, <1>1, <1>3, <2>3 DEF CallInv
    <3>2. Creating(e)' \subseteq Creating(e)
      BY <3>1 DEF Creating
    <3>3. Cardinality(Creating(e)') <= Cardinality(Creating(e))
      BY <3>2, CreatingFinite, FS_Subset
    <3>4. Cardinality(born[e]) + Cardinality(Creating(e)') <= Cardinality(Callers)
      BY <2>1, <3>3, CreatingFinite
    <3> QED BY <1>1, <2>1, <3>4
  <2> QED BY <2>2, <2>3
<1>7. BirthInv'
  BY <1>1, <1>6 DEF BirthInv
<1>8. Types' /\ RowInv' /\ StampsUnlessOverwritten'
  BY <1>0, <1>1 DEF Types, RowInv, StampsUnlessOverwritten, PastMitigation
<1> QED BY <1>5, <1>7, <1>8 DEF LInv

\* A request creates an incident: it leaves those that will, and the diagnosis is linked.
LEMMA CreateStep ==
  ASSUME LInv, NEW c \in Callers, NEW i \in Incidents, create_incident(c, i)
  PROVE  LInv'
PROOF
<1>0. Types /\ CallInv /\ BirthInv /\ RowInv /\ StampsUnlessOverwritten /\ link \in Seq(Links)
  BY DEF LInv, Types
<1>a. call[c] \in Creates /\ Sound(call[c]) /\ call[c].at = "create"
  BY <1>0 DEF create_incident, CallInv, CallRecords, Idle, Creates, CommandCalls, Starts
<1>b. PICK d : d = call[c].d
  OBVIOUS
<1>c. d \in 1..MaxDiagnoses /\ d \in DOMAIN link
  BY <1>a, <1>b DEF Creates, Sound
<1>1. /\ link' = [link EXCEPT ![d].incident = i] /\ born' = [born EXCEPT ![d] = @ \cup {i}]
      /\ row' = [row EXCEPT ![i] = Opened] /\ call' = [call EXCEPT ![c] = Idle]
      /\ UNCHANGED << run, mitigated, overwritten >>
  BY <1>b DEF create_incident
<1>2. row' \in [Incidents -> Rows] /\ RowInv' /\ StampsUnlessOverwritten'
  BY <1>0, <1>1, NewRow
<1>3. /\ link[d] \in Links /\ DOMAIN link = 1..Len(link) /\ Len(link) \in Nat
  BY <1>0, <1>c, Numbered
<1> DEFINE x == [link[d] EXCEPT !.incident = i]
<1>4. x \in Links /\ x.incident = i /\ link' = [link EXCEPT ![d] = x]
  BY <1>1, <1>3 DEF Links
<1> HIDE DEF x
<1>5. /\ link' \in Seq(Links) /\ Len(link') = Len(link) /\ DOMAIN link' = DOMAIN link
      /\ link'[d] = x /\ \A e \in DOMAIN link \ {d} : link'[e] = link[e]
  BY <1>0, <1>3, <1>4, <1>c
<1>6. LinksKept /\ link'[d].incident # NoIncident
  BY <1>4, <1>5, BoundAssumption DEF LinksKept
<1>7. /\ born'[d] = born[d] \cup {i} /\ \A e \in 1..MaxDiagnoses \ {d} : born'[e] = born[e]
      /\ born' \in [1..MaxDiagnoses -> SUBSET Incidents]
  BY <1>0, <1>1, <1>c DEF Types
<1>8. Types'
  BY <1>0, <1>1, <1>2, <1>5, <1>7 DEF Types
<1>9. Idle \in CallRecords /\ Sound(Idle) /\ Idle.at # "create"
  BY DEF Idle, CallRecords, Sound
<1>10. CallInv'
  BY <1>0, <1>1, <1>6, <1>9, SoundKept DEF LinksKept
<1>11. \A e : Creating(e)' \subseteq Creating(e) \ {c}
  BY <1>0, <1>1, <1>9, CreatingShrinks
<1>12. c \in Creating(d)
  BY <1>a, <1>b DEF Creating
<1>13. ASSUME NEW e \in 1..MaxDiagnoses
       PROVE  /\ IsFiniteSet(born'[e])
              /\ Cardinality(born'[e]) + Cardinality(Creating(e)') <= Cardinality(Callers)
              /\ born'[e] # {} => e \in DOMAIN link' /\ link'[e].incident # NoIncident
  <2>1. /\ IsFiniteSet(born[e]) /\ Cardinality(born[e]) \in Nat
        /\ Cardinality(born[e]) + Cardinality(Creating(e)) <= Cardinality(Callers)
        /\ born[e] # {} => e \in DOMAIN link /\ link[e].incident # NoIncident
    BY <1>0, FS_CardinalityType DEF BirthInv
  <2>2. CASE e = d
    <3>1. /\ IsFiniteSet(Creating(d) \ {c})
          /\ Cardinality(Creating(d) \ {c}) = Cardinality(Creating(d)) - 1
      BY <1>12, CreatingFinite, FS_RemoveElement
    <3>2. Cardinality(Creating(d)') <= Cardinality(Creating(d)) - 1
      <4>1. Creating(d)' \subseteq Creating(d) \ {c}
        BY <1>11
      <4>2. Cardinality(Creating(d)') <= Cardinality(Creating(d) \ {c})
        BY <3>1, <4>1, FS_Subset, Zenon
      <4> QED BY <3>1, <4>2
    <3>3. /\ IsFiniteSet(born'[d])
          /\ Cardinality(born'[d]) = Cardinality(born[d]) \/ Cardinality(born'[d]) = Cardinality(born[d]) + 1
      <4>1. IsFiniteSet(born[d] \cup {i}) /\ (Cardinality(born[d] \cup {i}) = Cardinality(born[d])
              \/ Cardinality(born[d] \cup {i}) = Cardinality(born[d]) + 1)
        <5>1. IsFiniteSet(born[d])
          BY <2>1, <2>2
        <5>2. CASE i \in born[d]
          BY <5>1, <5>2, FS_AddElement
        <5>3. CASE i \notin born[d]
          BY <5>1, <5>3, FS_AddElement
        <5> QED BY <5>2, <5>3
      <4> QED BY <1>7, <4>1
    <3>4. Cardinality(born'[d]) + Cardinality(Creating(d)') <= Cardinality(Callers)
      BY <2>1, <2>2, <3>2, <3>3, CreatingFinite
    <3> QED BY <1>5, <1>6, <1>c, <2>2, <3>3, <3>4
  <2>3. CASE e # d
    <3>1. Cardinality(Creating(e)') <= Cardinality(Creating(e))
      BY <1>11, CreatingFinite, FS_Subset
    <3>2. Cardinality(born'[e]) + Cardinality(Creating(e)') <= Cardinality(Callers)
      BY <1>7, <2>1, <2>3, <3>1, CreatingFinite
    <3> QED BY <1>6, <1>7, <2>1, <2>3, <3>2 DEF LinksKept
  <2> QED BY <2>2, <2>3
<1>14. BirthInv'
  BY <1>13 DEF BirthInv
<1> QED BY <1>2, <1>8, <1>10, <1>14 DEF LInv

\* Runs are started and ended; a raw status write of the workflow is an ordinary step.
LEMMA WorkflowStepKeeps ==
  ASSUME LInv, NEW i \in Incidents, NEW d \in DOMAIN link, WorkflowStep(i, d)
  PROVE  LInv'
PROOF
<1>0. Types /\ RowInv /\ StampsUnlessOverwritten /\ d \in 1..MaxDiagnoses
  BY Numbered DEF LInv
<1>1. mitigated \in SUBSET Incidents /\ overwritten \in SUBSET Incidents /\ row \in [Incidents -> Rows]
  BY <1>0 DEF Types
<1>2. UNCHANGED row /\ UNCHANGED << mitigated, overwritten >> => row' \in [Incidents -> Rows] /\ RowInv' /\ StampsUnlessOverwritten'
  BY <1>0, <1>1 DEF RowInv, PastMitigation, StampsUnlessOverwritten
<1>3. CASE start_workflow(i, d)
  <2>1. /\ row' = [row EXCEPT ![i].status = "UNDER_ANALYSIS"] /\ run' = [run EXCEPT ![<<i, d>>] = "running"]
        /\ UNCHANGED << link, mitigated, overwritten, born, call >>
    BY <1>3 DEF start_workflow, start
  <2>2. row' \in [Incidents -> Rows] /\ RowInv' /\ StampsUnlessOverwritten'
    BY <1>0, <2>1, RawWrite
  <2>3. run' \in [Incidents \X (1..MaxDiagnoses) -> {"none", "running", "waiting", "ended"}]
    BY <1>0, <2>1 DEF Types
  <2> QED BY <1>1, <2>1, <2>2, <2>3, Ordinary
<1>4. ASSUME NEW outcome \in {"ACTION_PENDING", "WORK_ORDER_CREATED", "none"}, PersistResult(i, d, outcome) PROVE LInv'
  <2>1. /\ row' = IF outcome = "none" THEN row ELSE [row EXCEPT ![i].status = outcome]
        /\ \E s \in {"waiting", "ended"} : run' = [run EXCEPT ![<<i, d>>] = s]
        /\ UNCHANGED << link, mitigated, overwritten, born, call >>
    BY <1>4 DEF PersistResult
  <2>2. row' \in [Incidents -> Rows] /\ RowInv' /\ StampsUnlessOverwritten'
    <3>1. CASE outcome = "none"
      BY <1>2, <2>1, <3>1
    <3>2. CASE outcome # "none"
      BY <1>0, <1>4, <2>1, <3>2, RawWrite
    <3> QED BY <3>1, <3>2
  <2>3. run' \in [Incidents \X (1..MaxDiagnoses) -> {"none", "running", "waiting", "ended"}]
    BY <1>0, <2>1 DEF Types
  <2> QED BY <1>1, <2>1, <2>2, <2>3, Ordinary
<1>5. ASSUME NEW approved \in BOOLEAN, decide_approval(i, d, approved) PROVE LInv'
  <2>1. /\ row' = IF approved THEN [row EXCEPT ![i].status = "WORK_ORDER_CREATED"] ELSE row
        /\ run' = [run EXCEPT ![<<i, d>>] = "ended"]
        /\ UNCHANGED << link, mitigated, overwritten, born, call >>
    BY <1>5 DEF decide_approval
  <2>2. row' \in [Incidents -> Rows] /\ RowInv' /\ StampsUnlessOverwritten'
    <3>1. CASE ~approved
      BY <1>2, <2>1, <3>1
    <3>2. CASE approved
      BY <1>0, <2>1, <3>2, RawWrite
    <3> QED BY <3>1, <3>2
  <2>3. run' \in [Incidents \X (1..MaxDiagnoses) -> {"none", "running", "waiting", "ended"}]
    BY <1>0, <2>1 DEF Types
  <2> QED BY <1>1, <2>1, <2>2, <2>3, Ordinary
<1> QED BY <1>3, <1>4, <1>5 DEF WorkflowStep

\* The steps of a request.
LEMMA CallStepKeeps ==
  ASSUME LInv, NEW c \in Callers, CallStep(c)
  PROVE  LInv'
PROOF
<1>0. Types /\ RowInv /\ StampsUnlessOverwritten /\ CallInv
  BY DEF LInv
<1>1. /\ mitigated \in SUBSET Incidents /\ overwritten \in SUBSET Incidents /\ row \in [Incidents -> Rows]
      /\ run \in [Incidents \X (1..MaxDiagnoses) -> {"none", "running", "waiting", "ended"}]
  BY <1>0 DEF Types
<1>2. UNCHANGED << row, mitigated, overwritten >> => row' \in [Incidents -> Rows] /\ RowInv' /\ StampsUnlessOverwritten'
  BY <1>0, <1>1 DEF RowInv, PastMitigation, StampsUnlessOverwritten
<1>3. Idle \in CallRecords /\ Sound(Idle) /\ Idle.at # "create"
  BY DEF Idle, CallRecords, Sound
<1>4. ASSUME NEW i \in Incidents, NEW target \in Commands, Load(c, i, target) PROVE LInv'
  <2> DEFINE x == [at |-> "command", i |-> i, target |-> target, seen |-> row[i]]
  <2>1. /\ call' = [call EXCEPT ![c] = x] /\ UNCHANGED << row, link, run, mitigated, overwritten, born >>
        /\ row[i].status # "absent" /\ target \in INCIDENT_TRANSITIONS[row[i].status]
    BY <1>4 DEF Load, Exists, _require_transition
  <2>2. row[i] \in Rows /\ row[i].status \in IncidentStatuses
    BY <1>1, <2>1 DEF Rows
  <2>3. x \in CommandCalls /\ x.at = "command" /\ x.i = i /\ x.target = target /\ x.seen = row[i]
    BY <2>2 DEF CommandCalls
  <2>4. target \in Late => row[i].status \in Late
    BY <1>4, <2>1, <2>2, Table DEF Late, Commands
  <2>5. target \in Late => i \in mitigated
    BY <1>0, <2>4 DEF RowInv, PastMitigation
  <2>6. Sound(x)
    BY <2>1, <2>2, <2>3, <2>5 DEF Sound
  <2>7. x \in CallRecords
    BY <2>3 DEF CallRecords
  <2> HIDE DEF x
  <2>8. \E b \in Callers, y \in CallRecords : Sound(y) /\ y.at # "create" /\ call' = [call EXCEPT ![b] = y]
    BY <2>1, <2>3, <2>6, <2>7
  <2> QED BY <1>1, <1>2, <2>1, <2>8, Ordinary
<1>5. CASE CommitCommand(c)
  <2>1. row' \in [Incidents -> Rows] /\ RowInv' /\ StampsUnlessOverwritten'
    BY <1>0, <1>5, CommandWrites
  <2>2. call[c] \in CommandCalls
    BY <1>0, <1>5 DEF CommitCommand, CallInv, CallRecords, Idle, Creates, CommandCalls, Starts
  <2>3. call[c].i \in Incidents
    BY <2>2 DEF CommandCalls
  <2>4. /\ overwritten' = overwritten \/ overwritten' = overwritten \cup { call[c].i }
        /\ call' = [call EXCEPT ![c] = Idle] /\ UNCHANGED << link, run, mitigated, born >>
    BY <1>5 DEF CommitCommand
  <2>5. overwritten' \in SUBSET Incidents
    BY <1>1, <2>3, <2>4
  <2> QED BY <1>1, <1>3, <2>1, <2>4, <2>5, Ordinary
<1>6. CASE CallLost(c)
  <2>1. call' = [call EXCEPT ![c] = Idle] /\ UNCHANGED << row, link, run, mitigated, overwritten, born >>
    BY <1>6 DEF CallLost
  <2> QED BY <1>1, <1>2, <1>3, <2>1, Ordinary
<1>7. ASSUME NEW i \in Incidents, NEW d \in DOMAIN link, ensure_ready(c, i, d) PROVE LInv'
  <2> DEFINE x == [at |-> "gated", i |-> i, d |-> d]
  <2>1. call' = [call EXCEPT ![c] = x] /\ UNCHANGED << row, link, run, mitigated, overwritten, born >>
    BY <1>7 DEF ensure_ready
  <2>2. d \in 1..MaxDiagnoses
    BY <1>0, Numbered
  <2>3. x \in CallRecords /\ x.at = "gated" /\ x.d = d
    BY <2>2 DEF CallRecords, Starts
  <2>4. Sound(x)
    BY <2>3 DEF Sound
  <2> HIDE DEF x
  <2>5. \E b \in Callers, y \in CallRecords : Sound(y) /\ y.at # "create" /\ call' = [call EXCEPT ![b] = y]
    BY <2>1, <2>3, <2>4
  <2> QED BY <1>1, <1>2, <2>1, <2>5, Ordinary
<1>8. CASE start_incident_workflow(c)
  <2>1. PICK i, d : i = call[c].i /\ d = call[c].d
    OBVIOUS
  <2>2. call[c] \in Starts
    BY <1>0, <1>8 DEF start_incident_workflow, CallInv, CallRecords, Idle, Creates, CommandCalls, Starts
  <2>3. i \in Incidents /\ d \in 1..MaxDiagnoses
    BY <2>1, <2>2 DEF Starts
  <2>4. /\ row' = [row EXCEPT ![i].status = "UNDER_ANALYSIS"] /\ run' = [run EXCEPT ![<<i, d>>] = "running"]
        /\ call' = [call EXCEPT ![c] = Idle] /\ UNCHANGED << link, mitigated, overwritten, born >>
    BY <1>8, <2>1 DEF start_incident_workflow, start
  <2>5. row' \in [Incidents -> Rows] /\ RowInv' /\ StampsUnlessOverwritten'
    BY <1>0, <2>3, <2>4, RawWrite
  <2>6. run' \in [Incidents \X (1..MaxDiagnoses) -> {"none", "running", "waiting", "ended"}]
    BY <1>1, <2>3, <2>4
  <2> QED BY <1>1, <1>3, <2>4, <2>5, <2>6, Ordinary
<1> QED BY <1>4, <1>5, <1>6, <1>7, <1>8, CreateReadStep, CreateStep DEF CallStep, Diagnoses

-----------------------------------------------------------------------------
(* What the life of an incident promises                                    *)

\* The invariant holds at the start and is kept by every step.
LEMMA Invariance == Spec => []LInv
PROOF
<1>1. ASSUME Init PROVE LInv
  <2>1. /\ Absent \in Rows /\ Absent.status = "absent" /\ Absent.resolved = FALSE /\ Absent.closed = FALSE
        /\ Idle \in CallRecords /\ Idle.at = "idle"
    BY DEF Absent, Rows, Idle, CallRecords
  <2>2. Types
    BY <1>1, <2>1, BoundAssumption DEF Init, Types
  <2>3. RowInv /\ StampsUnlessOverwritten
    BY <1>1, <2>1 DEF Init, RowInv, StampsUnlessOverwritten, PastMitigation, Late
  <2>4. CallInv
    BY <1>1, <2>1 DEF Init, CallInv, Sound
  <2>5. ASSUME NEW d \in 1..MaxDiagnoses
        PROVE  /\ born[d] = {} /\ IsFiniteSet(born[d])
               /\ Cardinality(born[d]) + Cardinality(Creating(d)) <= Cardinality(Callers)
    <3>1. Creating(d) = {} /\ born[d] = {}
      BY <1>1, <2>1 DEF Init, Creating
    <3>2. Cardinality({}) = 0 /\ IsFiniteSet({}) /\ Cardinality(Callers) \in Nat
      BY CallerAssumption, FS_EmptySet, FS_CardinalityType
    <3> QED BY <3>1, <3>2
  <2>6. BirthInv
    BY <2>5 DEF BirthInv
  <2> QED BY <2>2, <2>3, <2>4, <2>6 DEF LInv
<1>2. ASSUME LInv, [Next]_vars PROVE LInv'
  <2>0. Types /\ RowInv /\ StampsUnlessOverwritten
    BY <1>2 DEF LInv
  <2>1. /\ mitigated \in SUBSET Incidents /\ overwritten \in SUBSET Incidents /\ row \in [Incidents -> Rows]
        /\ run \in [Incidents \X (1..MaxDiagnoses) -> {"none", "running", "waiting", "ended"}]
    BY <2>0 DEF Types
  <2>2. ASSUME NEW i \in Incidents, _create_incident_for(i) PROVE LInv'
    <3>1. row' = [row EXCEPT ![i] = Opened] /\ UNCHANGED << link, run, call, mitigated, overwritten, born >>
      BY <2>2 DEF _create_incident_for
    <3>2. row' \in [Incidents -> Rows] /\ RowInv' /\ StampsUnlessOverwritten'
      BY <2>0, <3>1, NewRow
    <3> QED BY <1>2, <2>1, <3>1, <3>2, Ordinary
  <2>3. ASSUME NEW i \in Incidents, Mitigate(i) PROVE LInv'
    <3>1. /\ row' = [row EXCEPT ![i].status = "MITIGATED"] /\ mitigated' = mitigated \cup {i}
          /\ UNCHANGED << link, run, call, overwritten, born >>
      BY <2>3 DEF Mitigate
    <3>2. row' \in [Incidents -> Rows] /\ RowInv' /\ StampsUnlessOverwritten'
      BY <2>0, <3>1, RawWrite
    <3> QED BY <1>2, <2>1, <3>1, <3>2, Ordinary
  <2>4. CASE UNCHANGED vars
    <3>1. row' \in [Incidents -> Rows] /\ RowInv' /\ StampsUnlessOverwritten'
      BY <2>0, <2>1, <2>4 DEF vars, RowInv, PastMitigation, StampsUnlessOverwritten
    <3> QED BY <1>2, <2>1, <2>4, <3>1, Ordinary DEF vars
  <2> QED BY <1>2, <2>2, <2>3, <2>4, DiagnoseStep, WorkflowStepKeeps, CallStepKeeps DEF Next, Diagnoses
<1> QED BY <1>1, <1>2, PTL DEF Spec

\* Whatever commands, workflow writes and stale commits interleave, no incident leaves the
\* live statuses unless it was reported MITIGATED (states.py, INCIDENT_TRANSITIONS;
\* incident_service.py, the five commands).
THEOREM OnlyMitigatedLeave == Spec => []LeavesLiveOnlyMitigated
PROOF
<1>1. ASSUME LInv PROVE LeavesLiveOnlyMitigated
  <2>1. Types /\ RowInv
    BY <1>1 DEF LInv
  <2>2. TypeOK
    BY <2>1, Numbered DEF Types, TypeOK, Rows, Links, Diagnoses
  <2> QED BY <2>1, <2>2 DEF LeavesLiveOnlyMitigated, RowInv, PastMitigation, Late
<1> QED BY <1>1, Invariance, PTL

\* Racing calls create at most one incident each for a diagnosis, however many requests are
\* in flight and however long the system runs (api/workflows.py, create_incident).
THEOREM OneIncidentPerRacer == Spec => []DuplicatesBounded
PROOF
<1>1. ASSUME LInv, NEW d \in Diagnoses PROVE Cardinality(born[d]) <= Cardinality(Callers)
  <2>1. d \in 1..MaxDiagnoses
    BY <1>1, Numbered DEF LInv, Diagnoses
  <2>2. /\ Cardinality(born[d]) \in Nat
        /\ Cardinality(born[d]) + Cardinality(Creating(d)) <= Cardinality(Callers)
    BY <1>1, <2>1, FS_CardinalityType DEF LInv, BirthInv
  <2> QED BY <2>2, CreatingFinite
<1>2. LInv => DuplicatesBounded
  BY <1>1 DEF DuplicatesBounded
<1> QED BY <1>2, Invariance, PTL

\* The stamps the metrics read agree with the status through every reopening and every raw
\* status write, unless a command committed over a row that had changed (incident_service.py).
THEOREM StampsAgree == Spec => []StampsUnlessOverwritten
PROOF
<1>1. LInv => StampsUnlessOverwritten
  BY DEF LInv
<1> QED BY <1>1, Invariance, PTL
=============================================================================
