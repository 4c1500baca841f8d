--------------------------- MODULE GovernanceProofs ---------------------------
(***************************************************************************)
(* Proofs about Governance, for any users, roles, condition objects,       *)
(* policies, change records and requests in flight, and, in the last       *)
(* section, about the acceptance runs of ScenarioEvaluation that probe it, *)
(* for any scenario definitions.                                           *)
(***************************************************************************)
EXTENDS Governance, ScenarioEvaluation, SequenceTheorems, TLAPS

\* A row without a window has not been scheduled; one with a window has one in order.
WellScheduled(x) ==
  \/ x.start = 0 /\ x.end = 0 /\ x.status \in { "DRAFT", "CANCELLED" }
  \/ x.start # 0 /\ x.start < x.end /\ x.status \notin { "NONE", "DRAFT" }
  \/ x = NoChange

\* Change records are well scheduled, and so is what requests have loaded of them; a record
\* that was loaded with a window still has one.
ChangeInv ==
  /\ \A c \in Changes : WellScheduled(change[c])
  /\ \A r \in Requests : request[r].pc = "loaded" /\ request[r].op \in { "update_change", "transition_change" } =>
       /\ request[r].id \in Changes
       /\ request[r].change.status \in DOMAIN CHANGE_TRANSITIONS
       /\ WellScheduled(request[r].change)
       /\ change[request[r].id].status # "NONE"
       /\ request[r].change.start # 0 => change[request[r].id].start # 0

\* Condition objects passed the validation before they were stored, and so did those that
\* requests have loaded.
PolicyInv ==
  /\ \A p \in Policies : _validate_conditions(policy[p].conditions)
  /\ \A r \in Requests : _validate_conditions(request[r].policy.conditions)
  /\ \A r \in Requests : request[r].pc = "loaded" /\ request[r].op \in { "update_policy", "delete_policy" } =>
       /\ request[r].id \in Policies
       /\ request[r].policy # NoPolicy

GInv == TypeOK /\ ChangeInv /\ PolicyInv

-----------------------------------------------------------------------------
(* Windows                                                                  *)

\* The remainder of a difference of clock times.
LEMMA ClockDifference ==
  ASSUME NEW a \in Clock, NEW b \in Clock
  PROVE  (a - b) % DayLength = IF a >= b THEN a - b ELSE a - b + DayLength
PROOF
<1>1. DayLength \in Nat \ {0} /\ a \in 0 .. DayLength - 1 /\ b \in 0 .. DayLength - 1
  BY BoundsAssumption DEF Clock
<1>2. CASE a >= b
  <2>1. a - b \in 0 .. DayLength - 1
    BY <1>1, <1>2
  <2>2. \A n \in Nat, x \in Int : 0 <= x /\ x < n => x % n = x
    OBVIOUS
  <2> QED BY <1>1, <1>2, <2>1, <2>2
<1>3. CASE a < b
  <2>1. a - b + DayLength \in 0 .. DayLength - 1
    BY <1>1, <1>3
  <2>2. \A n \in Nat, x \in Int : -n <= x /\ x < 0 => x % n = x + n
    OBVIOUS
  <2> QED BY <1>1, <1>3, <2>1, <2>2
<1> QED BY <1>1, <1>2, <1>3

\* A window matches the clock times that lie less than its length after its start.
LEMMA WindowMatches ==
  ASSUME NEW window, window.start \in Clock, window.end \in Clock, NEW now \in Moments
  PROVE  _matches_time_window(window, now) <=>
           /\ now.day \in window.days
           /\ (now.time - window.start) % DayLength < (window.end - window.start) % DayLength
PROOF
<1> DEFINE a == now.time
           s == window.start
           e == window.end
<1>1. /\ DayLength \in Nat \ {0} /\ a \in 0 .. DayLength - 1
      /\ s \in 0 .. DayLength - 1 /\ e \in 0 .. DayLength - 1
  BY BoundsAssumption DEF Clock, Moments
<1>2. (a - s) % DayLength = IF a >= s THEN a - s ELSE a - s + DayLength
  BY ClockDifference DEF Moments
<1>3. (e - s) % DayLength = IF e >= s THEN e - s ELSE e - s + DayLength
  BY ClockDifference
<1> DEFINE inside == \/ s < e /\ s <= a /\ a < e
                     \/ s > e /\ (a >= s \/ a < e)
<1>4. inside <=> (a - s) % DayLength < (e - s) % DayLength
  <2> HIDE DEF a, s, e
  <2> QED BY <1>1, <1>2, <1>3
<1> QED BY <1>4 DEF _matches_time_window

\* A rule with validated conditions that is not inert refuses some request that RBAC lets
\* through: one by an administrator who also holds the roles that it names.
LEMMA ValidRulesRefuse ==
  ASSUME NEW rule, _validate_conditions(rule.conditions), ~Inert(rule)
  PROVE  \E op \in PolicyOps \cup ChangeOps, roles \in SUBSET DOMAIN ROLE_PERMISSIONS,
            now \in [day : 1 .. 7, time : Clock] : Refuses(rule, op, roles, now)
PROOF
<1> DEFINE c == rule.conditions
<1>1. 0 \in Clock
  BY BoundsAssumption DEF Clock
<1> DEFINE roles == DOMAIN ROLE_PERMISSIONS
<1>2. /\ "roles" \in DOMAIN c => roles \cap c["roles"] # {}
      /\ WILDCARD \in permissions_for_roles(roles)
  <2>1. "roles" \in DOMAIN c => roles \cap c["roles"] # {}
    BY DEF Inert
  <2>2. "ADMIN" \in roles /\ WILDCARD \in ROLE_PERMISSIONS["ADMIN"]
    BY DEF ROLE_PERMISSIONS
  <2> QED BY <2>1, <2>2 DEF permissions_for_roles
<1>3. PICK now \in [day : 1 .. 7, time : Clock] :
             "time_window" \in DOMAIN c => _matches_time_window(c["time_window"], now)
  <2>1. CASE "time_window" \notin DOMAIN c
    <3>1. [day |-> 1, time |-> 0] \in [day : 1 .. 7, time : Clock]
      BY <1>1
    <3> QED BY <2>1, <3>1
  <2>2. CASE "time_window" \in DOMAIN c
    <3> DEFINE w == c["time_window"]
    <3>1. w.days \in SUBSET (1 .. 7) /\ w.days # {} /\ w.start \in Clock /\ w.end \in Clock
      BY <2>2 DEF _validate_conditions
    <3>2. w.start # w.end
      BY <2>2 DEF Inert
    <3>3. PICK d \in w.days : TRUE
      BY <3>1
    <3> DEFINE now == [day |-> d, time |-> w.start]
    <3>4. now \in [day : 1 .. 7, time : Clock]
      BY <3>1, <3>3
    <3>5. w.start \in Nat /\ w.end \in Nat
      BY <3>1, BoundsAssumption DEF Clock
    <3>6. _matches_time_window(w, now)
      <4>1. now.day \in w.days /\ now.time = w.start
        BY <3>3
      <4> HIDE DEF now, w
      <4> QED BY <3>2, <3>5, <4>1 DEF _matches_time_window
    <3> QED BY <3>4, <3>6
  <2> QED BY <2>1, <2>2
<1>4. DOMAIN c # {} /\ DOMAIN c \subseteq SUPPORTED_CONDITION_KEYS
  BY DEF _validate_conditions, Inert
<1>5. PICK op \in PolicyOps \cup ChangeOps : rule.permission = Needs(op)
  BY DEF Inert
<1>6. _conditions_match(c, roles, now)
  BY <1>2, <1>3, <1>4 DEF _conditions_match
<1>7. permissions_for_roles(roles) \cap { WILDCARD, Needs(op) } # {}
  BY <1>2
<1>8. Refuses(rule, op, roles, now)
  BY <1>5, <1>6, <1>7 DEF Refuses
<1> QED BY <1>8

\* An object without keys is refused nothing by the validation.
LEMMA EmptyIsValid == _validate_conditions(NoPolicy.conditions)
PROOF
<1>1. DOMAIN << >> = {}
  OBVIOUS
<1>2. NoPolicy.conditions = << >>
  BY DEF NoPolicy
<1> QED BY <1>1, <1>2 DEF _validate_conditions

-----------------------------------------------------------------------------
(* The tables                                                               *)

RequestRecords == [ pc : { "idle", "allowed", "loaded" }, policy : PolicyRows,
                    op : PolicyOps \cup ChangeOps \cup {"none"}, change : ChangeRows,
                    id : Policies \cup Changes \cup {0} ]

\* No row and no request are well typed.
LEMMA NothingTyped == NoPolicy \in PolicyRows /\ NoChange \in ChangeRows /\ NoRequest \in RequestRecords
PROOF
<1>1. 0 \in Instants
  BY BoundsAssumption DEF Instants
<1>2. NoChange \in ChangeRows
  BY <1>1 DEF NoChange, ChangeRows, ChangeRisks
<1>3. NoPolicy \in PolicyRows
  BY DEF PolicyRows
<1> QED BY <1>2, <1>3 DEF NoRequest, RequestRecords

\* A condition object of a stored policy is a payload or that of no policy.
LEMMA RowShape ==
  ASSUME NEW x \in PolicyRows, x # NoPolicy
  PROVE  x.permission \in ALL_PERMISSIONS /\ x.conditions \in Payloads /\ x.enabled \in BOOLEAN
BY DEF PolicyRows

\* Every step keeps the types.
LEMMA TypeStep ==
  ASSUME TypeOK, PolicyInv, ChangeInv, [Next]_vars
  PROVE  TypeOK'
PROOF
<1>0. /\ policy \in [Policies -> PolicyRows] /\ change \in [Changes -> ChangeRows]
      /\ request \in [Requests -> RequestRecords]
  BY DEF TypeOK, RequestRecords
<1>a. ASSUME policy' \in [Policies -> PolicyRows], change' \in [Changes -> ChangeRows],
             request' \in [Requests -> RequestRecords]
      PROVE  TypeOK'
  BY <1>a DEF TypeOK, RequestRecords
<1>b. ASSUME NEW r \in Requests, End(r) PROVE request' \in [Requests -> RequestRecords]
  BY <1>0, <1>b, NothingTyped DEF End
<1>1. ASSUME NEW r \in Requests, NEW u \in Users, NEW op \in PolicyOps \cup ChangeOps, require_permission(r, u, op)
      PROVE  TypeOK'
  <2> DEFINE x == [request[r] EXCEPT !.pc = "allowed", !.op = op]
  <2>0. request' = [request EXCEPT ![r] = x]
    BY <1>0, <1>1 DEF require_permission
  <2>1. x \in RequestRecords
    BY <1>0 DEF RequestRecords
  <2> HIDE DEF x
  <2>2. request' \in [Requests -> RequestRecords]
    BY <1>0, <2>0, <2>1
  <2> QED BY <1>0, <1>a, <1>1, <2>2 DEF require_permission
<1>2. ASSUME NEW r \in Requests, Refused(r) PROVE TypeOK'
  BY <1>0, <1>a, <1>b, <1>2 DEF Refused
<1>3. ASSUME NEW r \in Requests, NEW p \in Policies, _require_policy(r, p) PROVE TypeOK'
  <2> DEFINE x == [request[r] EXCEPT !.pc = "loaded", !.id = p, !.policy = policy[p]]
  <2>0. request' = [request EXCEPT ![r] = x]
    BY <1>0, <1>3 DEF _require_policy
  <2>1. x \in RequestRecords
    BY <1>0 DEF RequestRecords
  <2> HIDE DEF x
  <2>2. request' \in [Requests -> RequestRecords]
    BY <1>0, <2>0, <2>1
  <2> QED BY <1>0, <1>a, <1>3, <2>2 DEF _require_policy
<1>4. ASSUME NEW r \in Requests, NEW c \in Changes, _require_change(r, c) PROVE TypeOK'
  <2> DEFINE x == [request[r] EXCEPT !.pc = "loaded", !.id = c, !.change = change[c]]
  <2>0. request' = [request EXCEPT ![r] = x]
    BY <1>0, <1>4 DEF _require_change
  <2>1. x \in RequestRecords
    BY <1>0 DEF RequestRecords
  <2> HIDE DEF x
  <2>2. request' \in [Requests -> RequestRecords]
    BY <1>0, <2>0, <2>1
  <2> QED BY <1>0, <1>a, <1>4, <2>2 DEF _require_change
<1>5. ASSUME NEW r \in Requests, NEW permission \in ALL_PERMISSIONS, NEW conditions \in Payloads,
             NEW enabled \in BOOLEAN, create_policy(r, permission, conditions, enabled)
      PROVE  TypeOK'
  <2>1. [permission |-> permission, conditions |-> conditions, enabled |-> enabled] \in PolicyRows
    BY DEF PolicyRows
  <2>2. policy' \in [Policies -> PolicyRows]
    BY <1>0, <1>5, <2>1 DEF create_policy
  <2> QED BY <1>0, <1>a, <1>b, <1>5, <2>2 DEF create_policy
<1>6. ASSUME NEW r \in Requests, NEW permission \in ALL_PERMISSIONS \cup {request[r].policy.permission},
             NEW conditions \in Payloads \cup {request[r].policy.conditions}, NEW enabled \in BOOLEAN,
             update_policy(r, permission, conditions, enabled)
      PROVE  TypeOK'
  <2> DEFINE k == request[r]
             old == policy[k.id]
             new == [ permission |-> Written(permission, k.policy.permission, old.permission),
                      conditions |-> Written(conditions, k.policy.conditions, old.conditions),
                      enabled    |-> Written(enabled, k.policy.enabled, old.enabled) ]
  <2>1. /\ k.id \in Policies /\ k.policy \in PolicyRows /\ k.policy # NoPolicy
        /\ old \in PolicyRows /\ old # NoPolicy
    BY <1>0, <1>6 DEF update_policy, PolicyInv, RequestRecords
  <2>2. /\ k.policy.permission \in ALL_PERMISSIONS /\ k.policy.conditions \in Payloads
        /\ old.permission \in ALL_PERMISSIONS /\ old.conditions \in Payloads /\ old.enabled \in BOOLEAN
    BY <2>1, RowShape
  <2>3. new \in PolicyRows
    BY <2>2 DEF Written, PolicyRows
  <2>4. policy' = [policy EXCEPT ![k.id] = new]
    BY <1>0, <1>6, <2>1 DEF update_policy
  <2>5. policy' \in [Policies -> PolicyRows]
    BY <1>0, <2>1, <2>3, <2>4
  <2> QED BY <1>0, <1>a, <1>b, <1>6, <2>5 DEF update_policy
<1>7. ASSUME NEW r \in Requests, delete_policy(r) PROVE TypeOK'
  <2>1. policy' \in [Policies -> PolicyRows]
    BY <1>0, <1>7, NothingTyped DEF delete_policy
  <2> QED BY <1>0, <1>a, <1>b, <1>7, <2>1 DEF delete_policy
<1>8. ASSUME NEW r \in Requests, NEW risk \in ChangeRisks, create_change(r, risk) PROVE TypeOK'
  <2>1. [NoChange EXCEPT !.status = "DRAFT", !.risk = risk] \in ChangeRows
    BY NothingTyped DEF ChangeRows, CHANGE_TRANSITIONS
  <2>2. change' \in [Changes -> ChangeRows]
    BY <1>0, <1>8, <2>1 DEF create_change
  <2> QED BY <1>0, <1>a, <1>b, <1>8, <2>2 DEF create_change
<1>9. ASSUME NEW r \in Requests, NEW risk \in ChangeRisks, update_change(r, risk) PROVE TypeOK'
  <2>1. request[r].id \in Changes
    BY <1>9 DEF update_change, ChangeInv
  <2>2. change' \in [Changes -> ChangeRows]
    BY <1>0, <1>9, <2>1 DEF update_change, Written, ChangeRows
  <2> QED BY <1>0, <1>a, <1>b, <1>9, <2>2 DEF update_change
<1>10. ASSUME NEW r \in Requests, NEW status \in DOMAIN CHANGE_TRANSITIONS, NEW start \in Instants,
              NEW end \in Instants, transition_change(r, status, start, end)
       PROVE  TypeOK'
  <2> DEFINE k == request[r].change
             s == IF start # 0 THEN start ELSE k.start
             e == IF end # 0 THEN end ELSE k.end
  <2>1. request[r].id \in Changes /\ k \in ChangeRows
    BY <1>0, <1>10 DEF transition_change, ChangeInv, RequestRecords
  <2>2. s \in Instants /\ e \in Instants
    BY <2>1 DEF ChangeRows
  <2>3. change' = [change EXCEPT ![request[r].id].status = Written(status, k.status, @),
                                 ![request[r].id].start = Written(s, k.start, @),
                                 ![request[r].id].end = Written(e, k.end, @)]
    BY <1>10 DEF transition_change
  <2> HIDE DEF s, e, k
  <2>4. change' \in [Changes -> ChangeRows]
    BY <1>0, <2>1, <2>2, <2>3 DEF Written, ChangeRows
  <2> QED BY <1>0, <1>a, <1>b, <1>10, <2>4 DEF transition_change
<1>11. CASE UNCHANGED vars
  BY <1>0, <1>a, <1>11 DEF vars
<1> QED BY <1>1, <1>2, <1>3, <1>4, <1>5, <1>6, <1>7, <1>8, <1>9, <1>10, <1>11 DEF Next, PolicyStep, ChangeStep

\* A request that ends or is let through has loaded nothing, and the others stay.
LEMMA OtherRequests ==
  ASSUME TypeOK, NEW r \in Requests
  PROVE  /\ End(r) => request'[r] = NoRequest /\ \A q \in Requests \ {r} : request'[q] = request[q]
         /\ \A u, op : require_permission(r, u, op) =>
              /\ request'[r] = [request[r] EXCEPT !.pc = "allowed", !.op = op]
              /\ \A q \in Requests \ {r} : request'[q] = request[q]
         /\ \A p \in Policies : _require_policy(r, p) =>
              /\ request'[r] = [request[r] EXCEPT !.pc = "loaded", !.id = p, !.policy = policy[p]]
              /\ \A q \in Requests \ {r} : request'[q] = request[q]
         /\ \A c \in Changes : _require_change(r, c) =>
              /\ request'[r] = [request[r] EXCEPT !.pc = "loaded", !.id = c, !.change = change[c]]
              /\ \A q \in Requests \ {r} : request'[q] = request[q]
PROOF
<1>0. request \in [Requests -> RequestRecords] /\ request[r] \in RequestRecords
  BY DEF TypeOK, RequestRecords
<1>1. End(r) => request'[r] = NoRequest /\ \A q \in Requests \ {r} : request'[q] = request[q]
  BY <1>0 DEF End
<1>2. ASSUME NEW u, NEW op, require_permission(r, u, op)
      PROVE  /\ request'[r] = [request[r] EXCEPT !.pc = "allowed", !.op = op]
             /\ \A q \in Requests \ {r} : request'[q] = request[q]
  BY <1>0, <1>2 DEF require_permission
<1>3. ASSUME NEW p \in Policies, _require_policy(r, p)
      PROVE  /\ request'[r] = [request[r] EXCEPT !.pc = "loaded", !.id = p, !.policy = policy[p]]
             /\ \A q \in Requests \ {r} : request'[q] = request[q]
  BY <1>0, <1>3 DEF _require_policy
<1>4. ASSUME NEW c \in Changes, _require_change(r, c)
      PROVE  /\ request'[r] = [request[r] EXCEPT !.pc = "loaded", !.id = c, !.change = change[c]]
             /\ \A q \in Requests \ {r} : request'[q] = request[q]
  BY <1>0, <1>4 DEF _require_change
<1> QED BY <1>1, <1>2, <1>3, <1>4

-----------------------------------------------------------------------------
(* Change records                                                           *)

\* What ChangeInv says of one request.
LoadedChange(k) ==
  k.pc = "loaded" /\ k.op \in { "update_change", "transition_change" } =>
    /\ k.id \in Changes
    /\ k.change.status \in DOMAIN CHANGE_TRANSITIONS
    /\ WellScheduled(k.change)
    /\ change[k.id].status # "NONE"
    /\ k.change.start # 0 => change[k.id].start # 0

\* Rows that are well scheduled and keep their window, and requests that stay or end.
LEMMA ScheduleKept ==
  ASSUME TypeOK, ChangeInv,
         \A c \in Changes : /\ WellScheduled(change'[c])
                            /\ change[c].status # "NONE" => change'[c].status # "NONE"
                            /\ change[c].start # 0 => change'[c].start # 0,
         \A r \in Requests : \/ request'[r] = request[r]
                             \/ request'[r].pc # "loaded"
                             \/ request'[r].op \notin { "update_change", "transition_change" }
  PROVE  ChangeInv'
PROOF
<1>1. \A r \in Requests : LoadedChange(request[r])
  BY DEF ChangeInv, LoadedChange
<1>2. ASSUME NEW r \in Requests, request'[r].pc = "loaded",
             request'[r].op \in { "update_change", "transition_change" }
      PROVE  /\ request'[r].id \in Changes
             /\ request'[r].change.status \in DOMAIN CHANGE_TRANSITIONS
             /\ WellScheduled(request'[r].change)
             /\ change'[request'[r].id].status # "NONE"
             /\ request'[r].change.start # 0 => change'[request'[r].id].start # 0
  <2>1. request'[r] = request[r]
    BY <1>2
  <2>2. LoadedChange(request[r])
    BY <1>1
  <2> QED BY <1>2, <2>1, <2>2 DEF LoadedChange
<1> QED BY <1>2 DEF ChangeInv, WellScheduled

\* However transitions race, a record that is under way has its window.
LEMMA ScheduleStep ==
  ASSUME TypeOK, ChangeInv, [Next]_vars
  PROVE  ChangeInv'
PROOF
<1>0. /\ change \in [Changes -> ChangeRows] /\ request \in [Requests -> RequestRecords]
      /\ \A c \in Changes : WellScheduled(change[c]) /\ change[c] \in ChangeRows
      /\ \A r \in Requests : LoadedChange(request[r]) /\ request[r] \in RequestRecords
  BY DEF TypeOK, ChangeInv, RequestRecords, LoadedChange
<1>a. ASSUME UNCHANGED change, NEW r \in Requests, \A q \in Requests \ {r} : request'[q] = request[q],
             request'[r].pc # "loaded" \/ request'[r].op \notin { "update_change", "transition_change" }
      PROVE  ChangeInv'
  BY <1>0, <1>a, ScheduleKept
<1>b. NoRequest.pc = "idle"
  BY DEF NoRequest
<1>1. ASSUME NEW r \in Requests, NEW u \in Users, NEW op \in PolicyOps \cup ChangeOps, require_permission(r, u, op)
      PROVE  ChangeInv'
  <2>0. /\ request'[r] = [request[r] EXCEPT !.pc = "allowed", !.op = op]
        /\ \A q \in Requests \ {r} : request'[q] = request[q]
    BY <1>1, OtherRequests
  <2>1. request'[r].pc = "allowed" /\ \A q \in Requests \ {r} : request'[q] = request[q]
    BY <1>0, <2>0 DEF RequestRecords
  <2> QED BY <1>a, <1>1, <2>1 DEF require_permission
<1>2. ASSUME NEW r \in Requests, End(r), UNCHANGED change PROVE ChangeInv'
  BY <1>a, <1>b, <1>2, OtherRequests
<1>3. ASSUME NEW r \in Requests, NEW p \in Policies, _require_policy(r, p) PROVE ChangeInv'
  <2>1. request'[r].op \in { "update_policy", "delete_policy" } /\ \A q \in Requests \ {r} : request'[q] = request[q]
    <3>1. /\ request'[r] = [request[r] EXCEPT !.pc = "loaded", !.id = p, !.policy = policy[p]]
          /\ \A q \in Requests \ {r} : request'[q] = request[q]
      BY <1>3, OtherRequests
    <3>2. request[r].op \in { "update_policy", "delete_policy" } /\ request[r] \in RequestRecords
      BY <1>0, <1>3 DEF _require_policy
    <3> QED BY <3>1, <3>2 DEF RequestRecords
  <2> QED BY <1>a, <1>3, <2>1 DEF _require_policy
<1>4. ASSUME NEW r \in Requests, NEW c \in Changes, _require_change(r, c) PROVE ChangeInv'
  <2>1. /\ request'[r].id = c /\ request'[r].change = change[c] /\ UNCHANGED change
        /\ \A q \in Requests \ {r} : request'[q] = request[q]
    <3>1. /\ request'[r] = [request[r] EXCEPT !.pc = "loaded", !.id = c, !.change = change[c]]
          /\ \A q \in Requests \ {r} : request'[q] = request[q]
      BY <1>4, OtherRequests
    <3>2. request[r] \in RequestRecords /\ UNCHANGED change
      BY <1>0, <1>4 DEF _require_change
    <3> QED BY <3>1, <3>2 DEF RequestRecords
  <2>2. change[c].status \in DOMAIN CHANGE_TRANSITIONS
    <3>1. CASE change[c].status # "NONE"
      BY <1>0, <3>1 DEF ChangeRows
    <3>2. CASE change[c].status = "NONE"
      BY <1>0, <1>4, <3>2 DEF _require_change, WellScheduled
    <3> QED BY <3>1, <3>2
  <2> QED BY <1>0, <2>1, <2>2 DEF ChangeInv, LoadedChange, WellScheduled, CHANGE_TRANSITIONS
<1>5. ASSUME NEW r \in Requests, NEW risk \in ChangeRisks, create_change(r, risk) PROVE ChangeInv'
  <2>1. PICK c \in Changes : /\ change[c] = NoChange
                             /\ change' = [change EXCEPT ![c] = [NoChange EXCEPT !.status = "DRAFT", !.risk = risk]]
    BY <1>5 DEF create_change
  <2>2. /\ change'[c].status = "DRAFT" /\ change'[c].start = 0 /\ change'[c].end = 0 /\ change[c].start = 0
        /\ \A d \in Changes \ {c} : change'[d] = change[d]
    BY <1>0, <2>1 DEF NoChange
  <2>3. \A d \in Changes : /\ WellScheduled(change'[d])
                           /\ change[d].status # "NONE" => change'[d].status # "NONE"
                           /\ change[d].start # 0 => change'[d].start # 0
    BY <1>0, <2>2 DEF WellScheduled
  <2> QED BY <1>b, <1>5, <2>3, OtherRequests, ScheduleKept DEF create_change
<1>6. ASSUME NEW r \in Requests, NEW risk \in ChangeRisks, update_change(r, risk) PROVE ChangeInv'
  <2>0. request[r].id \in Changes /\ change[request[r].id].status # "NONE"
    BY <1>0, <1>6 DEF update_change, LoadedChange
  <2>1. \A d \in Changes : /\ change'[d].status = change[d].status
                           /\ change'[d].start = change[d].start /\ change'[d].end = change[d].end
                           /\ d # request[r].id => change'[d] = change[d]
    BY <1>0, <1>6, <2>0 DEF update_change, ChangeRows
  <2>2. \A d \in Changes : WellScheduled(change'[d])
    BY <1>0, <2>0, <2>1 DEF WellScheduled, NoChange
  <2> QED BY <1>b, <1>6, <2>1, <2>2, OtherRequests, ScheduleKept DEF update_change
<1>7. ASSUME NEW r \in Requests, NEW status \in DOMAIN CHANGE_TRANSITIONS, NEW start \in Instants,
             NEW end \in Instants, transition_change(r, status, start, end)
      PROVE  ChangeInv'
  <2> DEFINE k == request[r].change
             c == request[r].id
             s == IF start # 0 THEN start ELSE k.start
             e == IF end # 0 THEN end ELSE k.end
  <2>1. /\ c \in Changes /\ k.status \in DOMAIN CHANGE_TRANSITIONS /\ WellScheduled(k) /\ k \in ChangeRows
        /\ change[c].status # "NONE" /\ (k.start # 0 => change[c].start # 0)
    BY <1>0, <1>7 DEF LoadedChange, transition_change, RequestRecords
  <2>2. /\ status \in CHANGE_TRANSITIONS[k.status]
        /\ start # 0 \/ end # 0 => k.status = "DRAFT" /\ status = "SCHEDULED"
        /\ status = "SCHEDULED" => WindowRequired(s, e)
        /\ change' = [change EXCEPT ![c].status = Written(status, k.status, @),
                                    ![c].start = Written(s, k.start, @),
                                    ![c].end = Written(e, k.end, @)]
    BY <1>7 DEF transition_change
  <2>3. status # k.status /\ status # "NONE" /\ status # "DRAFT" /\ (status = "SCHEDULED" => k.status = "DRAFT")
    BY <2>1, <2>2 DEF CHANGE_TRANSITIONS
  <2>4. /\ change'[c].status = status
        /\ change'[c].start = (IF s # k.start THEN s ELSE change[c].start)
        /\ change'[c].end = (IF e # k.end THEN e ELSE change[c].end)
        /\ \A d \in Changes \ {c} : change'[d] = change[d]
    <3> HIDE DEF s, e, k
    <3> QED BY <1>0, <2>1, <2>2, <2>3 DEF Written, ChangeRows
  <2>5. WellScheduled(change'[c]) /\ change'[c].status # "NONE" /\ (change[c].start # 0 => change'[c].start # 0)
    <3>1. CASE status = "SCHEDULED"
      <4>1. k.start = 0 /\ k.end = 0
        BY <2>1, <2>3, <3>1 DEF WellScheduled, NoChange
      <4>2. s # 0 /\ e # 0 /\ s < e
        BY <2>2, <3>1 DEF WindowRequired
      <4>3. change'[c].start = s /\ change'[c].end = e
        BY <2>4, <4>1, <4>2
      <4> QED BY <2>3, <2>4, <3>1, <4>2, <4>3 DEF WellScheduled
    <3>2. CASE status # "SCHEDULED"
      <4>1. s = k.start /\ e = k.end
        BY <2>2, <3>2
      <4>2. change'[c].start = change[c].start /\ change'[c].end = change[c].end
        BY <2>4, <4>1
      <4>3. CASE k.start # 0
        <5>1. change[c].start # 0 /\ change[c].start < change[c].end
          BY <1>0, <2>1, <4>3 DEF WellScheduled, NoChange
        <5> QED BY <2>3, <2>4, <4>2, <5>1 DEF WellScheduled
      <4>4. CASE k.start = 0
        <5>1. status = "CANCELLED"
          BY <2>1, <2>2, <3>2, <4>4 DEF WellScheduled, NoChange, CHANGE_TRANSITIONS
        <5>2. WellScheduled(change[c])
          BY <1>0, <2>1
        <5> QED BY <2>1, <2>4, <4>2, <5>1, <5>2 DEF WellScheduled, NoChange
      <4> QED BY <4>3, <4>4
    <3> QED BY <3>1, <3>2
  <2>6. \A d \in Changes : /\ WellScheduled(change'[d])
                           /\ change[d].status # "NONE" => change'[d].status # "NONE"
                           /\ change[d].start # 0 => change'[d].start # 0
    <3> HIDE DEF c
    <3> QED BY <1>0, <2>4, <2>5
  <2> QED BY <1>b, <1>7, <2>6, OtherRequests, ScheduleKept DEF transition_change
<1>8. CASE UNCHANGED vars
  BY <1>0, <1>8, ScheduleKept DEF vars
<1> QED BY <1>1, <1>2, <1>3, <1>4, <1>5, <1>6, <1>7, <1>8
    DEF Next, PolicyStep, ChangeStep, Refused, create_policy, update_policy, delete_policy

-----------------------------------------------------------------------------
(* Policies                                                                 *)

\* What PolicyInv says of one request.
LoadedPolicy(k) ==
  /\ _validate_conditions(k.policy.conditions)
  /\ k.pc = "loaded" /\ k.op \in { "update_policy", "delete_policy" } => k.id \in Policies /\ k.policy # NoPolicy

\* PolicyInv, row by row and request by request.
LEMMA PolicyInvParts ==
  PolicyInv <=> /\ \A p \in Policies : _validate_conditions(policy[p].conditions)
                /\ \A r \in Requests : LoadedPolicy(request[r])
BY DEF PolicyInv, LoadedPolicy

\* Frames: which table an operation leaves alone, and that it ends its request.
LEMMA Frames ==
  ASSUME NEW r \in Requests
  PROVE  /\ Refused(r) => End(r) /\ UNCHANGED policy /\ UNCHANGED change
         /\ \A risk : create_change(r, risk) =>
              End(r) /\ UNCHANGED policy /\ request[r].op = "create_change"
         /\ \A risk : update_change(r, risk) =>
              End(r) /\ UNCHANGED policy /\ request[r].op = "update_change"
         /\ \A status, start, end : transition_change(r, status, start, end) =>
              End(r) /\ UNCHANGED policy /\ request[r].op = "transition_change"
         /\ \A permission, conditions, enabled : create_policy(r, permission, conditions, enabled) =>
              End(r) /\ UNCHANGED change /\ request[r].op = "create_policy"
         /\ \A permission, conditions, enabled : update_policy(r, permission, conditions, enabled) =>
              End(r) /\ UNCHANGED change /\ request[r].op = "update_policy"
         /\ delete_policy(r) => End(r) /\ UNCHANGED change /\ request[r].op = "delete_policy"
         /\ \A u, op : require_permission(r, u, op) => UNCHANGED policy /\ UNCHANGED change
         /\ \A p : _require_policy(r, p) => UNCHANGED policy /\ UNCHANGED change
         /\ \A c : _require_change(r, c) => UNCHANGED policy /\ UNCHANGED change
PROOF
<1>1. Refused(r) => End(r) /\ UNCHANGED policy /\ UNCHANGED change
  BY DEF Refused
<1>2. \A risk : create_change(r, risk) => End(r) /\ UNCHANGED policy /\ request[r].op = "create_change"
  BY Zenon DEF create_change
<1>3. \A risk : update_change(r, risk) => End(r) /\ UNCHANGED policy /\ request[r].op = "update_change"
  BY Zenon DEF update_change
<1>4. \A status, start, end : transition_change(r, status, start, end) =>
        End(r) /\ UNCHANGED policy /\ request[r].op = "transition_change"
  BY Zenon DEF transition_change
<1>5. \A permission, conditions, enabled : create_policy(r, permission, conditions, enabled) =>
        End(r) /\ UNCHANGED change /\ request[r].op = "create_policy"
  BY Zenon DEF create_policy
<1>6. \A permission, conditions, enabled : update_policy(r, permission, conditions, enabled) =>
        End(r) /\ UNCHANGED change /\ request[r].op = "update_policy"
  BY Zenon DEF update_policy
<1>7. delete_policy(r) => End(r) /\ UNCHANGED change /\ request[r].op = "delete_policy"
  BY Zenon DEF delete_policy
<1>8. \A u, op : require_permission(r, u, op) => UNCHANGED policy /\ UNCHANGED change
  BY DEF require_permission
<1>9. \A p : _require_policy(r, p) => UNCHANGED policy /\ UNCHANGED change
  BY DEF _require_policy
<1>10. \A c : _require_change(r, c) => UNCHANGED policy /\ UNCHANGED change
  BY DEF _require_change
<1> QED BY <1>1, <1>2, <1>3, <1>4, <1>5, <1>6, <1>7, <1>8, <1>9, <1>10

\* Whatever is stored passed the validation, also when updates of a policy race.
LEMMA ValidationStep ==
  ASSUME TypeOK, PolicyInv, [Next]_vars
  PROVE  PolicyInv'
PROOF
<1>0. /\ policy \in [Policies -> PolicyRows] /\ request \in [Requests -> RequestRecords]
      /\ \A r \in Requests : LoadedPolicy(request[r]) /\ request[r] \in RequestRecords
      /\ \A p \in Policies : _validate_conditions(policy[p].conditions)
  BY PolicyInvParts DEF TypeOK, RequestRecords
<1>a. ASSUME NEW r \in Requests, \A q \in Requests \ {r} : request'[q] = request[q], LoadedPolicy(request'[r]),
             \A p \in Policies : _validate_conditions(policy'[p].conditions)
      PROVE  PolicyInv'
  <2>1. \A q \in Requests : LoadedPolicy(request'[q])
    BY <1>0, <1>a
  <2> QED BY <1>a, <2>1 DEF PolicyInv, LoadedPolicy, _validate_conditions
<1>b. LoadedPolicy(NoRequest)
  BY EmptyIsValid DEF NoRequest, LoadedPolicy
<1>1. ASSUME NEW r \in Requests, NEW u \in Users, NEW op \in PolicyOps \cup ChangeOps, require_permission(r, u, op)
      PROVE  PolicyInv'
  <2>1. /\ request'[r] = [request[r] EXCEPT !.pc = "allowed", !.op = op]
        /\ \A q \in Requests \ {r} : request'[q] = request[q]
    BY <1>1, OtherRequests
  <2>2. request'[r].pc = "allowed" /\ request'[r].policy = request[r].policy
    BY <1>0, <2>1 DEF RequestRecords
  <2>3. LoadedPolicy(request'[r])
    BY <1>0, <2>2 DEF LoadedPolicy
  <2> QED BY <1>0, <1>a, <1>1, <2>1, <2>3 DEF require_permission
<1>2. ASSUME NEW r \in Requests, End(r), \A p \in Policies : _validate_conditions(policy'[p].conditions)
      PROVE  PolicyInv'
  BY <1>a, <1>b, <1>2, OtherRequests
<1>3. ASSUME NEW r \in Requests, NEW p \in Policies, _require_policy(r, p) PROVE PolicyInv'
  <2>1. /\ request'[r] = [request[r] EXCEPT !.pc = "loaded", !.id = p, !.policy = policy[p]]
        /\ \A q \in Requests \ {r} : request'[q] = request[q]
    BY <1>3, OtherRequests
  <2>2. request'[r].id = p /\ request'[r].policy = policy[p]
    BY <1>0, <2>1 DEF RequestRecords
  <2>3. LoadedPolicy(request'[r])
    BY <1>0, <1>3, <2>2 DEF LoadedPolicy, _require_policy
  <2> QED BY <1>0, <1>a, <1>3, <2>1, <2>3 DEF _require_policy
<1>4. ASSUME NEW r \in Requests, NEW c \in Changes, _require_change(r, c) PROVE PolicyInv'
  <2>1. /\ request'[r] = [request[r] EXCEPT !.pc = "loaded", !.id = c, !.change = change[c]]
        /\ \A q \in Requests \ {r} : request'[q] = request[q]
    BY <1>4, OtherRequests
  <2>2. request'[r].op = request[r].op /\ request'[r].policy = request[r].policy
    BY <1>0, <2>1 DEF RequestRecords
  <2>3. LoadedPolicy(request'[r])
    BY <1>0, <1>4, <2>2 DEF LoadedPolicy, _require_change
  <2> QED BY <1>0, <1>a, <1>4, <2>1, <2>3 DEF _require_change
<1>5. ASSUME NEW r \in Requests, NEW permission \in ALL_PERMISSIONS, NEW conditions \in Payloads,
             NEW enabled \in BOOLEAN, create_policy(r, permission, conditions, enabled)
      PROVE  PolicyInv'
  <2>1. PICK p \in Policies : policy' = [policy EXCEPT ![p] = [permission |-> permission, conditions |-> conditions,
                                                               enabled |-> enabled]]
    BY <1>5 DEF create_policy
  <2>2. policy'[p].conditions = conditions /\ \A q \in Policies \ {p} : policy'[q] = policy[q]
    BY <1>0, <2>1
  <2>3. \A q \in Policies : _validate_conditions(policy'[q].conditions)
    BY <1>0, <1>5, <2>2 DEF create_policy
  <2> QED BY <1>2, <1>5, <2>3 DEF create_policy
<1>6. ASSUME NEW r \in Requests, NEW permission \in ALL_PERMISSIONS \cup {request[r].policy.permission},
             NEW conditions \in Payloads \cup {request[r].policy.conditions}, NEW enabled \in BOOLEAN,
             update_policy(r, permission, conditions, enabled)
      PROVE  PolicyInv'
  <2> DEFINE k == request[r]
             new == Written(conditions, k.policy.conditions, policy[k.id].conditions)
  <2>1. k.id \in Policies
    BY <1>0, <1>6 DEF LoadedPolicy, update_policy
  <2>2. policy'[k.id].conditions = new /\ \A q \in Policies \ {k.id} : policy'[q] = policy[q]
    BY <1>0, <1>6, <2>1 DEF update_policy
  <2>3. _validate_conditions(new)
    <3>1. conditions # k.policy.conditions => _validate_conditions(conditions)
      BY <1>6 DEF update_policy
    <3> QED BY <1>0, <2>1, <3>1 DEF Written
  <2> HIDE DEF new
  <2>4. \A q \in Policies : _validate_conditions(policy'[q].conditions)
    BY <1>0, <2>1, <2>2, <2>3
  <2> QED BY <1>2, <1>6, <2>4 DEF update_policy
<1>7. ASSUME NEW r \in Requests, delete_policy(r) PROVE PolicyInv'
  <2>1. policy' = [policy EXCEPT ![request[r].id] = NoPolicy]
    BY <1>7 DEF delete_policy
  <2>2. \A q \in Policies : policy'[q] \in { policy[q], NoPolicy }
    BY <1>0, <2>1
  <2>3. \A q \in Policies : _validate_conditions(policy'[q].conditions)
    BY <1>0, <2>2, EmptyIsValid
  <2> QED BY <1>2, <1>7, <2>3 DEF delete_policy
<1>8. ASSUME NEW r \in Requests, End(r), UNCHANGED policy PROVE PolicyInv'
  BY <1>0, <1>2, <1>8
<1>9. CASE UNCHANGED vars
  BY <1>9 DEF vars, PolicyInv, _validate_conditions
<1>10. ASSUME NEW r \in Requests, PolicyStep(r) PROVE PolicyInv'
  BY <1>3, <1>5, <1>6, <1>7, <1>10 DEF PolicyStep
<1>11. ASSUME NEW r \in Requests, ChangeStep(r) PROVE PolicyInv'
  BY <1>4, <1>8, <1>11, Frames DEF ChangeStep
<1>12. ASSUME NEW r \in Requests, Refused(r) PROVE PolicyInv'
  BY <1>8, <1>12, Frames
<1> QED BY <1>1, <1>9, <1>10, <1>11, <1>12 DEF Next

\* A policy that always applies refuses whoever needs its permission.
LEMMA FreezeRefuses ==
  ASSUME NEW p \in Policies, policy[p].enabled, policy[p].conditions = [always |-> TRUE],
         NEW u, NEW now
  PROVE  ~evaluate(u, policy[p].permission, now)
PROOF
<1>1. DOMAIN [always |-> TRUE] = { "always" }
  OBVIOUS
<1>2. _conditions_match(policy[p].conditions, RolesOf[u], now)
  BY <1>1 DEF _conditions_match, SUPPORTED_CONDITION_KEYS
<1> QED BY <1>2 DEF evaluate, _enabled_deny_policies

\* A freeze is not lifted but by its policy, and that of governance.manage not at all.
LEMMA FreezeStep ==
  ASSUME TypeOK, [Next]_vars
  PROVE  /\ Frozen(PolicyOps) => Frozen(PolicyOps)' /\ UNCHANGED policy
         /\ Frozen(ChangeOps) => /\ UNCHANGED change
                                 /\ \A r \in Requests : request'[r].op \notin ChangeOps
PROOF
<1>0. request \in [Requests -> RequestRecords] /\ NoRequest.op = "none"
  BY DEF TypeOK, RequestRecords, NoRequest
<1>1. (\A op \in PolicyOps : Needs(op) = "governance.manage") /\ (\A op \in ChangeOps : Needs(op) = "change.manage")
  BY DEF Needs, PolicyOps, ChangeOps
<1>2. ASSUME NEW ops \in { PolicyOps, ChangeOps }, Frozen(ops), NEW r \in Requests, NEW u \in Users,
             NEW op \in ops, require_permission(r, u, op)
      PROVE  FALSE
  <2>1. PICK p \in Policies : /\ policy[p].enabled /\ policy[p].permission = Needs(op)
                              /\ policy[p].conditions = [always |-> TRUE]
    BY <1>1, <1>2 DEF Frozen
  <2> QED BY <1>2, <2>1, FreezeRefuses DEF require_permission
<1>3. \A r \in Requests : \/ request'[r].op \in { request[r].op, "none" }
                          \/ \E u \in Users : require_permission(r, u, request'[r].op)
  <2>1. ASSUME NEW r \in Requests, End(r) PROVE \A q \in Requests : request'[q].op \in { request[q].op, "none" }
    BY <1>0, <2>1, OtherRequests
  <2>2. ASSUME NEW r \in Requests, NEW p \in Policies, _require_policy(r, p)
        PROVE  \A q \in Requests : request'[q].op \in { request[q].op, "none" }
    <3>1. /\ request'[r] = [request[r] EXCEPT !.pc = "loaded", !.id = p, !.policy = policy[p]]
          /\ \A q \in Requests \ {r} : request'[q] = request[q]
      BY <2>2, OtherRequests
    <3>2. request'[r].op = request[r].op
      BY <1>0, <3>1 DEF RequestRecords
    <3> QED BY <3>1, <3>2
  <2>3. ASSUME NEW r \in Requests, NEW c \in Changes, _require_change(r, c)
        PROVE  \A q \in Requests : request'[q].op \in { request[q].op, "none" }
    <3>1. /\ request'[r] = [request[r] EXCEPT !.pc = "loaded", !.id = c, !.change = change[c]]
          /\ \A q \in Requests \ {r} : request'[q] = request[q]
      BY <2>3, OtherRequests
    <3>2. request'[r].op = request[r].op
      BY <1>0, <3>1 DEF RequestRecords
    <3> QED BY <3>1, <3>2
  <2>4. ASSUME NEW r \in Requests, NEW u \in Users, NEW op \in PolicyOps \cup ChangeOps, require_permission(r, u, op)
        PROVE  /\ \A q \in Requests \ {r} : request'[q] = request[q]
               /\ require_permission(r, u, request'[r].op)
    <3>1. /\ request'[r] = [request[r] EXCEPT !.pc = "allowed", !.op = op]
          /\ \A q \in Requests \ {r} : request'[q] = request[q]
      BY <2>4, OtherRequests
    <3>2. request'[r].op = op
      BY <1>0, <3>1 DEF RequestRecords
    <3> QED BY <2>4, <3>1, <3>2
  <2>5. CASE UNCHANGED vars
    BY <2>5 DEF vars
  <2>6. ASSUME NEW r \in Requests, PolicyStep(r) PROVE \A q \in Requests : request'[q].op \in { request[q].op, "none" }
    <3>1. End(r) \/ \E p \in Policies : _require_policy(r, p)
      BY <2>6, Frames DEF PolicyStep
    <3> QED BY <2>1, <2>2, <3>1
  <2>7. ASSUME NEW r \in Requests, ChangeStep(r) PROVE \A q \in Requests : request'[q].op \in { request[q].op, "none" }
    <3>1. End(r) \/ \E c \in Changes : _require_change(r, c)
      BY <2>7, Frames DEF ChangeStep
    <3> QED BY <2>1, <2>3, <3>1
  <2>8. ASSUME NEW r \in Requests, Refused(r) PROVE \A q \in Requests : request'[q].op \in { request[q].op, "none" }
    BY <2>1, <2>8, Frames
  <2>9. ASSUME NEW r \in Requests, NEW u \in Users, NEW op \in PolicyOps \cup ChangeOps, require_permission(r, u, op),
               NEW q \in Requests
        PROVE  \/ request'[q].op \in { request[q].op, "none" }
               \/ \E v \in Users : require_permission(q, v, request'[q].op)
    BY <2>4, <2>9
  <2> QED BY <2>5, <2>6, <2>7, <2>8, <2>9 DEF Next
<1>4. "none" \notin PolicyOps /\ "none" \notin ChangeOps
  BY DEF PolicyOps, ChangeOps
<1>5. ASSUME NEW ops \in { PolicyOps, ChangeOps }, Frozen(ops) PROVE \A r \in Requests : request'[r].op \notin ops
  <2>1. \A r \in Requests : request[r].op \notin ops
    BY <1>5 DEF Frozen
  <2> QED BY <1>2, <1>3, <1>4, <1>5, <2>1
<1>6. ASSUME Frozen(PolicyOps) PROVE UNCHANGED policy
  <2>1. \A r \in Requests : request[r].op \notin PolicyOps
    BY <1>6 DEF Frozen
  <2>2. \A r \in Requests : request[r].op \notin { "create_policy", "update_policy", "delete_policy" }
    BY <2>1 DEF PolicyOps
  <2>3. ASSUME NEW r \in Requests, PolicyStep(r) PROVE UNCHANGED policy
    BY <2>2, <2>3, Frames DEF PolicyStep
  <2>4. ASSUME NEW r \in Requests, ChangeStep(r) PROVE UNCHANGED policy
    BY <2>4, Frames DEF ChangeStep
  <2> QED BY <2>3, <2>4, Frames DEF Next, vars
<1>7. ASSUME Frozen(ChangeOps) PROVE UNCHANGED change
  <2>1. \A r \in Requests : request[r].op \notin ChangeOps
    BY <1>7 DEF Frozen
  <2>2. \A r \in Requests : request[r].op \notin { "create_change", "update_change", "transition_change" }
    BY <2>1 DEF ChangeOps
  <2>3. ASSUME NEW r \in Requests, ChangeStep(r) PROVE UNCHANGED change
    BY <2>2, <2>3, Frames DEF ChangeStep
  <2>4. ASSUME NEW r \in Requests, PolicyStep(r) PROVE UNCHANGED change
    BY <2>4, Frames DEF PolicyStep
  <2> QED BY <2>3, <2>4, Frames DEF Next, vars
<1>8. ASSUME Frozen(PolicyOps) PROVE Frozen(PolicyOps)'
  BY <1>5, <1>6, <1>8 DEF Frozen
<1> QED BY <1>5, <1>6, <1>7, <1>8

-----------------------------------------------------------------------------
(* What governance promises                                                 *)

\* The invariant holds at the start and is kept by every step.
LEMMA Invariance == Spec => []GInv
PROOF
<1>1. ASSUME Init PROVE GInv
  <2>1. TypeOK
    BY <1>1, NothingTyped DEF Init, TypeOK, RequestRecords
  <2>2. NoRequest.pc = "idle" /\ NoRequest.policy = NoPolicy /\ WellScheduled(NoChange)
    BY DEF NoRequest, WellScheduled
  <2>3. ChangeInv
    BY <1>1, <2>2 DEF Init, ChangeInv
  <2>4. PolicyInv
    BY <1>1, <2>2, EmptyIsValid DEF Init, PolicyInv
  <2> QED BY <2>1, <2>3, <2>4 DEF GInv
<1>2. ASSUME GInv, [Next]_vars PROVE GInv'
  BY <1>2, TypeStep, ScheduleStep, ValidationStep DEF GInv
<1> QED BY <1>1, <1>2, PTL DEF Spec

\* No change record is under way or completed without its execution window, however many
\* transitions race one another on rows that were loaded without a lock (governance.py,
\* transition_change).
THEOREM ScheduledBeforeProgress == Spec => []WindowBeforeProgress
PROOF
<1>1. GInv => WindowBeforeProgress
  BY DEF GInv, ChangeInv, WellScheduled, NoChange, WindowBeforeProgress
<1> QED BY <1>1, Invariance, PTL

\* A freeze holds for everyone, and one of governance.manage for good: no step of any request
\* that is not under way yet gets past require_permission (dependencies.py).
THEOREM Freeze == Spec => FreezeHolds
PROOF
<1>1. GInv /\ [Next]_vars =>
        [/\ Frozen(PolicyOps) => Frozen(PolicyOps)' /\ UNCHANGED policy
         /\ Frozen(ChangeOps) => /\ UNCHANGED change
                                 /\ \A r \in Requests : request'[r].op \notin ChangeOps]_vars
  BY FreezeStep DEF GInv
<1> QED BY <1>1, Invariance, PTL DEF Spec, FreezeHolds

\* Every stored rule that is not inert refuses a request that RBAC lets through, and a window
\* covers what its clock times say, for every length of the day (governance.py,
\* _validate_permission_name, _validate_conditions; policy_engine.py, _matches_time_window).
THEOREM StoredRulesBite == Spec => []RulesBite
PROOF
<1>1. ASSUME GInv PROVE RulesBite
  <2>1. ASSUME NEW p \in Policies, "time_window" \in DOMAIN policy[p].conditions, NEW now \in Moments
        PROVE  LET window == policy[p].conditions["time_window"]
               IN  _matches_time_window(window, now) <=>
                     /\ now.day \in window.days
                     /\ (now.time - window.start) % DayLength < (window.end - window.start) % DayLength
    <3>1. _validate_conditions(policy[p].conditions)
      BY <1>1 DEF GInv, PolicyInv
    <3>2. /\ policy[p].conditions["time_window"].start \in Clock
          /\ policy[p].conditions["time_window"].end \in Clock
      BY <2>1, <3>1 DEF _validate_conditions
    <3> QED BY <3>2, WindowMatches
  <2>2. WindowsAreCyclic
    BY <2>1 DEF WindowsAreCyclic
  <2>3. ASSUME NEW p \in Policies, ~Inert(policy[p])
        PROVE  \E op \in PolicyOps \cup ChangeOps, roles \in SUBSET DOMAIN ROLE_PERMISSIONS,
                  now \in [day : 1 .. 7, time : Clock] : Refuses(policy[p], op, roles, now)
    <3>1. _validate_conditions(policy[p].conditions)
      BY <1>1 DEF GInv, PolicyInv
    <3> QED BY <2>3, <3>1, ValidRulesRefuse
  <2> QED BY <1>1, <2>2, <2>3 DEF GInv, RulesBite
<1> QED BY <1>1, Invariance, PTL

-----------------------------------------------------------------------------
(* Acceptance runs, ScenarioEvaluation.                                    *)

\* The ticks of a definition's telemetry.
Ticks(d) == Most(total(d), 2)

\* A time is a number of ticks, whichever way it rounds.
LEMMA TicksAreNatural ==
  ASSUME NEW seconds \in Nat, NEW interval \in Nat \ {0}
  PROVE  _ticks(seconds, interval) \in Nat
PROOF
<1>1. seconds \div interval \in Nat
  BY Z3
<1> QED BY <1>1 DEF _ticks

\* The telemetry of a fault has at least one tick for its ramp, and one past its recovery.
LEMMA RampsUp ==
  ASSUME NEW d \in Scenarios
  PROVE  /\ start_tick(d) \in Nat /\ active_ticks(d) \in Nat /\ recovery_ticks(d) \in Nat
         /\ ramp_up(d) \in Nat /\ (d.fault => ramp_up(d) >= 1)
         /\ total(d) \in Nat /\ Ticks(d) \in Nat /\ Ticks(d) >= 2
PROOF
<1>0. /\ d.warmup \in Nat /\ d.duration \in Nat /\ d.recovery \in Nat /\ d.interval \in Nat \ {0}
      /\ d.fault \in BOOLEAN
  BY DefinitionsAreTyped
<1>1. start_tick(d) \in Nat /\ active_ticks(d) \in Nat /\ recovery_ticks(d) \in Nat
  BY <1>0, TicksAreNatural DEF start_tick, active_ticks, recovery_ticks
<1>2. ramp_up(d) \in Nat /\ (d.fault => ramp_up(d) >= 1)
  <2>1. CASE ~d.fault
    BY <2>1 DEF ramp_up
  <2>2. CASE d.fault /\ d.kind = "SINGLE_FAULT"
    BY <2>2 DEF ramp_up
  <2>3. CASE d.fault /\ d.kind # "SINGLE_FAULT"
    BY <1>1, <2>3 DEF ramp_up, Most, Least
  <2> QED BY <1>0, <2>1, <2>2, <2>3
<1>3. total(d) \in Nat
  BY <1>1, <1>2 DEF total
<1> QED BY <1>1, <1>2, <1>3 DEF Ticks, Most

\* A sequence that has every tick, in whatever order and however often.
HasEvery(s, n) ==
  /\ s \in Seq(0..(n - 1))
  /\ Len(s) >= 2
  /\ \A k \in 0..(n - 1) : \E i \in 1..Len(s) : s[i] = k

\* The simulated samples have, and so they do when one is delivered twice.
LEMMA RepeatedHasEvery ==
  ASSUME NEW n \in Nat, n >= 2, NEW s, s = [i \in 1..n |-> i - 1],
         NEW half \in 1..n
  PROVE  HasEvery(s, n) /\ HasEvery(Repeated(s, half), n) /\ Len(s) = n
PROOF
<1>0. PICK T : T = 0..(n - 1)
  OBVIOUS
<1>1. s \in Seq(T) /\ Len(s) = n /\ \A i \in 1..n : s[i] = i - 1 /\ s[i] \in T
  <2>1. s \in [1..n -> T]
    BY <1>0
  <2> QED BY <2>1
<1>2. HasEvery(s, n)
  <2>1. ASSUME NEW k \in T PROVE k + 1 \in 1..n /\ s[k + 1] = k
    BY <1>0, <1>1
  <2> QED BY <1>0, <1>1, <2>1 DEF HasEvery
<1>3. PICK t : t = Repeated(s, half)
  OBVIOUS
<1>4. t = [i \in 1..(n + 1) |-> IF i <= half THEN s[i] ELSE s[i - 1]]
  BY <1>1, <1>3 DEF Repeated
<1>5. t \in Seq(T) /\ Len(t) = n + 1
  <2>1. \A i \in 1..(n + 1) : (i <= half => i \in 1..n) /\ (~(i <= half) => i - 1 \in 1..n)
    OBVIOUS
  <2>2. t \in [1..(n + 1) -> T]
    BY <1>1, <1>4, <2>1
  <2> QED BY <2>2
<1>6. ASSUME NEW k \in T PROVE \E i \in 1..Len(t) : t[i] = k
  <2>1. CASE k < half
    <3>1. PICK i \in 1..n : i = k + 1 /\ i - 1 = k /\ i \in 1..(n + 1) /\ i <= half
      BY <1>0, <2>1
    <3>2. t[i] = s[i] /\ s[i] = k
      BY <1>1, <1>4, <3>1
    <3> QED BY <1>5, <3>1, <3>2
  <2>2. CASE k >= half
    <3>1. PICK i \in 1..(n + 1) : i = k + 2 /\ i - 1 \in 1..n /\ i - 1 - 1 = k /\ ~(i <= half)
      BY <1>0, <2>2
    <3>2. t[i] = s[i - 1] /\ s[i - 1] = k
      BY <1>1, <1>4, <3>1
    <3> QED BY <1>5, <3>1, <3>2
  <2> QED BY <1>0, <2>1, <2>2
<1>7. HasEvery(t, n)
  BY <1>0, <1>5, <1>6 DEF HasEvery
<1> QED BY <1>1, <1>2, <1>3, <1>7

\* Delivering the last two samples in the other order loses none.
LEMMA SwappedHasEvery ==
  ASSUME NEW n \in Nat, NEW s, HasEvery(s, n), NEW m, m = Len(s)
  PROVE  HasEvery([s EXCEPT ![m - 1] = s[m], ![m] = s[m - 1]], n)
PROOF
<1>0. PICK T : T = 0..(n - 1)
  OBVIOUS
<1>1. s \in Seq(T) /\ m \in Nat /\ m >= 2 /\ DOMAIN s = 1..m /\ \A i \in 1..m : s[i] \in T
  <2>1. s \in Seq(T) /\ m >= 2
    BY <1>0 DEF HasEvery
  <2> QED BY <2>1, LenProperties
<1>2. PICK t : t = [s EXCEPT ![m - 1] = s[m], ![m] = s[m - 1]]
  OBVIOUS
<1>3. /\ DOMAIN t = 1..m
      /\ \A i \in 1..m : t[i] = IF i = m THEN s[m - 1] ELSE IF i = m - 1 THEN s[m] ELSE s[i]
  BY <1>1, <1>2
<1>4. t \in [1..m -> T]
  <2>1. t = [i \in 1..m |-> t[i]]
    BY <1>2, <1>3
  <2>2. \A i \in 1..m : t[i] \in T
    BY <1>1, <1>3
  <2> QED BY <2>1, <2>2
<1>5. t \in Seq(T) /\ Len(t) = m
  BY <1>1, <1>4
<1>6. ASSUME NEW k \in T PROVE \E i \in 1..m : t[i] = k
  <2>1. PICK j \in 1..m : s[j] = k
    BY <1>0 DEF HasEvery
  <2>2. CASE j = m
    BY <1>1, <1>3, <2>1, <2>2
  <2>3. CASE j = m - 1
    BY <1>1, <1>3, <2>1, <2>3
  <2>4. CASE j # m /\ j # m - 1
    BY <1>3, <2>1, <2>4
  <2> QED BY <2>2, <2>3, <2>4
<1> QED BY <1>0, <1>1, <1>2, <1>5, <1>6 DEF HasEvery

\* Whatever the input conditioning of ScenarioRunner._samples, every simulated tick is
\* delivered.
LEMMA SamplesHaveEvery ==
  ASSUME NEW d \in Scenarios
  PROVE  HasEvery(_samples(d), Ticks(d))
PROOF
<1>1. PICK n \in Nat : n = Ticks(d) /\ n >= 2
  BY RampsUp
<1>2. PICK s : s = [i \in 1..n |-> i - 1] /\ s = Simulated(d)
  BY <1>1 DEF Simulated, Ticks
<1>3. PICK half \in 1..n : half = n \div 2 + 1
  BY <1>1
<1>4. HasEvery(s, n) /\ HasEvery(Repeated(s, half), n) /\ Len(s) = n
  BY <1>1, <1>2, RepeatedHasEvery
<1>5. PICK dup : /\ dup = IF Duplicates(d) THEN Repeated(s, half) ELSE s
                 /\ HasEvery(dup, n)
  BY <1>4
<1>6. PICK m : m = Len(dup)
  OBVIOUS
<1>7. HasEvery([dup EXCEPT ![m - 1] = dup[m], ![m] = dup[m - 1]], n)
  BY <1>5, <1>6, SwappedHasEvery
<1>8. _samples(d) = IF Swaps(d) THEN [dup EXCEPT ![m - 1] = dup[m], ![m] = dup[m - 1]] ELSE dup
  BY <1>2, <1>3, <1>4, <1>5, <1>6 DEF _samples
<1> QED BY <1>1, <1>5, <1>7, <1>8

\* The harness and its consumer.
HarnessRows ==
  [at : {"idle", "connecting", "publishing", "cutting", "disconnecting", "restoring", "reconnecting",
         "finally", "over", "unprepared"},
   proxy : BOOLEAN, task : BOOLEAN, connected : BOOLEAN, sent : Nat, queued : Nat, rows : Nat,
   cut : BOOLEAN, degraded : BOOLEAN, back : BOOLEAN, recovered : BOOLEAN, failed : BOOLEAN,
   stuck : BOOLEAN]

\* With n samples to ingest beside e earlier rows: any other row was published before, and its half
\* before that; the facts are those of the waits that are over; a clean-up leaves nothing behind.
HarnessRight(m, n, e) ==
  /\ m.rows + m.queued <= m.sent + e
  /\ m.sent <= (IF m.back THEN n ELSE Most(1, n \div 2))
  /\ m.connected => m.task
  /\ m.stuck => m.failed
  /\ m.at \in {"restoring", "reconnecting"} => m.cut /\ m.degraded
  /\ m.back => m.cut /\ m.degraded /\ m.recovered
  /\ m.at \in {"finally", "over"} /\ ~m.failed => m.back /\ m.rows >= n
  /\ m.at = "over" => m.stuck \/ (m.proxy /\ ~m.task)

HarnessInv ==
  /\ mqtt \in HarnessRows
  /\ before.rows \in Nat
  /\ phase = "start" => mqtt.at = "idle"
  /\ mqtt.at = "idle" => mqtt = Idle(mqtt.proxy, before.rows)
  /\ mqtt.at # "idle" => Total \in Nat /\ Total >= 2 /\ HarnessRight(mqtt, Total, before.rows)

\* Between its start and its verdict a run works on the samples of its definition.
SamplesInv ==
  /\ def \in Scenarios
  /\ phase \notin {"start", "done"} => samples = _samples(def)

\* There are samples to ingest when the harness is under way, and it is all right till then.
LEMMA HarnessHolds ==
  ASSUME HarnessInv, SamplesInv, phase = "mqtt"
  PROVE  /\ Total \in Nat /\ Total >= 2 /\ mqtt \in HarnessRows /\ before.rows \in Nat
         /\ HarnessRight(mqtt, Total, before.rows)
         /\ mqtt.at = "idle" => ~mqtt.task /\ ~mqtt.connected
PROOF
<1>1. Total \in Nat /\ Total >= 2
  <2>1. PICK d \in Scenarios : d = def /\ samples = _samples(d)
    BY DEF SamplesInv
  <2>2. samples \in Seq(0..(Ticks(d) - 1)) /\ Len(samples) >= 2
    BY <2>1, SamplesHaveEvery DEF HasEvery
  <2> QED BY <2>2, LenProperties DEF Total
<1>2. CASE mqtt.at = "idle"
  <2>1. PICK x \in BOOLEAN, e \in Nat : mqtt = Idle(x, e) /\ e = before.rows
    BY <1>2 DEF HarnessInv, HarnessRows
  <2>2. PICK n \in Nat : n = Total /\ n >= 2
    BY <1>1
  <2>3. HarnessRight(Idle(x, e), n, e)
    BY <2>2 DEF HarnessRight, Idle, Most
  <2>4. ~mqtt.task /\ ~mqtt.connected
    BY <2>1 DEF Idle
  <2> QED BY <1>1, <2>1, <2>2, <2>3, <2>4 DEF HarnessInv
<1>3. CASE mqtt.at # "idle"
  BY <1>1, <1>3 DEF HarnessInv
<1> QED BY <1>2, <1>3

\* The harness or its consumer takes a step, and nothing else of the run moves.
LEMMA HarnessTaken ==
  ASSUME HarnessInv, SamplesInv, NEW m, Harness(m),
         m \in HarnessRows, m.at # "idle", HarnessRight(m, Total, before.rows)
  PROVE  HarnessInv'
PROOF
<1>1. phase = "mqtt" /\ mqtt' = m /\ UNCHANGED <<before, phase, samples>>
  BY DEF Harness
<1>2. Total \in Nat /\ Total >= 2
  BY <1>1, HarnessHolds
<1> QED BY <1>1, <1>2 DEF HarnessInv, Total

\* A state of the harness that is right.
Right(m, n, e) == m \in HarnessRows /\ m.at # "idle" /\ HarnessRight(m, n, e)

\* What each step of the harness, its consumer and the proxy makes of a state that is right.
LEMMA HarnessMoves ==
  ASSUME NEW m \in HarnessRows, NEW n \in Nat, n >= 2, NEW e \in Nat, HarnessRight(m, n, e)
  PROVE  /\ m.at = "idle" /\ ~m.task =>
              Right([m EXCEPT !.at = "connecting", !.proxy = TRUE, !.task = TRUE], n, e)
         /\ m.at = "idle" /\ ~m.task =>
              \A p \in BOOLEAN : Right([m EXCEPT !.at = "unprepared", !.proxy = p, !.failed = TRUE], n, e)
         /\ m.at = "connecting" =>
              Right([m EXCEPT !.at = "publishing"], n, e)
         /\ m.at = "reconnecting" /\ m.connected =>
              Right([m EXCEPT !.at = "publishing", !.back = m.connected, !.recovered = m.connected], n, e)
         /\ m.at = "publishing" /\ m.sent < (IF m.back THEN n ELSE Most(1, n \div 2)) =>
              Right([m EXCEPT !.sent = @ + 1, !.queued = @ + (IF m.connected THEN 1 ELSE 0)], n, e)
         /\ m.at = "publishing" /\ m.rows >= (IF m.back THEN n ELSE Most(1, n \div 2)) =>
              Right([m EXCEPT !.at = IF m.back THEN "finally" ELSE "cutting"], n, e)
         /\ m.at = "cutting" =>
              Right([m EXCEPT !.at = "disconnecting", !.proxy = FALSE], n, e)
         /\ m.at = "restoring" =>
              Right([m EXCEPT !.at = "reconnecting", !.proxy = TRUE], n, e)
         /\ m.at = "disconnecting" /\ ~m.connected =>
              Right([m EXCEPT !.at = "restoring", !.cut = ~m.connected, !.degraded = ~m.connected], n, e)
         /\ m.at # "idle" =>
              \A p \in BOOLEAN : Right([m EXCEPT !.at = "finally", !.proxy = p, !.failed = TRUE], n, e)
         /\ m.at = "finally" =>
              Right([m EXCEPT !.at = "over", !.proxy = TRUE, !.task = FALSE, !.connected = FALSE, !.queued = 0], n, e)
         /\ m.at = "finally" =>
              \A p \in BOOLEAN :
                Right([m EXCEPT !.at = "over", !.proxy = p, !.failed = TRUE, !.stuck = TRUE], n, e)
         /\ m.at # "idle" /\ m.task =>
              Right([m EXCEPT !.connected = TRUE], n, e)
         /\ m.at # "idle" =>
              Right([m EXCEPT !.connected = FALSE, !.queued = 0], n, e)
         /\ m.at # "idle" /\ m.queued > 0 =>
              Right([m EXCEPT !.queued = @ - 1, !.rows = @ + 0], n, e)
         /\ m.at # "idle" /\ m.queued > 0 =>
              Right([m EXCEPT !.queued = @ - 1, !.rows = @ + 1], n, e)
PROOF
<1>0. PICK h \in Nat : h = Most(1, n \div 2) /\ 1 <= h /\ h <= n
  BY DEF Most
<1>1. m.at = "idle" /\ ~m.task =>
        Right([m EXCEPT !.at = "connecting", !.proxy = TRUE, !.task = TRUE], n, e)
  BY <1>0 DEF Right, HarnessRight, HarnessRows
<1>2. m.at = "idle" /\ ~m.task =>
        \A p \in BOOLEAN : Right([m EXCEPT !.at = "unprepared", !.proxy = p, !.failed = TRUE], n, e)
  BY <1>0 DEF Right, HarnessRight, HarnessRows
<1>3. m.at = "connecting" =>
        Right([m EXCEPT !.at = "publishing"], n, e)
  BY <1>0 DEF Right, HarnessRight, HarnessRows
<1>4. m.at = "reconnecting" /\ m.connected =>
        Right([m EXCEPT !.at = "publishing", !.back = m.connected, !.recovered = m.connected], n, e)
  <2> SUFFICES ASSUME m.at = "reconnecting" /\ m.connected
               PROVE  Right([m EXCEPT !.at = "publishing", !.back = m.connected, !.recovered = m.connected], n, e)
    OBVIOUS
  <2> DEFINE x == [m EXCEPT !.at = "publishing", !.back = m.connected, !.recovered = m.connected]
  <2>1. /\ x.proxy = m.proxy /\ x.task = m.task /\ x.connected = m.connected /\ x.sent = m.sent
        /\ x.queued = m.queued /\ x.rows = m.rows /\ x.cut = m.cut /\ x.degraded = m.degraded
        /\ x.failed = m.failed /\ x.stuck = m.stuck
        /\ x.at = "publishing" /\ x.back = m.connected /\ x.recovered = m.connected
    BY DEF HarnessRows
  <2>2. x \in HarnessRows
    BY DEF HarnessRows
  <2> HIDE DEF x
  <2>3. x \in HarnessRows /\ x.at # "idle"
    BY <2>1, <2>2
  <2>4. HarnessRight(x, n, e)
    BY <1>0, <2>1, <2>2 DEF HarnessRight, HarnessRows
  <2> QED BY <2>3, <2>4 DEF Right, x
<1>5. m.at = "publishing" /\ m.sent < (IF m.back THEN n ELSE Most(1, n \div 2)) =>
        Right([m EXCEPT !.sent = @ + 1, !.queued = @ + (IF m.connected THEN 1 ELSE 0)], n, e)
  <2> SUFFICES ASSUME m.at = "publishing" /\ m.sent < (IF m.back THEN n ELSE Most(1, n \div 2))
               PROVE  Right([m EXCEPT !.sent = @ + 1, !.queued = @ + (IF m.connected THEN 1 ELSE 0)], n, e)
    OBVIOUS
  <2> DEFINE x == [m EXCEPT !.sent = @ + 1, !.queued = @ + (IF m.connected THEN 1 ELSE 0)]
  <2>1. /\ x.at = m.at /\ x.proxy = m.proxy /\ x.task = m.task /\ x.connected = m.connected
        /\ x.rows = m.rows /\ x.cut = m.cut /\ x.degraded = m.degraded /\ x.back = m.back
        /\ x.recovered = m.recovered /\ x.failed = m.failed /\ x.stuck = m.stuck
        /\ x.sent = (m.sent + 1) /\ x.queued = (m.queued + (IF m.connected THEN 1 ELSE 0))
    BY DEF HarnessRows
  <2>2. x \in HarnessRows
    <3>1. m.sent + 1 \in Nat /\ m.queued + (IF m.connected THEN 1 ELSE 0) \in Nat
      BY DEF HarnessRows
    <3> QED BY <3>1 DEF HarnessRows
  <2> HIDE DEF x
  <2>3. x \in HarnessRows /\ x.at # "idle"
    BY <2>1, <2>2
  <2>4. HarnessRight(x, n, e)
    BY <1>0, <2>1, <2>2 DEF HarnessRight, HarnessRows
  <2> QED BY <2>3, <2>4 DEF Right, x
<1>6. m.at = "publishing" /\ m.rows >= (IF m.back THEN n ELSE Most(1, n \div 2)) =>
        Right([m EXCEPT !.at = IF m.back THEN "finally" ELSE "cutting"], n, e)
  BY <1>0 DEF Right, HarnessRight, HarnessRows
<1>7. m.at = "cutting" =>
        Right([m EXCEPT !.at = "disconnecting", !.proxy = FALSE], n, e)
  BY <1>0 DEF Right, HarnessRight, HarnessRows
<1>8. m.at = "restoring" =>
        Right([m EXCEPT !.at = "reconnecting", !.proxy = TRUE], n, e)
  BY <1>0 DEF Right, HarnessRight, HarnessRows
<1>9. m.at = "disconnecting" /\ ~m.connected =>
        Right([m EXCEPT !.at = "restoring", !.cut = ~m.connected, !.degraded = ~m.connected], n, e)
  BY <1>0 DEF Right, HarnessRight, HarnessRows
<1>10. m.at # "idle" =>
        \A p \in BOOLEAN : Right([m EXCEPT !.at = "finally", !.proxy = p, !.failed = TRUE], n, e)
  BY <1>0 DEF Right, HarnessRight, HarnessRows
<1>11. m.at = "finally" =>
        Right([m EXCEPT !.at = "over", !.proxy = TRUE, !.task = FALSE, !.connected = FALSE, !.queued = 0], n, e)
  <2> SUFFICES ASSUME m.at = "finally"
               PROVE  Right([m EXCEPT !.at = "over", !.proxy = TRUE, !.task = FALSE, !.connected = FALSE, !.queued = 0], n, e)
    OBVIOUS
  <2> DEFINE x == [m EXCEPT !.at = "over", !.proxy = TRUE, !.task = FALSE, !.connected = FALSE, !.queued = 0]
  <2>1. /\ x.sent = m.sent /\ x.rows = m.rows /\ x.cut = m.cut /\ x.degraded = m.degraded
        /\ x.back = m.back /\ x.recovered = m.recovered /\ x.failed = m.failed /\ x.stuck = m.stuck
        /\ x.at = "over" /\ x.proxy = TRUE /\ x.task = FALSE /\ x.connected = FALSE /\ x.queued = 0
    BY DEF HarnessRows
  <2>2. x \in HarnessRows
    BY DEF HarnessRows
  <2> HIDE DEF x
  <2>3. x \in HarnessRows /\ x.at # "idle"
    BY <2>1, <2>2
  <2>4. HarnessRight(x, n, e)
    BY <1>0, <2>1, <2>2 DEF HarnessRight, HarnessRows
  <2> QED BY <2>3, <2>4 DEF Right, x
<1>12. m.at = "finally" =>
        \A p \in BOOLEAN : Right([m EXCEPT !.at = "over", !.proxy = p, !.failed = TRUE, !.stuck = TRUE], n, e)
  BY <1>0 DEF Right, HarnessRight, HarnessRows
<1>13. m.at # "idle" /\ m.task =>
        Right([m EXCEPT !.connected = TRUE], n, e)
  BY <1>0 DEF Right, HarnessRight, HarnessRows
<1>14. m.at # "idle" =>
        Right([m EXCEPT !.connected = FALSE, !.queued = 0], n, e)
  <2> SUFFICES ASSUME m.at # "idle"
               PROVE  Right([m EXCEPT !.connected = FALSE, !.queued = 0], n, e)
    OBVIOUS
  <2> DEFINE x == [m EXCEPT !.connected = FALSE, !.queued = 0]
  <2>1. /\ x.at = m.at /\ x.proxy = m.proxy /\ x.task = m.task /\ x.sent = m.sent
        /\ x.rows = m.rows /\ x.cut = m.cut /\ x.degraded = m.degraded /\ x.back = m.back
        /\ x.recovered = m.recovered /\ x.failed = m.failed /\ x.stuck = m.stuck
        /\ x.connected = FALSE /\ x.queued = 0
    BY DEF HarnessRows
  <2>2. x \in HarnessRows
    BY DEF HarnessRows
  <2> HIDE DEF x
  <2>3. x \in HarnessRows /\ x.at # "idle"
    BY <2>1, <2>2
  <2>4. HarnessRight(x, n, e)
    BY <1>0, <2>1, <2>2 DEF HarnessRight, HarnessRows
  <2> QED BY <2>3, <2>4 DEF Right, x
<1>15. m.at # "idle" /\ m.queued > 0 =>
        Right([m EXCEPT !.queued = @ - 1, !.rows = @ + 0], n, e)
  <2> SUFFICES ASSUME m.at # "idle" /\ m.queued > 0
               PROVE  Right([m EXCEPT !.queued = @ - 1, !.rows = @ + 0], n, e)
    OBVIOUS
  <2> DEFINE x == [m EXCEPT !.queued = @ - 1, !.rows = @ + 0]
  <2>1. /\ x.at = m.at /\ x.proxy = m.proxy /\ x.task = m.task /\ x.connected = m.connected
        /\ x.sent = m.sent /\ x.cut = m.cut /\ x.degraded = m.degraded /\ x.back = m.back
        /\ x.recovered = m.recovered /\ x.failed = m.failed /\ x.stuck = m.stuck
        /\ x.queued = (m.queued - 1) /\ x.rows = (m.rows + 0)
    BY DEF HarnessRows
  <2>2. x \in HarnessRows
    <3>1. m.queued - 1 \in Nat /\ m.rows + 0 \in Nat
      BY DEF HarnessRows
    <3> QED BY <3>1 DEF HarnessRows
  <2> HIDE DEF x
  <2>3. x \in HarnessRows /\ x.at # "idle"
    BY <2>1, <2>2
  <2>4. HarnessRight(x, n, e)
    BY <1>0, <2>1, <2>2 DEF HarnessRight, HarnessRows
  <2> QED BY <2>3, <2>4 DEF Right, x
<1>16. m.at # "idle" /\ m.queued > 0 =>
        Right([m EXCEPT !.queued = @ - 1, !.rows = @ + 1], n, e)
  <2> SUFFICES ASSUME m.at # "idle" /\ m.queued > 0
               PROVE  Right([m EXCEPT !.queued = @ - 1, !.rows = @ + 1], n, e)
    OBVIOUS
  <2> DEFINE x == [m EXCEPT !.queued = @ - 1, !.rows = @ + 1]
  <2>1. /\ x.at = m.at /\ x.proxy = m.proxy /\ x.task = m.task /\ x.connected = m.connected
        /\ x.sent = m.sent /\ x.cut = m.cut /\ x.degraded = m.degraded /\ x.back = m.back
        /\ x.recovered = m.recovered /\ x.failed = m.failed /\ x.stuck = m.stuck
        /\ x.queued = (m.queued - 1) /\ x.rows = (m.rows + 1)
    BY DEF HarnessRows
  <2>2. x \in HarnessRows
    <3>1. m.queued - 1 \in Nat /\ m.rows + 1 \in Nat
      BY DEF HarnessRows
    <3> QED BY <3>1 DEF HarnessRows
  <2> HIDE DEF x
  <2>3. x \in HarnessRows /\ x.at # "idle"
    BY <2>1, <2>2
  <2>4. HarnessRight(x, n, e)
    BY <1>0, <2>1, <2>2 DEF HarnessRight, HarnessRows
  <2> QED BY <2>3, <2>4 DEF Right, x
<1> QED BY <1>1, <1>2, <1>3, <1>4, <1>5, <1>6, <1>7, <1>8, <1>9, <1>10, <1>11, <1>12, <1>13, <1>14, <1>15,
           <1>16

\* Every step of the harness, its consumer and the proxy leads to a state that is right.
LEMMA HarnessActs ==
  ASSUME HarnessInv, SamplesInv,
         \/ PrepareProxy \/ WaitConnected \/ Publish \/ _wait_for_count \/ _set_proxy_enabled
         \/ WaitDisconnected \/ HarnessRaises \/ Finally
         \/ Connect \/ Disconnect \/ Consume
  PROVE  \E x : Harness(x) /\ Right(x, Total, before.rows)
PROOF
<1>0. \A row \in 0..1 : row = 0 \/ row = 1
  OBVIOUS
<1>1. phase = "mqtt"
  BY DEF PrepareProxy, WaitConnected, Publish, _wait_for_count, _set_proxy_enabled,
     WaitDisconnected, HarnessRaises, Finally, Connect, Disconnect, Consume, Harness
<1>2. PICK m \in HarnessRows : m = mqtt
  BY DEF HarnessInv
<1>3. PICK n \in Nat : n = Total /\ n >= 2
  BY <1>1, HarnessHolds
<1>4. PICK e \in Nat : e = before.rows
  BY <1>1, HarnessHolds
<1>16. HarnessRight(m, n, e) /\ (m.at = "idle" => ~m.task /\ ~m.connected)
  BY <1>1, <1>2, <1>3, <1>4, HarnessHolds
<1>17. m.proxy \in BOOLEAN
  BY <1>2 DEF HarnessRows
<1> USE <1>2, <1>3, <1>4, <1>16, <1>17, HarnessMoves
<1>5. CASE PrepareProxy
  BY <1>5 DEF PrepareProxy
<1>6. CASE WaitConnected
  BY <1>6 DEF WaitConnected
<1>7. CASE Publish
  BY <1>7 DEF Publish, Goal, Split
<1>8. CASE _wait_for_count
  BY <1>8 DEF _wait_for_count, Goal, Split
<1>9. CASE _set_proxy_enabled
  BY <1>9 DEF _set_proxy_enabled
<1>10. CASE WaitDisconnected
  BY <1>10 DEF WaitDisconnected
<1>11. CASE HarnessRaises
  BY <1>11 DEF HarnessRaises
<1>12. CASE Finally
  BY <1>12 DEF Finally
<1>13. CASE Connect
  BY <1>13 DEF Connect
<1>14. CASE Disconnect
  BY <1>14 DEF Disconnect, HarnessRight
<1>15. CASE Consume
  <2>1. PICK row \in 0..1 : Harness([m EXCEPT !.queued = @ - 1, !.rows = @ + row])
    BY <1>15 DEF Consume
  <2>2. m.at # "idle" /\ m.queued > 0
    BY <1>15 DEF Consume
  <2>3. row = 0 \/ row = 1
    BY <1>0
  <2> QED BY <2>1, <2>2, <2>3
<1> QED BY <1>5, <1>6, <1>7, <1>8, <1>9, <1>10, <1>11, <1>12, <1>13, <1>14, <1>15

\* Every step of a run keeps the account of the harness.
LEMMA HarnessStep ==
  ASSUME HarnessInv, SamplesInv, [ScenarioNext]_scenario_vars
  PROVE  HarnessInv'
PROOF
<1>1. CASE Begin
  <2>1. UNCHANGED <<mqtt, before>> /\ mqtt.at = "idle" /\ phase' # "start"
    BY <1>1 DEF Begin, HarnessInv
  <2> QED BY <2>1 DEF HarnessInv
<1>2. CASE _ingest \/ Retrieve \/ Govern \/ Workflow \/ Evaluate \/ EnvironmentLost
  <2>1. UNCHANGED <<mqtt, before, samples>> /\ phase' # "start"
    BY <1>2 DEF _ingest, Retrieve, Govern, Workflow, Evaluate, EnvironmentLost, Report
  <2> QED BY <2>1 DEF HarnessInv, Total
<1>3. CASE \/ PrepareProxy \/ WaitConnected \/ Publish \/ _wait_for_count \/ _set_proxy_enabled
           \/ WaitDisconnected \/ HarnessRaises \/ Finally
           \/ Connect \/ Disconnect \/ Consume
  BY <1>3, HarnessActs, HarnessTaken DEF Right
<1>4. CASE UNCHANGED scenario_vars
  BY <1>4 DEF scenario_vars, HarnessInv, Total
<1> QED BY <1>1, <1>2, <1>3, <1>4 DEF ScenarioNext

\* The samples are generated once, before anything is ingested.
LEMMA SamplesStep ==
  ASSUME SamplesInv, [ScenarioNext]_scenario_vars
  PROVE  SamplesInv'
PROOF
<1>1. CASE Begin
  BY <1>1 DEF Begin, SamplesInv
<1>2. CASE _ingest \/ Retrieve \/ Govern \/ Workflow \/ Evaluate \/ EnvironmentLost
  BY <1>2 DEF _ingest, Retrieve, Govern, Workflow, Evaluate, EnvironmentLost, Report, SamplesInv
<1>3. CASE \/ PrepareProxy \/ WaitConnected \/ Publish \/ _wait_for_count \/ _set_proxy_enabled
           \/ WaitDisconnected \/ HarnessRaises \/ Finally
           \/ Connect \/ Disconnect \/ Consume
  <2>1. UNCHANGED <<def, phase, samples>>
    BY <1>3 DEF PrepareProxy, WaitConnected, Publish, _wait_for_count, _set_proxy_enabled,
       WaitDisconnected, HarnessRaises, Finally, Connect, Disconnect, Consume, Harness
  <2> QED BY <2>1 DEF SamplesInv
<1>4. CASE UNCHANGED scenario_vars
  BY <1>4 DEF scenario_vars, SamplesInv
<1> QED BY <1>1, <1>2, <1>3, <1>4 DEF ScenarioNext

\* The account of the harness holds in every state of a run.
LEMMA HarnessInvariance == ScenarioSpec => [](HarnessInv /\ SamplesInv)
PROOF
<1>1. ScenarioInit => HarnessInv /\ SamplesInv
  BY EarlierAssumption DEF ScenarioInit, HarnessInv, SamplesInv, HarnessRows, Idle
<1>2. HarnessInv /\ SamplesInv /\ [ScenarioNext]_scenario_vars => (HarnessInv /\ SamplesInv)'
  BY HarnessStep, SamplesStep
<1> QED BY <1>1, <1>2, PTL DEF ScenarioSpec

\* Whatever is cut, times out or fails in whatever order: a harness that is over has put the
\* broker back and stopped the consumer, unless the clean-up itself failed, and one that reports an
\* ingestion saw the cut, the loss of the device, the reconnection, and as many rows as samples:
\* every sample, on a device without earlier rows (MqttFailureHarness.ingest); for telemetry of any
\* length and any number of earlier rows.
THEOREM InjectionsComplete == ScenarioSpec => []InjectionComplete
PROOF
<1>1. HarnessInv => InjectionComplete
  <2> SUFFICES ASSUME HarnessInv, mqtt.at = "over" PROVE InjectionComplete
    BY DEF InjectionComplete
  <2>1. mqtt \in HarnessRows /\ Total \in Nat /\ Total >= 2 /\ HarnessRight(mqtt, Total, before.rows)
    BY DEF HarnessInv
  <2>2. before.rows = 0 /\ ~mqtt.failed => mqtt.rows = Total
    BY <2>1 DEF HarnessRight, HarnessRows
  <2> QED BY <2>1, <2>2 DEF InjectionComplete, HarnessRight
<1> QED BY <1>1, HarnessInvariance, PTL

\* What ObservedScenario holds of the workflow and the probes.
Observations ==
  [sufficiency : Sufficiencies \cup {None}, found : BOOLEAN,
   status : {None, "BLOCKED", "FAILED", "WAITING_APPROVAL", "WORK_ORDER_CREATED", "REJECTED"},
   provider : {None, "test", "openai_compatible"},
   decision : {None, "BLOCKED", "REQUIRES_APPROVAL", "AUTO_ALLOWED"},
   approval : {None, "PENDING", "APPROVED", "REJECTED"},
   runs : Nat, orders : Nat, closed : BOOLEAN]

\* A run carries a provider's name, one that failed never reached the policy gate, and what was put
\* to a reviewer was not blocked.
RunRight(r) ==
  /\ r \in Observations
  /\ r.status # None => r.provider # None
  /\ r.status = None => r.approval = None
  /\ r.approval # None => r.decision = "REQUIRES_APPROVAL"
  /\ r.status = "FAILED" => r.decision = None

\* The provider of the run that is found: the configured one, unless an earlier run left it.
OwnProvider(r) == before.runs = 0 /\ r.status # None => r.provider = infra.workflow

\* Until the workflow phase nothing of a run is observed; afterwards a run of this scenario or an
\* earlier one; a blocked one has added no work order, and neither has a scenario without governance;
\* a failed run has set safety aside.
ObservedInv ==
  /\ before \in Earlier
  /\ RunRight(obs)
  /\ OwnProvider(obs)
  /\ phase \in {"start", "mqtt", "ingest", "retrieve", "govern", "workflow"} => obs.status = None
  /\ phase = "evaluate" /\ (obs.decision = "BLOCKED" \/ def.failure = "GOVERNANCE_UNAVAILABLE") =>
       obs.orders = before.orders
  /\ phase = "evaluate" /\ obs.status = "FAILED" => "safety" \in blocked

\* A component whose infrastructure is missing is set aside before the verdict.
BlockedInv ==
  /\ infra \in Infrastructure
  /\ blocked \subseteq Components
  /\ phase \in {"govern", "workflow", "evaluate"} /\ def.evidence /\ ~infra.index => "evidence" \in blocked
  /\ phase \notin {"start", "done"} /\ def.failure = "MQTT_DISCONNECTED" /\ ~infra.control =>
       "workflow" \in blocked

\* What WorkflowService.start may leave is such a run, and so is one that was decided.
LEMMA StartedRight ==
  ASSUME NEW p \in {"test", "openai_compatible"}, NEW reachable, NEW r \in Started(p, reachable)
  PROVE  /\ RunRight(r) /\ (r.status # None => r.provider = p)
         /\ r.decision = "BLOCKED" => r.orders = 0
         /\ r.approval = "PENDING" =>
              /\ RunRight(Approved(r)) /\ RunRight(Rejected(r))
              /\ Approved(r).provider = p /\ Approved(r).decision # "BLOCKED" /\ Approved(r).orders \in Nat
PROOF
<1> DEFINE run(st, d, a, n) == [sufficiency |-> None, found |-> FALSE, status |-> st, provider |-> p,
                                decision |-> d, approval |-> a, runs |-> 0, orders |-> n, closed |-> FALSE]
<1>1. \/ r = run("BLOCKED", "BLOCKED", None, 0)
      \/ r = run("FAILED", None, None, 0)
      \/ r = NoObservation
      \/ r = run("WAITING_APPROVAL", "REQUIRES_APPROVAL", "PENDING", 0)
      \/ r = run("WORK_ORDER_CREATED", "AUTO_ALLOWED", None, 1)
  BY DEF Started, NoObservation
<1>2. /\ RunRight(r) /\ (r.status # None => r.provider = p)
      /\ r.decision = "BLOCKED" => r.orders = 0
      /\ r.approval = "PENDING" => r.provider = p /\ r.decision = "REQUIRES_APPROVAL"
  <2> USE NoneAssumption DEF RunRight, Observations
  <2>1. CASE r = run("BLOCKED", "BLOCKED", None, 0)
    BY <2>1
  <2>2. CASE r = run("FAILED", None, None, 0)
    BY <2>2
  <2>3. CASE r = NoObservation
    BY <2>3 DEF NoObservation
  <2>4. CASE r = run("WAITING_APPROVAL", "REQUIRES_APPROVAL", "PENDING", 0)
    BY <2>4
  <2>5. CASE r = run("WORK_ORDER_CREATED", "AUTO_ALLOWED", None, 1)
    BY <2>5
  <2> QED BY <1>1, <2>1, <2>2, <2>3, <2>4, <2>5
<1>3. ASSUME r.approval = "PENDING"
      PROVE  /\ RunRight(Approved(r)) /\ RunRight(Rejected(r))
             /\ Approved(r).provider = p /\ Approved(r).decision # "BLOCKED" /\ Approved(r).orders \in Nat
  <2>1. r \in Observations /\ r.provider = p /\ r.decision = "REQUIRES_APPROVAL"
    BY <1>2, <1>3 DEF RunRight
  <2>2. PICK x : x = Approved(r)
    OBVIOUS
  <2>3. /\ x \in Observations /\ x.provider = p /\ x.decision = "REQUIRES_APPROVAL"
        /\ x.status = "WORK_ORDER_CREATED"
    BY <2>1, <2>2 DEF Observations, Approved
  <2>4. PICK y : y = Rejected(r)
    OBVIOUS
  <2>5. y \in Observations /\ y.provider = p /\ y.decision = "REQUIRES_APPROVAL" /\ y.status = "REJECTED"
    BY <2>1, <2>4 DEF Observations, Rejected
  <2>6. x.orders \in Nat
    BY <2>3 DEF Observations
  <2> QED BY <2>2, <2>3, <2>4, <2>5, <2>6, NoneAssumption DEF RunRight
<1> QED BY <1>2, <1>3

\* The run that an earlier scenario left is such a run, also once it is approved.
LEMMA EarlierRight ==
  ASSUME NEW e \in Earlier
  PROVE  /\ e.runs \in Nat /\ e.orders \in Nat
         /\ RunRight(e.run) /\ (e.runs = 0 => e.run = NoObservation)
         /\ e.run.approval = "PENDING" =>
              RunRight(Approved(e.run)) /\ Approved(e.run).decision # "BLOCKED" /\ e.runs # 0
PROOF
<1>1. /\ e.runs \in Nat /\ e.orders \in Nat /\ (e.runs = 0 => e.run = NoObservation)
      /\ e.run \in Left("test") \cup Left("openai_compatible")
  BY EarlierAssumption
<1>2. PICK p \in {"test", "openai_compatible"} : e.run \in Left(p)
  BY <1>1
<1>3. CASE e.run \in Started(p, TRUE)
  <2>1. NoObservation.approval # "PENDING"
    BY NoneAssumption DEF NoObservation
  <2>2. PICK r \in Started(p, TRUE) : r = e.run
    BY <1>3
  <2>3. RunRight(r)
    BY <2>2, StartedRight
  <2>5. ASSUME r.approval = "PENDING" PROVE RunRight(Approved(r)) /\ Approved(r).decision # "BLOCKED"
    <3>1. RunRight(Approved(r))
      BY <2>2, <2>5, StartedRight
    <3>2. Approved(r).approval = "APPROVED"
      BY <2>3 DEF Approved, RunRight, Observations
    <3>3. Approved(r).decision = "REQUIRES_APPROVAL"
      BY <3>1, <3>2, NoneAssumption DEF RunRight
    <3> QED BY <3>1, <3>3
  <2>4. e.run.approval = "PENDING" => e.runs # 0
    BY <1>1, <2>1
  <2> QED BY <1>1, <2>2, <2>3, <2>4, <2>5
<1>4. CASE \E r \in Started(p, TRUE) : r.approval = "PENDING" /\ (e.run = Approved(r) \/ e.run = Rejected(r))
  <2>1. PICK r \in Started(p, TRUE) : r.approval = "PENDING" /\ (e.run = Approved(r) \/ e.run = Rejected(r))
    BY <1>4
  <2>2. RunRight(r) /\ RunRight(Approved(r)) /\ RunRight(Rejected(r))
    BY <2>1, StartedRight
  <2>3. e.run.approval # "PENDING"
    <3>1. r \in Observations
      BY <2>2 DEF RunRight
    <3>2. Approved(r).approval = "APPROVED" /\ Rejected(r).approval = "REJECTED"
      BY <3>1 DEF Approved, Rejected, Observations
    <3> QED BY <2>1, <3>2
  <2> QED BY <1>1, <2>1, <2>2, <2>3
<1> QED BY <1>2, <1>3, <1>4 DEF Left

\* Nothing observed is right.
LEMMA NothingRight ==
  RunRight(NoObservation) /\ OwnProvider(NoObservation) /\ NoObservation.decision # "BLOCKED"
BY NoneAssumption DEF RunRight, OwnProvider, Observations, NoObservation

\* What WorkflowService.start and decide_approval leave, of a new run or of the one that was there.
LEMMA RunsRight ==
  ASSUME NEW p \in {"test", "openai_compatible"}, infra.workflow = p, before \in Earlier,
         NEW made \in Runs
  PROVE  /\ RunRight(made.run) /\ OwnProvider(made.run)
         /\ made.runs \in Nat /\ made.orders \in Nat
         /\ made.run.decision = "BLOCKED" => made.orders = 0
PROOF
<1>1. PICK reachable : reachable = (def.failure # "LLM_PROVIDER_UNAVAILABLE")
  OBVIOUS
<1>2. CASE \E r \in Started(p, reachable) :
             made = [run |-> r, runs |-> IF r = NoObservation THEN 0 ELSE 1, orders |-> r.orders]
  BY <1>2, StartedRight DEF OwnProvider, RunRight, Observations
<1>3. CASE \E r \in Started(p, reachable) :
             /\ r.approval = "PENDING"
             /\ made = [run |-> Approved(r), runs |-> IF Approved(r) = NoObservation THEN 0 ELSE 1,
                        orders |-> Approved(r).orders]
  <2>1. PICK r \in Started(p, reachable) :
             /\ r.approval = "PENDING"
             /\ made = [run |-> Approved(r), runs |-> IF Approved(r) = NoObservation THEN 0 ELSE 1,
                        orders |-> Approved(r).orders]
    BY <1>3
  <2>2. /\ RunRight(Approved(r)) /\ Approved(r).provider = p /\ Approved(r).decision # "BLOCKED"
        /\ Approved(r).orders \in Nat
    BY <2>1, StartedRight
  <2>3. made.run = Approved(r) /\ made.orders = Approved(r).orders /\ made.runs \in Nat
    BY <2>1
  <2> QED BY <2>2, <2>3 DEF OwnProvider
<1>4. CASE \E r \in {NoObservation, before.run} : made = [run |-> r, runs |-> 0, orders |-> 0]
  BY <1>4, EarlierRight, NothingRight DEF OwnProvider
<1>5. CASE \E r \in {NoObservation, before.run} :
             r.approval = "PENDING" /\ made = [run |-> Approved(r), runs |-> 0, orders |-> 1]
  <2>1. NoObservation.approval = None
    BY DEF NoObservation
  <2> QED BY <1>5, <2>1, EarlierRight, NoneAssumption DEF OwnProvider
<1> QED BY <1>1, <1>2, <1>3, <1>4, <1>5 DEF Runs, Inherited

\* Every phase keeps what is observed of a run right.
LEMMA ObservedStep ==
  ASSUME ObservedInv, BlockedInv, [ScenarioNext]_scenario_vars
  PROVE  ObservedInv'
PROOF
<1>1. CASE Begin
  BY <1>1 DEF Begin, ObservedInv, RunRight, OwnProvider
<1>2. CASE _ingest
  BY <1>2 DEF _ingest, ObservedInv, RunRight, OwnProvider
<1>3. PICK r : r = obs
  OBVIOUS
<1>4. RunRight(r)
  BY <1>3 DEF ObservedInv
<1>5. ASSUME NEW x, obs' = x, x \in Observations, UNCHANGED <<def, infra, before>>,
             x.status = r.status, x.provider = r.provider, x.approval = r.approval, x.decision = r.decision,
             phase \in {"retrieve", "govern"}, phase' \in {"govern", "workflow"}
      PROVE  ObservedInv'
  BY <1>3, <1>4, <1>5 DEF ObservedInv, RunRight, OwnProvider
<1>6. CASE Retrieve
  <2>1. phase = "retrieve" /\ phase' = "govern" /\ UNCHANGED <<def, infra, before>>
    BY <1>6 DEF Retrieve
  <2>2. CASE obs' = r
    BY <1>4, <1>5, <2>1, <2>2 DEF RunRight
  <2>3. CASE \E suff \in Sufficiencies, found \in BOOLEAN :
               obs' = [r EXCEPT !.sufficiency = suff, !.found = found]
    <3>1. PICK suff \in Sufficiencies, found \in BOOLEAN :
               obs' = [r EXCEPT !.sufficiency = suff, !.found = found]
      BY <2>3
    <3>2. PICK x : x = [r EXCEPT !.sufficiency = suff, !.found = found]
      OBVIOUS
    <3>3. /\ x \in Observations /\ x.status = r.status /\ x.provider = r.provider
          /\ x.approval = r.approval /\ x.decision = r.decision
      BY <1>4, <3>2 DEF RunRight, Observations
    <3> QED BY <1>5, <2>1, <3>1, <3>2, <3>3
  <2> QED BY <1>3, <1>6, <2>2, <2>3 DEF Retrieve
<1>7. CASE Govern
  <2>1. phase = "govern" /\ phase' = "workflow" /\ UNCHANGED <<def, infra, before>>
    BY <1>7 DEF Govern
  <2>2. PICK shut \in BOOLEAN : obs' = [r EXCEPT !.closed = shut]
    BY <1>3, <1>7 DEF Govern
  <2>3. PICK x : x = [r EXCEPT !.closed = shut]
    OBVIOUS
  <2>4. /\ x \in Observations /\ x.status = r.status /\ x.provider = r.provider
        /\ x.approval = r.approval /\ x.decision = r.decision
    BY <1>4, <2>3 DEF RunRight, Observations
  <2> QED BY <1>5, <2>1, <2>2, <2>3, <2>4
<1>8. CASE Workflow
  <2>1. phase = "workflow" /\ phase' = "evaluate" /\ UNCHANGED <<def, infra, before>> /\ before \in Earlier
    BY <1>8 DEF Workflow, ObservedInv
  <2>2. before.runs \in Nat /\ before.orders \in Nat
    BY <2>1, EarlierRight
  <2>3. ASSUME NEW run, NEW runs \in Nat, NEW orders \in Nat, Observes(run, runs, orders),
               RunRight(run), OwnProvider(run),
               run.decision = "BLOCKED" \/ def.failure = "GOVERNANCE_UNAVAILABLE" => orders = 0,
               Unreached(run) \subseteq blocked'
        PROVE  ObservedInv'
    <3>1. PICK n \in Nat, k \in Nat : n = before.runs + runs /\ k = before.orders + orders
      BY <2>2
    <3>2. PICK x : x = [run EXCEPT !.sufficiency = r.sufficiency, !.found = r.found, !.closed = r.closed,
                                   !.runs = n, !.orders = k]
      OBVIOUS
    <3>3. /\ r.sufficiency \in Sufficiencies \cup {None} /\ r.found \in BOOLEAN /\ r.closed \in BOOLEAN
      BY <1>4 DEF RunRight, Observations
    <3>4. run \in Observations
      BY <2>3 DEF RunRight
    <3>5. /\ x \in Observations /\ x.status = run.status /\ x.provider = run.provider
          /\ x.approval = run.approval /\ x.decision = run.decision /\ x.orders = k
      BY <3>2, <3>3, <3>4 DEF Observations
    <3>6. obs' = x
      BY <1>3, <2>3, <3>1, <3>2 DEF Observes
    <3>7. run.status = "FAILED" => "safety" \in blocked'
      BY <2>3, NoneAssumption DEF RunRight, Unreached
    <3>8. run.decision = "BLOCKED" \/ def.failure = "GOVERNANCE_UNAVAILABLE" => k = before.orders
      BY <2>2, <2>3, <3>1
    <3>9. RunRight(x) /\ OwnProvider(x)
      BY <2>3, <3>5 DEF RunRight, OwnProvider
    <3> QED BY <2>1, <3>5, <3>6, <3>7, <3>8, <3>9 DEF ObservedInv, OwnProvider
  <2>4. \A run \in Inherited : RunRight(run) /\ OwnProvider(run)
    BY <2>1, EarlierRight, NothingRight DEF Inherited, OwnProvider
  <2>5. CASE /\ Observes(NoObservation, 0, 0)
             /\ blocked' = blocked \cup (IF def.workflow THEN Gated ELSE {})
    <3>1. Unreached(NoObservation) \subseteq blocked'
      BY DEF Unreached, NoObservation
    <3> QED BY <2>3, <2>5, <3>1, NothingRight
  <2>6. CASE \E run \in Inherited : Observes(run, 0, 0) /\ Unreached(run) \subseteq blocked'
    BY <2>3, <2>4, <2>6
  <2>7. CASE /\ infra.workflow # None
             /\ \E run \in _probe_insufficient_evidence :
                  Observes(run, 0, 0) /\ Unreached(run) \subseteq blocked'
    <3>1. PICK run \in _probe_insufficient_evidence : Observes(run, 0, 0) /\ Unreached(run) \subseteq blocked'
      BY <2>7
    <3>2. CASE run \in Inherited
      BY <2>6, <3>1, <3>2
    <3>3. CASE run = [sufficiency |-> None, found |-> FALSE, status |-> "BLOCKED", provider |-> infra.workflow,
                      decision |-> "BLOCKED", approval |-> None, runs |-> 0, orders |-> 0, closed |-> FALSE]
      <4>1. infra.workflow \in {"test", "openai_compatible"}
        BY <2>7 DEF BlockedInv, Infrastructure
      <4>2. RunRight(run) /\ OwnProvider(run)
        BY <3>3, <4>1, NoneAssumption DEF RunRight, OwnProvider, Observations
      <4> QED BY <2>3, <3>1, <4>2
    <3> QED BY <3>1, <3>2, <3>3 DEF _probe_insufficient_evidence, NoObservation, Inherited
  <2>8. CASE /\ infra.workflow # None /\ def.failure # "GOVERNANCE_UNAVAILABLE"
             /\ \E made \in Runs : /\ Observes(made.run, made.runs, made.orders)
                                   /\ Unreached(made.run) \subseteq blocked'
    <3>1. PICK made \in Runs : Observes(made.run, made.runs, made.orders) /\ Unreached(made.run) \subseteq blocked'
      BY <2>8
    <3>2. PICK p \in {"test", "openai_compatible"} : infra.workflow = p
      BY <2>8 DEF BlockedInv, Infrastructure
    <3>3. /\ RunRight(made.run) /\ OwnProvider(made.run)
          /\ made.runs \in Nat /\ made.orders \in Nat
          /\ made.run.decision = "BLOCKED" => made.orders = 0
      BY <2>1, <3>2, RunsRight
    <3> QED BY <2>3, <2>8, <3>1, <3>3
  <2> QED BY <1>8, <2>5, <2>6, <2>7, <2>8 DEF Workflow
<1>9. CASE Evaluate
  BY <1>9 DEF Evaluate, Report, ObservedInv, RunRight, OwnProvider
<1>10. CASE EnvironmentLost
  <2>1. obs' = NoObservation /\ phase' = "done" /\ UNCHANGED <<infra, before>>
    BY <1>10 DEF EnvironmentLost, Report
  <2>2. NoObservation.status = None
    BY DEF NoObservation
  <2> QED BY <2>1, <2>2, NothingRight DEF ObservedInv, OwnProvider
<1>11. CASE \/ PrepareProxy \/ WaitConnected \/ Publish \/ _wait_for_count \/ _set_proxy_enabled
           \/ WaitDisconnected \/ HarnessRaises \/ Finally
           \/ Connect \/ Disconnect \/ Consume
  <2>1. UNCHANGED <<def, infra, before, phase, blocked, obs>>
    BY <1>11 DEF PrepareProxy, WaitConnected, Publish, _wait_for_count, _set_proxy_enabled,
       WaitDisconnected, HarnessRaises, Finally, Connect, Disconnect, Consume, Harness
  <2> QED BY <2>1 DEF ObservedInv, RunRight, OwnProvider
<1>12. CASE UNCHANGED scenario_vars
  BY <1>12 DEF scenario_vars, ObservedInv, RunRight, OwnProvider
<1> QED BY <1>1, <1>2, <1>6, <1>7, <1>8, <1>9, <1>10, <1>11, <1>12 DEF ScenarioNext

\* A component that was set aside stays so, and every phase sets aside what it cannot do.
LEMMA BlockedStep ==
  ASSUME BlockedInv, [ScenarioNext]_scenario_vars
  PROVE  BlockedInv'
PROOF
<1>0. Gated \subseteq Components /\ "workflow" \in Gated /\ "evidence" \in Components /\ "safety" \in Components
  BY DEF Gated, Components
<1>1. CASE Begin
  <2>1. _unsupported_failure \subseteq Gated
    BY DEF _unsupported_failure
  <2>2. def.failure = "MQTT_DISCONNECTED" /\ ~infra.control => _unsupported_failure = Gated
    BY DEF _unsupported_failure
  <2> QED BY <1>0, <1>1, <2>1, <2>2 DEF Begin, BlockedInv
<1>2. CASE _ingest
  BY <1>2 DEF _ingest, BlockedInv
<1>3. CASE Retrieve
  BY <1>0, <1>3 DEF Retrieve, BlockedInv
<1>4. CASE Govern
  BY <1>4 DEF Govern, BlockedInv
<1>5. CASE Workflow
  <2>1. phase = "workflow" /\ phase' = "evaluate" /\ UNCHANGED <<def, infra>>
    BY <1>5 DEF Workflow
  <2>2. blocked \subseteq blocked' /\ blocked' \subseteq blocked \cup Gated
    BY <1>5 DEF Workflow, Unreached, Gated
  <2> QED BY <1>0, <2>1, <2>2 DEF BlockedInv
<1>6. CASE Evaluate \/ EnvironmentLost
  BY <1>6 DEF Evaluate, EnvironmentLost, Report, BlockedInv
<1>7. CASE \/ PrepareProxy \/ WaitConnected \/ Publish \/ _wait_for_count \/ _set_proxy_enabled
           \/ WaitDisconnected \/ HarnessRaises \/ Finally
           \/ Connect \/ Disconnect \/ Consume
  <2>1. UNCHANGED <<def, infra, phase, blocked>>
    BY <1>7 DEF PrepareProxy, WaitConnected, Publish, _wait_for_count, _set_proxy_enabled,
       WaitDisconnected, HarnessRaises, Finally, Connect, Disconnect, Consume, Harness
  <2> QED BY <2>1 DEF BlockedInv
<1>8. CASE UNCHANGED scenario_vars
  BY <1>8 DEF scenario_vars, BlockedInv
<1> QED BY <1>1, <1>2, <1>3, <1>4, <1>5, <1>6, <1>7, <1>8 DEF ScenarioNext

\* The verdict in all phases but the last, and in that one earned.
VerdictInv == VerdictEarned /\ (phase # "done" => verdict = Undecided /\ exit = None)

\* A scenario passes only with all components.
LEMMA OverallPass ==
  ASSUME NEW status
  PROVE  /\ Overall(status) \in {"PASS", "FAIL", "BLOCKED"}
         /\ Exit(status) \in {0, 1, 2}
         /\ Overall(status) = "PASS" => \A c \in Components : status[c] \notin {"FAIL", "BLOCKED"}
BY DEF Overall, Exit

\* The telemetry of a fault that lasts a tick shows it, and its last tick is past the recovery.
LEMMA FaultIsSampled ==
  ASSUME NEW d \in Scenarios, d.fault, NEW s, HasEvery(s, Ticks(d))
  PROVE  /\ active_ticks(d) + recovery_ticks(d) > 0 => \E n \in DOMAIN s : _envelope(d, s[n]) > 0
         /\ \E n \in DOMAIN s : /\ stage(d, s[n]) = "NORMAL" /\ s[n] > start_tick(d)
                                /\ \A m \in DOMAIN s : s[m] <= s[n]
PROOF
<1>1. PICK w \in Nat, ramp \in Nat, a \in Nat, c \in Nat :
        /\ w = start_tick(d) /\ ramp = ramp_up(d) /\ a = active_ticks(d) /\ c = recovery_ticks(d)
        /\ ramp >= 1
  BY RampsUp
<1>2. PICK last \in Nat : last = w + ramp + a + c /\ Ticks(d) - 1 = last
  BY <1>1 DEF Ticks, total, Most
<1>3. /\ DOMAIN s = 1..Len(s)
      /\ \A m \in 1..Len(s) : s[m] \in 0..last
      /\ \A k \in 0..last : \E n \in 1..Len(s) : s[n] = k
  BY <1>2, LenProperties DEF HasEvery
<1>4. \A tick \in Nat : /\ tick \in w..(w + ramp - 1) <=> w <= tick /\ tick < w + ramp
                        /\ tick \in (w + ramp)..(w + ramp + a - 1) <=> w + ramp <= tick /\ tick < w + ramp + a
                        /\ tick \in (w + ramp + a)..(w + ramp + a + c - 1) <=>
                             w + ramp + a <= tick /\ tick < w + ramp + a + c
  OBVIOUS
<1>5. \A tick \in Nat : stage(d, tick) = CASE tick \in w..(w + ramp - 1) -> "INJECTING"
                                           [] tick \in (w + ramp)..(w + ramp + a - 1) -> "ACTIVE"
                                           [] tick \in (w + ramp + a)..(w + ramp + a + c - 1) -> "RECOVERING"
                                           [] OTHER -> "NORMAL"
  BY <1>1 DEF stage
<1>6. stage(d, last) = "NORMAL"
  BY <1>2, <1>4, <1>5
<1>7. PICK peak \in Nat : peak = w + ramp
  OBVIOUS
<1>8. ASSUME a + c > 0 PROVE peak \in 0..last /\ _envelope(d, peak) > 0
  <2>1. peak \in 0..last
    BY <1>2, <1>7, <1>8
  <2>2. CASE a > 0
    <3>1. stage(d, peak) = "ACTIVE"
      BY <1>4, <1>5, <1>7, <2>2
    <3> QED BY <2>1, <3>1 DEF _envelope
  <2>3. CASE a = 0
    <3>1. stage(d, peak) = "RECOVERING"
      BY <1>4, <1>5, <1>7, <1>8, <2>3
    <3>2. _envelope(d, peak) = w + ramp + a + c - peak
      BY <1>1, <3>1 DEF _envelope
    <3> QED BY <1>7, <1>8, <2>1, <2>3, <3>2
  <2> QED BY <2>2, <2>3
<1>9. active_ticks(d) + recovery_ticks(d) > 0 => \E n \in DOMAIN s : _envelope(d, s[n]) > 0
  BY <1>1, <1>3, <1>8
<1>10. last \in 0..last /\ last > w
  BY <1>1, <1>2
<1>11. PICK n \in 1..Len(s) : s[n] = last
  BY <1>3, <1>10
<1>12. \A m \in 1..Len(s) : s[m] <= last
  BY <1>3
<1> QED BY <1>1, <1>3, <1>6, <1>9, <1>10, <1>11, <1>12

\* A verdict of PASS: each component was judged and passed.
LEMMA AllPassed ==
  ASSUME NEW st, st = [c \in Components |-> _component(c)], Overall(st) = "PASS"
  PROVE  /\ SetAside \cap {"evidence", "workflow", "safety"} = {}
         /\ workflow_ok /\ safety_ok /\ approval_ok /\ workorder_ok
PROOF
<1>1. \A c \in Components : _component(c) \notin {"FAIL", "BLOCKED"}
  BY OverallPass
<1>2. \A c \in Components : c \notin SetAside /\ Passed(c)
  BY <1>1 DEF _component
<1>3. {"evidence", "workflow", "safety", "approval", "workorder"} \subseteq Components
  BY DEF Components
<1>4. Passed("workflow") /\ Passed("safety") /\ Passed("approval") /\ Passed("workorder")
  BY <1>2, <1>3
<1>5. workflow_ok
  BY <1>4 DEF Passed
<1>6. safety_ok
  BY <1>4 DEF Passed
<1>7. approval_ok
  BY <1>4 DEF Passed
<1>8. workorder_ok
  BY <1>4 DEF Passed
<1> QED BY <1>2, <1>3, <1>5, <1>6, <1>7, <1>8

\* The verdict of a passing run is earned.
LEMMA PassIsEarned ==
  ASSUME SamplesInv, ObservedInv, BlockedInv, phase = "evaluate",
         NEW st, st = [c \in Components |-> _component(c)], Overall(st) = "PASS"
  PROVE  InfrastructureWasThere /\ CaseWasReal
PROOF
<1>0. /\ def \in Scenarios
      /\ {def.fault, def.approve, def.evidence, def.workflow, def.must_block, def.after_approval} \subseteq BOOLEAN
  BY DefinitionsAreTyped DEF SamplesInv
<1>1. /\ {"evidence", "workflow", "safety"} \cap SetAside = {}
      /\ workflow_ok /\ safety_ok /\ approval_ok /\ workorder_ok
  BY AllPassed
<1>2. "evidence" \notin blocked /\ "workflow" \notin blocked /\ "safety" \notin blocked /\ obs.provider # "test"
  BY <1>1 DEF SetAside
<1>3. def.evidence => infra.index
  BY <1>0, <1>2 DEF BlockedInv
<1>4. def.failure = "MQTT_DISCONNECTED" => infra.control
  BY <1>2 DEF BlockedInv
<1>5. obs.status # "FAILED"
  BY <1>2 DEF ObservedInv
<1>6. def.failure # "LLM_PROVIDER_UNAVAILABLE"
  BY <1>1, <1>5 DEF workflow_ok
<1>7. def.workflow /\ def.failure # "GOVERNANCE_UNAVAILABLE" =>
        obs.provider = "openai_compatible" /\ (before.runs = 0 => infra.workflow = "openai_compatible")
  <2> SUFFICES ASSUME def.workflow, def.failure # "GOVERNANCE_UNAVAILABLE"
               PROVE  obs.provider = "openai_compatible" /\ (before.runs = 0 => infra.workflow = "openai_compatible")
    OBVIOUS
  <2>1. IF def.expected_status # None THEN obs.status = def.expected_status ELSE obs.status \in boundary
    BY <1>1, <1>6 DEF workflow_ok
  <2>2. obs.status # None
    BY <2>1, NoneAssumption DEF boundary
  <2>3. obs.provider = "openai_compatible"
    BY <1>2, <2>2 DEF ObservedInv, RunRight, Observations
  <2> QED BY <2>2, <2>3 DEF ObservedInv, OwnProvider
<1>8. InfrastructureWasThere
  BY <1>3, <1>4, <1>6, <1>7 DEF InfrastructureWasThere
<1>9. /\ def.fault /\ active_ticks(def) + recovery_ticks(def) > 0 =>
           \E n \in DOMAIN samples : _envelope(def, samples[n]) > 0
      /\ def.fault => \E n \in DOMAIN samples :
                       /\ stage(def, samples[n]) = "NORMAL" /\ samples[n] > start_tick(def)
                       /\ \A m \in DOMAIN samples : samples[m] <= samples[n]
  <2>1. PICK d \in Scenarios : d = def
    BY <1>0
  <2>2. PICK s : s = samples /\ s = _samples(d)
    BY <2>1 DEF SamplesInv
  <2>3. HasEvery(s, Ticks(d))
    BY <2>1, <2>2, SamplesHaveEvery
  <2>4. /\ d.fault /\ active_ticks(d) + recovery_ticks(d) > 0 => \E n \in DOMAIN s : _envelope(d, s[n]) > 0
        /\ d.fault => \E n \in DOMAIN s : /\ stage(d, s[n]) = "NORMAL" /\ s[n] > start_tick(d)
                                         /\ \A m \in DOMAIN s : s[m] <= s[n]
    BY <2>1, <2>3, FaultIsSampled
  <2> QED BY <2>1, <2>2, <2>4
<1>10. obs.orders > 0 => obs.approval = "APPROVED" /\ def.approve /\ ~def.must_block
  <2> SUFFICES ASSUME obs.orders > 0 PROVE obs.approval = "APPROVED" /\ def.approve /\ ~def.must_block
    OBVIOUS
  <2>1. obs.orders = (IF def.approve /\ def.after_approval THEN 1 ELSE 0)
    BY <1>1 DEF workorder_ok
  <2>2. def.approve
    BY <1>0, <2>1
  <2>3. obs.approval = "APPROVED"
    BY <1>1, <2>2 DEF approval_ok
  <2>4. obs.status # None /\ obs.decision = "REQUIRES_APPROVAL"
    BY <2>3, NoneAssumption DEF ObservedInv, RunRight
  <2>5. def.failure # "GOVERNANCE_UNAVAILABLE"
    BY <1>1, <2>4 DEF workflow_ok
  <2>6. ~def.must_block
    BY <1>0, <1>1, <2>4, <2>5 DEF safety_ok
  <2> QED BY <2>2, <2>3, <2>6
<1>11. CaseWasReal
  BY <1>9, <1>10 DEF CaseWasReal
<1> QED BY <1>8, <1>11

\* Every step keeps the verdict earned.
LEMMA VerdictStep ==
  ASSUME SamplesInv, ObservedInv, BlockedInv, VerdictInv, [ScenarioNext]_scenario_vars
  PROVE  VerdictInv'
PROOF
<1>0. "safety" \in Components /\ "scenario" \notin Components
  BY DEF Components
<1>1. SamplesInv' /\ BlockedInv'
  BY SamplesStep, BlockedStep
<1>2. ASSUME phase # "done", phase' # "done", UNCHANGED <<verdict, exit>> PROVE VerdictInv'
  <2>1. verdict' = Undecided /\ exit' = None
    BY <1>2 DEF VerdictInv
  <2>2. /\ verdict'["scenario"] = "NOT_RUN" /\ verdict'["safety"] = "NOT_RUN"
        /\ \A c \in DOMAIN verdict' : verdict'[c] = "NOT_RUN"
    BY <1>0, <2>1 DEF Undecided
  <2> QED BY <1>1, <1>2, <2>1, <2>2, NoneAssumption DEF VerdictInv, VerdictEarned, ScenarioTypeOK,
             SamplesInv, BlockedInv
<1>3. ASSUME NEW st, Report(st), \A c \in Components : st[c] \in {"PASS", "FAIL", "BLOCKED"}
      PROVE  /\ ScenarioTypeOK' /\ phase' = "done"
             /\ verdict'["scenario"] = Overall(st) /\ verdict'["safety"] = st["safety"]
             /\ UNCHANGED <<def, infra, before, samples>>
  <2>1. /\ verdict' = [c \in Components \cup {"scenario"} |-> IF c = "scenario" THEN Overall(st) ELSE st[c]]
        /\ exit' = Exit(st) /\ phase' = "done" /\ UNCHANGED <<def, infra, before, samples>>
    BY <1>3 DEF Report
  <2>2. /\ verdict'["scenario"] = Overall(st) /\ verdict'["safety"] = st["safety"]
        /\ \A c \in DOMAIN verdict' : verdict'[c] \in {"PASS", "FAIL", "BLOCKED"}
    BY <1>0, <1>3, <2>1, OverallPass
  <2>3. exit' \in {0, 1, 2}
    BY <2>1, <2>2, OverallPass
  <2> QED BY <1>1, <2>1, <2>2, <2>3 DEF ScenarioTypeOK, SamplesInv, BlockedInv
<1>4. CASE Evaluate
  <2>1. PICK st : st = [c \in Components |-> _component(c)] /\ Report(st)
    BY <1>4 DEF Evaluate
  <2>2. \A c \in Components : st[c] \in {"PASS", "FAIL", "BLOCKED"}
    BY <2>1 DEF _component
  <2>3. /\ ScenarioTypeOK' /\ phase' = "done"
        /\ verdict'["scenario"] = Overall(st) /\ verdict'["safety"] = st["safety"]
        /\ UNCHANGED <<def, infra, before, samples>> /\ UNCHANGED obs
    BY <1>3, <1>4, <2>1, <2>2 DEF Evaluate
  <2>4. Overall(st) = "PASS" => InfrastructureWasThere /\ CaseWasReal
    BY <1>4, <2>1, PassIsEarned DEF Evaluate
  <2>5. st["safety"] = "PASS" => safety_ok
    <3>1. st["safety"] = _component("safety")
      BY <1>0, <2>1
    <3>2. _component("safety") = "PASS" => Passed("safety")
      BY DEF _component
    <3> QED BY <3>1, <3>2 DEF Passed
  <2>6. def.must_block /\ st["safety"] = "PASS" => _unsafe_blocked
    BY <2>5 DEF safety_ok, _unsafe_blocked
  <2>7. _unsafe_blocked => obs.orders = before.orders
    BY <1>4 DEF Evaluate, ObservedInv, _unsafe_blocked
  <2> QED BY <2>3, <2>4, <2>6, <2>7 DEF VerdictInv, VerdictEarned, InfrastructureWasThere, CaseWasReal,
        _unsafe_blocked
<1>5. CASE EnvironmentLost
  <2>1. PICK st : st = [c \in Components |-> "BLOCKED"] /\ Report(st)
    BY <1>5 DEF EnvironmentLost
  <2>2. \A c \in Components : st[c] = "BLOCKED"
    BY <2>1
  <2>3. Overall(st) # "PASS" /\ st["safety"] # "PASS"
    BY <1>0, <2>2, OverallPass
  <2>4. ~_unsafe_blocked'
    BY <1>5, NoneAssumption DEF EnvironmentLost, _unsafe_blocked, NoObservation
  <2> QED BY <1>3, <2>1, <2>2, <2>3, <2>4 DEF VerdictInv, VerdictEarned
<1>6. CASE Begin \/ _ingest \/ Retrieve \/ Govern \/ Workflow
  BY <1>2, <1>6 DEF Begin, _ingest, Retrieve, Govern, Workflow
<1>7. CASE \/ PrepareProxy \/ WaitConnected \/ Publish \/ _wait_for_count \/ _set_proxy_enabled
           \/ WaitDisconnected \/ HarnessRaises \/ Finally
           \/ Connect \/ Disconnect \/ Consume
  <2>1. phase = "mqtt" /\ UNCHANGED <<phase, verdict, exit>>
    BY <1>7 DEF PrepareProxy, WaitConnected, Publish, _wait_for_count, _set_proxy_enabled,
       WaitDisconnected, HarnessRaises, Finally, Connect, Disconnect, Consume, Harness
  <2> QED BY <1>2, <2>1
<1>8. CASE UNCHANGED scenario_vars
  BY <1>8 DEF scenario_vars, VerdictInv, VerdictEarned, ScenarioTypeOK, InfrastructureWasThere, CaseWasReal,
     _unsafe_blocked
<1> QED BY <1>4, <1>5, <1>6, <1>7, <1>8 DEF ScenarioNext

\* A scenario passes only when all it depends on was there, a fault of at least a tick was injected
\* and left behind and no work order lacks its approval; where the gate held an unsafe case is
\* counted as blocked, and one that is counted has added no work order (ScenarioRunner.run,
\* evaluate); for any definitions and whatever earlier runs left of the device.
THEOREM VerdictsAreEarned == ScenarioSpec => []VerdictEarned
PROOF
<1>1. ScenarioInit => SamplesInv /\ ObservedInv /\ BlockedInv /\ VerdictInv
  <2> SUFFICES ASSUME ScenarioInit PROVE SamplesInv /\ ObservedInv /\ BlockedInv /\ VerdictInv
    OBVIOUS
  <2>1. SamplesInv /\ BlockedInv
    BY DEF ScenarioInit, SamplesInv, BlockedInv
  <2>2. ObservedInv
    <3>1. obs = NoObservation /\ before \in Earlier /\ phase = "start" /\ NoObservation.status = None
      BY DEF ScenarioInit, NoObservation
    <3> QED BY <3>1, NothingRight DEF ObservedInv, OwnProvider
  <2>3. /\ verdict["scenario"] = "NOT_RUN" /\ verdict["safety"] = "NOT_RUN"
        /\ \A c \in DOMAIN verdict : verdict[c] = "NOT_RUN"
    BY DEF ScenarioInit, Undecided, Components
  <2> QED BY <2>1, <2>2, <2>3, NoneAssumption DEF ScenarioInit, VerdictInv, VerdictEarned, ScenarioTypeOK
<1>2. SamplesInv /\ ObservedInv /\ BlockedInv /\ VerdictInv /\ [ScenarioNext]_scenario_vars
        => (SamplesInv /\ ObservedInv /\ BlockedInv /\ VerdictInv)'
  BY SamplesStep, ObservedStep, BlockedStep, VerdictStep
<1>3. VerdictInv => VerdictEarned
  BY DEF VerdictInv
<1> QED BY <1>1, <1>2, <1>3, PTL DEF ScenarioSpec
===============================================================================
