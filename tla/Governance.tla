------------------------------ MODULE Governance ------------------------------
(***************************************************************************)
(* Governance above RBAC: the policy engine that may refuse what a role    *)
(* grants (backend/app/security/policy_engine.py, dependencies.py and      *)
(* rbac.py), and the tables that the governance API keeps                  *)
(* (backend/app/api/governance.py): deny policies and change records.      *)
(*                                                                         *)
(* A request is authorized, loads the row it is about, and commits.  The   *)
(* row is loaded without a lock, and the flush writes the columns that     *)
(* differ from what was loaded: requests overlap between their steps.      *)
(* The payload is chosen where it is first looked at.  A refused request   *)
(* leaves an audit row and changes nothing else.  Names and descriptions   *)
(* are left out.                                                           *)
(***************************************************************************)
EXTENDS Integers, FiniteSets

CONSTANTS
  Users,
  RolesOf,        \* user -> the roles it holds
  Days,           \* ISO weekdays considered
  DayLength,      \* clock times of a day
  Payloads,       \* condition objects that a caller may send
  Policies,       \* ids of governance_policies
  Changes,        \* ids of change_records
  MaxWindow,      \* instants of execution windows are 1 .. MaxWindow
  Requests        \* requests in flight at a time

ASSUME RolesAssumption == RolesOf \in [Users -> SUBSET { "ADMIN", "OPERATOR", "VIEWER" }]
ASSUME BoundsAssumption == DayLength \in Nat \ {0} /\ MaxWindow \in Nat

VARIABLES
  policy,         \* governance_policies: permission, conditions, enabled
  change,         \* change_records: status, risk_level, scheduled_start, scheduled_end
  request         \* the requests in flight: where they are and what they have loaded

vars == << policy, change, request >>

-----------------------------------------------------------------------------
(* RBAC                                                                     *)

WILDCARD == "*"

\* The grants that the operations below ask for, and user.manage, for those names of the
\* vocabulary that no route asks require_permission for: registration looks it up by itself,
\* and telemetry.read and dashboard.read guard nothing.
ROLE_PERMISSIONS ==
  [ ADMIN    |-> { WILDCARD, "governance.manage", "user.manage" },
    OPERATOR |-> { "change.manage" },
    VIEWER   |-> {} ]

permissions_for_roles(roles) == UNION { ROLE_PERMISSIONS[role] : role \in roles }

permissions_for_user(u) == permissions_for_roles(RolesOf[u])

has_permission(u, permission) ==
  WILDCARD \in permissions_for_user(u) \/ permission \in permissions_for_user(u)

ALL_PERMISSIONS == UNION { ROLE_PERMISSIONS[role] : role \in DOMAIN ROLE_PERMISSIONS } \ {WILDCARD}

-----------------------------------------------------------------------------
(* The policy engine                                                        *)

SUPPORTED_CONDITION_KEYS == { "roles", "time_window", "always" }

Clock   == 0 .. DayLength - 1
Moments == [day : Days, time : Clock]

\* A window whose end lies before its start wraps midnight; one whose end is its
\* start is empty.  The day is the current one, after midnight too.
_matches_time_window(window, now) ==
  /\ now.day \in window.days
  /\ \/ window.start < window.end /\ window.start <= now.time /\ now.time < window.end
     \/ window.start > window.end /\ (now.time >= window.start \/ now.time < window.end)

\* All keys present must match; an object without keys and an unknown key never do.
_conditions_match(conditions, roles, now) ==
  /\ DOMAIN conditions # {}
  /\ DOMAIN conditions \subseteq SUPPORTED_CONDITION_KEYS
  /\ "roles" \in DOMAIN conditions => roles \cap conditions["roles"] # {}
  /\ "time_window" \in DOMAIN conditions => _matches_time_window(conditions["time_window"], now)

NoPolicy == [permission |-> "NONE", conditions |-> << >>, enabled |-> FALSE]

_enabled_deny_policies(permission) ==
  { p \in Policies : policy[p].enabled /\ policy[p].permission = permission }

\* Mutant: the wildcard is above policies.
evaluate_sparing_admins(u, permission, now) ==
  \/ WILDCARD \in permissions_for_user(u)
  \/ \A p \in _enabled_deny_policies(permission) :
       ~_conditions_match(policy[p].conditions, RolesOf[u], now)

\* evaluate: nothing that is enabled refuses the caller now.
evaluate(u, permission, now) ==
  \A p \in _enabled_deny_policies(permission) :
    ~_conditions_match(policy[p].conditions, RolesOf[u], now)

-----------------------------------------------------------------------------
(* Requests                                                                 *)

PolicyOps == { "create_policy", "update_policy", "delete_policy" }
ChangeOps == { "create_change", "update_change", "transition_change" }

Needs(op) == IF op \in PolicyOps THEN "governance.manage" ELSE "change.manage"

NoChange  == [status |-> "NONE", risk |-> "LOW", start |-> 0, end |-> 0]
NoRequest == [pc |-> "idle", op |-> "none", policy |-> NoPolicy, change |-> NoChange, id |-> 0]

Init ==
  /\ policy = [p \in Policies |-> NoPolicy]
  /\ change = [c \in Changes |-> NoChange]
  /\ request = [r \in Requests |-> NoRequest]

\* require_permission: RBAC first, then the policies as they are stored now.
require_permission(r, u, op) ==
  /\ request[r].pc = "idle"
  /\ has_permission(u, Needs(op))
  /\ \E now \in Moments : evaluate(u, Needs(op), now)
  /\ request' = [request EXCEPT ![r].pc = "allowed", ![r].op = op]
  /\ UNCHANGED << policy, change >>

\* The request ends: committed, refused by its checks, or failed.
End(r) == request' = [request EXCEPT ![r] = NoRequest]

Refused(r) ==
  /\ request[r].pc # "idle"
  /\ End(r)
  /\ UNCHANGED << policy, change >>

_require_policy(r, p) ==
  /\ request[r].pc = "allowed" /\ request[r].op \in { "update_policy", "delete_policy" }
  /\ policy[p] # NoPolicy
  /\ request' = [request EXCEPT ![r].pc = "loaded", ![r].id = p, ![r].policy = policy[p]]
  /\ UNCHANGED << policy, change >>

_require_change(r, c) ==
  /\ request[r].pc = "allowed" /\ request[r].op \in { "update_change", "transition_change" }
  /\ change[c] # NoChange
  /\ request' = [request EXCEPT ![r].pc = "loaded", ![r].id = c, ![r].change = change[c]]
  /\ UNCHANGED << policy, change >>

-----------------------------------------------------------------------------
(* Policies                                                                 *)

\* Mutant: a misspelt key is stored.
_validate_conditions_any_key(conditions) == TRUE

\* An object the engine could not interpret is refused where it is written.
_validate_conditions(conditions) ==
  /\ DOMAIN conditions \subseteq SUPPORTED_CONDITION_KEYS
  /\ "roles" \in DOMAIN conditions => conditions["roles"] # {}
  /\ "time_window" \in DOMAIN conditions => /\ conditions["time_window"].days \in (SUBSET (1 .. 7)) \ {{}}
                                            /\ conditions["time_window"].start \in Clock
                                            /\ conditions["time_window"].end \in Clock
  /\ "always" \in DOMAIN conditions => conditions["always"] = TRUE /\ DOMAIN conditions = {"always"}

_validate_permission_name(permission) == permission \in ALL_PERMISSIONS

create_policy(r, permission, conditions, enabled) ==
  /\ request[r].pc = "allowed" /\ request[r].op = "create_policy"
  /\ _validate_permission_name(permission)
  /\ _validate_conditions(conditions)
  /\ \E p \in Policies :
       /\ policy[p] = NoPolicy
       /\ policy' = [policy EXCEPT ![p] = [permission |-> permission, conditions |-> conditions,
                                           enabled |-> enabled]]
  /\ End(r)
  /\ UNCHANGED change

\* What the flush leaves in a column: the new value if it differs from the loaded one.
Written(new, loaded, current) == IF new # loaded THEN new ELSE current

\* A payload that leaves a column out leaves it as it was loaded.  The UPDATE of a
\* row that is gone fails.
update_policy(r, permission, conditions, enabled) ==
  LET k == request[r] IN
  /\ k.pc = "loaded" /\ k.op = "update_policy"
  /\ permission # k.policy.permission => _validate_permission_name(permission)
  /\ conditions # k.policy.conditions => _validate_conditions(conditions)
  /\ policy[k.id] # NoPolicy
  /\ policy' = [policy EXCEPT ![k.id] =
       [ permission |-> Written(permission, k.policy.permission, @.permission),
         conditions |-> Written(conditions, k.policy.conditions, @.conditions),
         enabled    |-> Written(enabled, k.policy.enabled, @.enabled) ]]
  /\ End(r)
  /\ UNCHANGED change

delete_policy(r) ==
  /\ request[r].pc = "loaded" /\ request[r].op = "delete_policy"
  /\ policy' = [policy EXCEPT ![request[r].id] = NoPolicy]
  /\ End(r)
  /\ UNCHANGED change

-----------------------------------------------------------------------------
(* Change records                                                           *)

CHANGE_TRANSITIONS ==
  [ DRAFT       |-> { "SCHEDULED", "CANCELLED" },
    SCHEDULED   |-> { "IN_PROGRESS", "CANCELLED" },
    IN_PROGRESS |-> { "COMPLETED", "CANCELLED" },
    COMPLETED   |-> {},
    CANCELLED   |-> {} ]

ChangeRisks == { "LOW", "HIGH" }

\* Instants of a window; 0 is NULL.
Instants == 0 .. MaxWindow

create_change(r, risk) ==
  /\ request[r].pc = "allowed" /\ request[r].op = "create_change"
  /\ \E c \in Changes :
       /\ change[c] = NoChange
       /\ change' = [change EXCEPT ![c] = [NoChange EXCEPT !.status = "DRAFT", !.risk = risk]]
  /\ End(r)
  /\ UNCHANGED policy

\* Only a draft is edited, as far as the row that was loaded tells.
update_change(r, risk) ==
  LET k == request[r] IN
  /\ k.pc = "loaded" /\ k.op = "update_change"
  /\ k.change.status = "DRAFT"
  /\ change' = [change EXCEPT ![k.id].risk = Written(risk, k.change.risk, @)]
  /\ End(r)
  /\ UNCHANGED policy

\* Mutant: scheduling asks for a start only.
WindowRequired_start(start, end) == start # 0 /\ (end # 0 => start < end)

\* Scheduling needs both ends of a window, in order.
WindowRequired(start, end) == start # 0 /\ end # 0 /\ start < end

\* start and end are 0 where the payload leaves them out.  A window is accepted with
\* DRAFT -> SCHEDULED only.
transition_change(r, status, start, end) ==
  LET k == request[r].change
      s == IF start # 0 THEN start ELSE k.start
      e == IF end # 0 THEN end ELSE k.end
  IN
  /\ request[r].pc = "loaded" /\ request[r].op = "transition_change"
  /\ status \in CHANGE_TRANSITIONS[k.status]
  /\ start # 0 \/ end # 0 => k.status = "DRAFT" /\ status = "SCHEDULED"
  /\ status = "SCHEDULED" => WindowRequired(s, e)
  /\ change' = [change EXCEPT ![request[r].id].status = Written(status, k.status, @),
                              ![request[r].id].start = Written(s, k.start, @),
                              ![request[r].id].end = Written(e, k.end, @)]
  /\ End(r)
  /\ UNCHANGED policy

-----------------------------------------------------------------------------
PolicyStep(r) ==
  \/ \E p \in Policies : _require_policy(r, p)
  \/ \E permission \in ALL_PERMISSIONS, conditions \in Payloads, enabled \in BOOLEAN :
       create_policy(r, permission, conditions, enabled)
  \/ \E permission \in ALL_PERMISSIONS \cup {request[r].policy.permission},
        conditions \in Payloads \cup {request[r].policy.conditions}, enabled \in BOOLEAN :
       update_policy(r, permission, conditions, enabled)
  \/ delete_policy(r)

ChangeStep(r) ==
  \/ \E c \in Changes : _require_change(r, c)
  \/ \E risk \in ChangeRisks : create_change(r, risk) \/ update_change(r, risk)
  \/ \E status \in DOMAIN CHANGE_TRANSITIONS, start, end \in Instants :
       transition_change(r, status, start, end)

Next ==
  \E r \in Requests :
    \/ \E u \in Users, op \in PolicyOps \cup ChangeOps : require_permission(r, u, op)
    \/ PolicyStep(r)
    \/ ChangeStep(r)
    \/ Refused(r)

Spec == Init /\ [][Next]_vars

-----------------------------------------------------------------------------
(* Properties                                                               *)

PolicyRows ==
  { NoPolicy } \cup [permission : ALL_PERMISSIONS, conditions : Payloads, enabled : BOOLEAN]

ChangeRows == [ status : DOMAIN CHANGE_TRANSITIONS \cup {"NONE"}, risk : ChangeRisks,
                start : Instants, end : Instants ]

\* Rows hold what their columns admit, and requests in flight what they loaded.
TypeOK ==
  /\ policy \in [Policies -> PolicyRows]
  /\ change \in [Changes -> ChangeRows]
  /\ request \in [Requests -> [ pc : { "idle", "allowed", "loaded" }, policy : PolicyRows,
                                op : PolicyOps \cup ChangeOps \cup {"none"}, change : ChangeRows,
                                id : Policies \cup Changes \cup {0} ]]

\* Nobody may do what needs the permission: a change freeze is on, and nobody who was
\* let through before is still under way.
Frozen(ops) ==
  /\ \E p \in Policies : /\ policy[p].enabled
                         /\ policy[p].permission \in { Needs(op) : op \in ops }
                         /\ policy[p].conditions = [always |-> TRUE]
  /\ \A r \in Requests : request[r].op \notin ops

\* A freeze holds for everyone, ADMIN included: once the requests that were let through
\* before have ended, nobody gets as far as the tables that the permission guards.  A freeze
\* of change.manage ends with its policy; one of governance.manage is for good, because the
\* policy that imposes it cannot be disabled or deleted through the API any more.
FreezeHolds ==
  [][/\ Frozen(PolicyOps) => Frozen(PolicyOps)' /\ UNCHANGED policy
     /\ Frozen(ChangeOps) => /\ UNCHANGED change
                             /\ \A r \in Requests : request'[r].op \notin ChangeOps]_vars

\* A window covers the clock times that lie less than its length after its start, on
\* whichever side of midnight.
WindowsAreCyclic ==
  \A p \in Policies : "time_window" \in DOMAIN policy[p].conditions =>
    LET window == policy[p].conditions["time_window"] IN
    \A now \in Moments :
      _matches_time_window(window, now) <=>
        /\ now.day \in window.days
        /\ (now.time - window.start) % DayLength < (window.end - window.start) % DayLength

\* What _validate_permission_name and _validate_conditions let through although it refuses
\* nobody: a permission that no route asks require_permission for, an empty object, roles
\* that nobody can hold, and a window whose end is its start, which by the engine's own
\* description would wrap midnight and by its code is empty.
Inert(rule) ==
  LET conditions == rule.conditions IN
  \/ rule.permission \notin { Needs(op) : op \in PolicyOps \cup ChangeOps }
  \/ DOMAIN conditions = {}
  \/ "roles" \in DOMAIN conditions /\ conditions["roles"] \cap DOMAIN ROLE_PERMISSIONS = {}
  \/ "time_window" \in DOMAIN conditions /\ conditions["time_window"].start = conditions["time_window"].end

\* The rule refuses a request that RBAC would let through: an operation that asks for the
\* permission, by a caller whose roles grant it, at a moment when the conditions match.
Refuses(rule, op, roles, now) ==
  /\ rule.permission = Needs(op)
  /\ permissions_for_roles(roles) \cap { WILDCARD, Needs(op) } # {}
  /\ _conditions_match(rule.conditions, roles, now)

\* No stored rule but an inert one is a dead letter: once enabled it refuses some request
\* that RBAC lets through; and its window is the one its clock times name, midnight included
\* (governance.py, _validate_permission_name and _validate_conditions; policy_engine.py,
\* _matches_time_window).
RulesBite ==
  /\ TypeOK
  /\ WindowsAreCyclic
  /\ \A p \in Policies :
       policy[p].enabled /\ ~Inert(policy[p]) =>
         \E op \in PolicyOps \cup ChangeOps, roles \in SUBSET DOMAIN ROLE_PERMISSIONS,
            now \in [day : 1 .. 7, time : Clock] : Refuses(policy[p], op, roles, now)

\* No change record is under way or completed without its execution window, however
\* many transitions race one another (governance.py, transition_change: the row is loaded
\* without a lock).
WindowBeforeProgress ==
  \A c \in Changes : change[c].status \in { "SCHEDULED", "IN_PROGRESS", "COMPLETED" } =>
    change[c].start # 0 /\ change[c].start < change[c].end
=============================================================================
