----------------------------- MODULE AlarmRules -----------------------------
(***************************************************************************)
(* The alarm rule registry: creation and patching of a rule through        *)
(* AlarmRuleService, and the evaluation of the stored rule against the     *)
(* readings of a sample.                                                   *)
(*                                                                         *)
(* A patch is validated merged with the row its session loaded, and its    *)
(* UPDATE sets only the columns the patch changed: two patches that load   *)
(* the same row can each be valid and their sum not.                       *)
(*                                                                         *)
(* Names, descriptions, severity and priority are left out: they are       *)
(* checked field by field like the operator and evaluation does not read   *)
(* them.  Readings and thresholds are integers inside small ranges.        *)
(***************************************************************************)
EXTENDS Integers, FiniteSets

CONSTANTS
  RULE_SIGNAL_NAMES,  \* the canonical signals
  Low, High,          \* SIGNAL_SPECS: the physical range of a signal
  Thresholds,         \* thresholds a body may carry
  Comparisons,        \* operators a body may carry
  DeviceTypes,        \* device types a rule may be scoped to
  Editors,            \* API requests in flight
  MaxPatch,           \* bound: fields one patch sets
  Unknown,            \* a value outside every vocabulary
  Null                \* an explicit null

ASSUME RangeAssumption ==
  /\ Low \in [RULE_SIGNAL_NAMES -> Int]
  /\ High \in [RULE_SIGNAL_NAMES -> Int]
  /\ \A s \in RULE_SIGNAL_NAMES : Low[s] < High[s]
  /\ Thresholds \subseteq Int
  /\ Comparisons \subseteq {"GT", "GTE", "LT", "LTE", "EQ", "NE"}
  /\ MaxPatch \in Nat
ASSUME VocabularyAssumption == Null \notin RULE_SIGNAL_NAMES /\ DeviceTypes # {}

VARIABLES
  rule,   \* the row of alarm_rules, a single id; Unregistered before its creation
  call,   \* what each request has validated
  raced   \* history: a patch was committed over a row changed since its load

registry_vars == <<rule, call, raced>>

RULE_OPERATORS == {"GT", "GTE", "LT", "LTE", "EQ", "NE"}

Unregistered == [signal_name |-> Null]
Idle == [at |-> "idle"]

\* A complete rule body as a request may send it.
Body ==
  [ signal_name : RULE_SIGNAL_NAMES \cup {Unknown, Null},
    operator : Comparisons \cup {Unknown, Null},
    threshold : Thresholds \cup {Null},
    device_type : DeviceTypes \cup {Null},
    enabled : BOOLEAN \cup {Null} ]

Fields == {"signal_name", "operator", "threshold", "device_type", "enabled"}

\* A patch body sets some of the fields.
Patches ==
  UNION {{[f \in fields |-> body[f]] : body \in Body} :
           fields \in {fs \in SUBSET Fields : Cardinality(fs) <= MaxPatch}}

-----------------------------------------------------------------------------
(* Evaluation, incidents/rules.py.                                         *)

compare(operator, value, threshold) ==
  CASE operator = "GT" -> value > threshold
    [] operator = "GTE" -> value >= threshold
    [] operator = "LT" -> value < threshold
    [] operator = "LTE" -> value <= threshold
    [] operator = "EQ" -> value = threshold
    [] operator = "NE" -> value # threshold

\* A payload holds some of the signals; one it does not hold has no reading.
canonical_readings(payload) == [s \in {t \in DOMAIN payload : payload[t] # Null} |-> payload[s]]

\* Mutant: a missing reading counts as zero.
Breached_defaulting(r, readings, device_type) ==
  /\ r.enabled
  /\ r.device_type \in {Null, device_type}
  /\ compare(r.operator,
             IF r.signal_name \in DOMAIN readings THEN readings[r.signal_name] ELSE 0, r.threshold)

\* One step of the loop of evaluate_rules: the rule is breached by the readings.
Breached(r, readings, device_type) ==
  /\ r.enabled
  /\ r.device_type \in {Null, device_type}
  /\ r.signal_name \in DOMAIN readings
  /\ compare(r.operator, readings[r.signal_name], r.threshold)

\* AlarmRuleRepository.list_applicable: the filter the database applies first.
list_applicable(rules, device_type) ==
  {r \in rules : r.enabled /\ (r.device_type = Null \/ (device_type # Null /\ r.device_type = device_type))}

\* Mutant: only the upper end of the range is checked.
validate_rule_definition_upper(r) ==
  /\ r.signal_name \in RULE_SIGNAL_NAMES
  /\ r.operator \in RULE_OPERATORS
  /\ r.threshold # Null
  /\ r.threshold <= High[r.signal_name]

validate_rule_definition(r) ==
  /\ r.signal_name \in RULE_SIGNAL_NAMES
  /\ r.operator \in RULE_OPERATORS
  /\ r.threshold # Null
  /\ r.threshold \in Low[r.signal_name]..High[r.signal_name]

-----------------------------------------------------------------------------
(* The registry's writes.                                                  *)

RegistryInit == rule = Unregistered /\ call = [e \in Editors |-> Idle] /\ raced = FALSE

\* create_rule up to its insert: the body is validated and the id is free.
CreateCheck(e, body) ==
  /\ call[e] = Idle
  /\ body.enabled # Null
  /\ validate_rule_definition(body)
  /\ rule = Unregistered
  /\ call' = [call EXCEPT ![e] = [at |-> "create", body |-> body]]
  /\ UNCHANGED <<rule, raced>>

\* The primary key admits one insert; the other request fails.
create_rule(e) ==
  /\ call[e].at = "create"
  /\ rule' = IF rule = Unregistered THEN call[e].body ELSE rule
  /\ call' = [call EXCEPT ![e] = Idle]
  /\ UNCHANGED raced

\* apply_update: assign the supplied fields, leave the others alone.
apply_update(r, changes) ==
  [f \in Fields |-> IF f \in DOMAIN changes THEN changes[f] ELSE r[f]]

\* Every request that has loaded the row when it changes holds a stale one.
Outdated == [d \in Editors |-> IF call[d].at = "patch" THEN [call[d] EXCEPT !.stale = TRUE]
                                                     ELSE call[d]]

\* update_rule up to its commit: load, refuse an empty patch, validate the
\* merge.  Kept for the UPDATE are the columns whose value the patch changes.
PatchCheck(e, changes) ==
  /\ call[e] = Idle
  /\ rule # Unregistered
  /\ DOMAIN changes # {}
  /\ validate_rule_definition(apply_update(rule, changes))
  /\ LET changed == {f \in DOMAIN changes : changes[f] # rule[f]}
     IN  call' = [call EXCEPT ![e] = [at |-> "patch", stale |-> FALSE,
                                      changes |-> [f \in changed |-> changes[f]]]]
  /\ UNCHANGED <<rule, raced>>

\* The columns are NOT NULL except device_type: a null "enabled" fails here.
update_rule(e) ==
  /\ call[e].at = "patch"
  /\ LET row == apply_update(rule, call[e].changes)
     IN  IF row.enabled = Null
           THEN UNCHANGED <<rule, raced>> /\ call' = [call EXCEPT ![e] = Idle]
           ELSE /\ rule' = row
                /\ raced' = (raced \/ call[e].stale)
                /\ call' = [IF row # rule THEN Outdated ELSE call EXCEPT ![e] = Idle]

RegistryNext ==
  \E e \in Editors :
    \/ \E body \in Body : CreateCheck(e, body)
    \/ create_rule(e)
    \/ \E changes \in Patches : PatchCheck(e, changes)
    \/ update_rule(e)

RegistrySpec == RegistryInit /\ [][RegistryNext]_registry_vars

-----------------------------------------------------------------------------
(* Properties.                                                             *)

Payloads == [RULE_SIGNAL_NAMES -> Thresholds \cup {Null}]
Measurable(s, v) == v \in Low[s]..High[s]

\* Ingestion contains a rule that raises by dropping every alarm of the sample
\* (telemetry.py:193).  A stored rule never raises, also when racing patches
\* composed it: its operator is one compare knows and its threshold a number;
\* and a payload without the rule's signal never breaches it.
EvaluationNeverRaises ==
  rule # Unregistered =>
    /\ rule.signal_name \in RULE_SIGNAL_NAMES
    /\ rule.operator \in RULE_OPERATORS
    /\ rule.threshold # Null
    /\ \A payload \in Payloads, t \in DeviceTypes :
         /\ Breached(rule, canonical_readings(payload), t) => payload[rule.signal_name] # Null
         /\ Breached(rule, canonical_readings(payload), t) => rule \in list_applicable({rule}, t)

\* A rule that no measurable reading can breach is a silent alarm.  Validation
\* leaves exactly two such enabled rules per signal, "above the top" and "below
\* the bottom" of its range, unless racing patches put the signal of one
\* together with the threshold of another.
InertOnlyAtTheEdges ==
  rule # Unregistered /\ rule.enabled /\ ~raced =>
    LET s == rule.signal_name
        fires(v) == \E t \in DeviceTypes : Breached(rule, [x \in {s} |-> v], t)
    IN  (\E v \in Low[s]..High[s] : fires(v))
          <=> <<rule.operator, rule.threshold>> \notin {<<"GT", High[s]>>, <<"LT", Low[s]>>}
=============================================================================
