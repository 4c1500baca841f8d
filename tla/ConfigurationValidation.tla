------------------------ MODULE ConfigurationValidation ------------------------
(***************************************************************************)
(* What a device definition must satisfy to be stored, to be published and *)
(* to be given an adapter: the typed model DeviceDefinition                *)
(* (backend/app/gateway/models.py), validate_configuration                 *)
(* (backend/app/assetconfig/validation.py) and the constructors that       *)
(* _build_adapter reaches (backend/app/gateway/runtime.py,                 *)
(* backend/adapters).  The three lists of conditions are written apart, in *)
(* three files, and the last one is only met after a publication.          *)
(*                                                                         *)
(* A payload is a record.  A text is "" or "blank" (only white space) or   *)
(* "text"; the registers of one payload share an address and a scale, the  *)
(* nodes a node id.                                                        *)
(***************************************************************************)
EXTENDS Integers

Protocols == { "mqtt", "opc_ua", "modbus_tcp", "simulator" }

CANONICAL_SIGNAL_FIELDS == { "temperature", "vibration" }   \* stand for the eight

FIRST_HOLDING_REGISTER == 40001
_MAX_HOLDING_REGISTER == FIRST_HOLDING_REGISTER + 65535

\* The values each field of a payload is tried with, the first in or on the
\* edge of what is accepted.
Fields ==
  [ device_id        |-> { "own", "other" },
    extra            |-> { "none", "plain", "secret" },
    blocks           |-> SUBSET Protocols,
    poll_interval_ms |-> { 99, 100, 3600000, 3600001 },
    operating_state  |-> { "", "blank", "text" },
    fault_state      |-> { "", "blank", "text" },
    rule_signal      |-> { "none", "vibration", "humidity" },
    signals          |-> { CANONICAL_SIGNAL_FIELDS, { "vibration" },
                           CANONICAL_SIGNAL_FIELDS \cup { "humidity" } },
    host             |-> { "", "blank", "text" },
    port             |-> { 0, 1, 65535, 65536 },
    unit_id          |-> { 0, 1, 247, 248 },
    timeout_seconds  |-> { 0, 1 },
    address          |-> { 40000, 40001, 105536, 105537 },
    scale            |-> { "finite", "infinite" },
    endpoint         |-> { "opc.tcp", "http" },
    node_id          |-> { "", "blank", "text" } ]

\* A complete definition of the given protocol.
Definition(protocol) ==
  [ protocol |-> protocol, blocks |-> { protocol }, device_id |-> "own", extra |-> "none",
    poll_interval_ms |-> 1000, operating_state |-> "text", fault_state |-> "text",
    rule_signal |-> "none", signals |-> CANONICAL_SIGNAL_FIELDS,
    host |-> "text", port |-> 502, unit_id |-> 1, timeout_seconds |-> 3,
    address |-> FIRST_HOLDING_REGISTER, scale |-> "finite",
    endpoint |-> "opc.tcp", node_id |-> "text" ]

\* The payloads that differ from a complete definition in up to two fields.
Payloads ==
  UNION { { [Definition(p) EXCEPT ![f] = x, ![g] = y] : x \in Fields[f], y \in Fields[g] } :
          p \in Protocols, f \in DOMAIN Fields, g \in DOMAIN Fields }

-----------------------------------------------------------------------------
(* DeviceDefinition.model_validate                                          *)

_require_full_coverage(d) == d.signals = CANONICAL_SIGNAL_FIELDS

StateRule(d) == d.rule_signal \in CANONICAL_SIGNAL_FIELDS \cup { "none" }

DeviceStateDefinition(d) ==
  d.operating_state # "" /\ d.fault_state # "" /\ StateRule(d)

ModbusDeviceConfig(d) ==
  /\ d.host # ""
  /\ d.port \in 1 .. 65535
  /\ d.unit_id \in 1 .. 247
  /\ d.timeout_seconds > 0
  /\ d.address \in FIRST_HOLDING_REGISTER .. _MAX_HOLDING_REGISTER
  /\ d.scale = "finite"
  /\ _require_full_coverage(d)

OpcUaDeviceConfig(d) ==
  /\ d.endpoint = "opc.tcp"
  /\ d.timeout_seconds > 0
  /\ d.node_id # ""
  /\ _require_full_coverage(d)

require_matching_protocol_block(d) == d.blocks = { d.protocol }

DeviceDefinition(d) ==
  /\ d.extra = "none"
  /\ d.poll_interval_ms \in 100 .. 3600000
  /\ DeviceStateDefinition(d)
  /\ "modbus_tcp" \in d.blocks => ModbusDeviceConfig(d)
  /\ "opc_ua" \in d.blocks => OpcUaDeviceConfig(d)
  /\ require_matching_protocol_block(d)

\* What create_draft and update_draft store.
_parse_definition(d) == DeviceDefinition(d) /\ d.device_id = "own"

-----------------------------------------------------------------------------
(* validate_configuration                                                   *)

polled(d) == d.protocol # "mqtt"

HasEndpoint(d) == d.blocks \cap { "modbus_tcp", "opc_ua" } # {}

_secret_issues(d) == d.extra = "secret"

\* No issue is found; the registry that _gateway_compatibility fills is empty
\* and takes every definition.
validate_configuration(d, device_status) ==
  /\ ~_secret_issues(d)
  /\ device_status = "ACTIVE"
  /\ _parse_definition(d)
  /\ polled(d) => HasEndpoint(d)

-----------------------------------------------------------------------------
(* The adapter                                                              *)

NotBlank(t) == t \notin { "", "blank" }

_normalize_registers(d) ==
  /\ d.address \in FIRST_HOLDING_REGISTER .. FIRST_HOLDING_REGISTER + 65535
  /\ d.scale = "finite"
  /\ d.signals # {}

ModbusTcpAdapter(d) ==
  /\ NotBlank(d.host)
  /\ d.port \in 1 .. 65535
  /\ d.unit_id \in 1 .. 247
  /\ d.timeout_seconds > 0
  /\ _normalize_registers(d)

_normalize_nodes(d) == NotBlank(d.node_id) /\ d.signals # {}

OpcUaAdapter(d) ==
  /\ d.endpoint = "opc.tcp"
  /\ d.timeout_seconds > 0
  /\ _normalize_nodes(d)

\* _build_adapter returns an adapter: a simulator needs a sample source in this
\* process, and any other definition is built from the first block it has.
_build_adapter(d, simulator_source) ==
  CASE d.protocol = "simulator"  -> simulator_source
    [] d.protocol # "simulator" /\ "modbus_tcp" \in d.blocks -> ModbusTcpAdapter(d)
    [] d.protocol # "simulator" /\ d.blocks \cap { "modbus_tcp", "opc_ua" } = { "opc_ua" }
                                 -> OpcUaAdapter(d)
    [] OTHER                     -> FALSE

\* The gateway can run the definition: it builds an adapter or, for a device
\* that is not polled, needs none.
Runnable(d) == polled(d) => _build_adapter(d, FALSE)

\* A text that the typed model takes for present and the constructors for blank.
BlankSlips(d) ==
  \/ d.protocol = "modbus_tcp" /\ d.host = "blank"
  \/ d.protocol = "opc_ua" /\ d.node_id = "blank"

\* Of the payloads that validate_configuration accepts, only those with a blank
\* host or node id cannot be run: for the rest the conditions of the three files
\* agree.  No payload of the simulator protocol is accepted.
ASSUME AcceptedIsRunnable ==
  \A d \in Payloads :
    /\ validate_configuration(d, "ACTIVE") => Runnable(d) # BlankSlips(d)
    /\ d.protocol = "simulator" => ~validate_configuration(d, "ACTIVE")
=============================================================================
