------------------------ MODULE MCDeviceConfiguration ------------------------
(***************************************************************************)
(* A small instance of DeviceConfiguration for TLC, its contents taken     *)
(* from ConfigurationValidation: a definition that polls over Modbus, one  *)
(* that is fed over MQTT, one of a simulator, which validation refuses,    *)
(* and one whose host is blank, which it accepts and no adapter takes.     *)
(* All of them can be stored.  Calls and runtimes are interchangeable.     *)
(*                                                                         *)
(* Each behaviour is serial or not: when it is, a service call ends before *)
(* the next one, or a command to start the device, is taken up; stops and  *)
(* failures come at any time.  Overlapping calls multiply the states, so   *)
(* for them there are two versions and one content; where calls are        *)
(* serial, a third version has the content of one of the other two.        *)
(***************************************************************************)
EXTENDS DeviceConfiguration, ConfigurationValidation, TLC

VARIABLE serial

Payload(x) == IF x = "blank_host" THEN [Definition("modbus_tcp") EXCEPT !.host = "blank"]
              ELSE Definition(x)

MCContents ==
  { x \in { "modbus_tcp", "mqtt", "simulator", "blank_host" } : _parse_definition(Payload(x)) }

MCValidContents == { x \in MCContents : validate_configuration(Payload(x), "ACTIVE") }

MCRunnableContents == { x \in MCContents : Runnable(Payload(x)) }

MCSymmetry == Permutations(RuntimeIds) \cup Permutations(Callers)

OneAtATime == \A b, c \in Callers : call[b] # NoCall /\ call[c] # NoCall => b = c

NoneInFlight == \A c \in Callers : call[c] = NoCall

\* Bound on behaviours that are not serial: what is asked of them does not depend on
\* the contents, so there is one, and with one content nothing can be edited; a
\* runtime is halted or an outcome lost, but not both.
OverlapBound ==
  /\ \A v \in Versions : Exists(v) => v <= 2 /\ vcontent[v] = "modbus_tcp"
  /\ \A c \in Callers : call[c].pc # "update"
  /\ Cardinality(halted) <= 1
  /\ halted # {} => ~unrecorded

\* Bound on serial behaviours: versions differ in content or not, which two contents show.
SerialBound ==
  Exists(3) => vcontent[3] \in { vcontent[1], vcontent[2] }

MCInit == Init /\ serial \in BOOLEAN

\* The behaviours that are serial or not; the proofs are about all of them, TLC keeps to
\* the bounds.
EitherNext ==
  /\ Next
  /\ serial' = serial
  /\ serial => OneAtATime' /\ (start_device => NoneInFlight)

EitherSpec == MCInit /\ [][EitherNext]_<<vars, serial>>

MCNext == EitherNext /\ IF serial THEN SerialBound' ELSE OverlapBound'

MCSpec == MCInit /\ [][MCNext]_<<vars, serial>>

-----------------------------------------------------------------------------
\* One request at a time, with crashes, lost records, failed applications, stops and
\* runtimes that give up anywhere: a version that the API calls in sync is what the
\* gateway's runtime was built with and, unless it was stopped or gave up, polls
\* with; a row that is neither APPLYING nor being settled names the version the
\* gateway has applied; nothing polls the device behind the gateway's back; and what
\* is published was accepted as it stands.
SerialTruth ==
  serial =>
    /\ InSyncTruth
    /\ up /\ reported.status # "APPLYING" => reported.applied = gatewayApplied
    /\ NoOrphanRuntime
    /\ \A v \in Published : vcontent[v] \in ValidContents

\* One call at a time, a row that has been published keeps its content, is never
\* deleted and can only be archived; an archived one never changes.
SerialRowsImmutable ==
  [][serial =>
       \A v \in Versions :
         /\ vstatus[v] = "PUBLISHED" => /\ vstatus'[v] \in { "PUBLISHED", "ARCHIVED" }
                                        /\ vcontent'[v] = vcontent[v]
         /\ vstatus[v] = "ARCHIVED" => /\ vstatus'[v] = "ARCHIVED"
                                       /\ vcontent'[v] = vcontent[v]]_<<vars, serial>>
=============================================================================
