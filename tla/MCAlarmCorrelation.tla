-------------------------- MODULE MCAlarmCorrelation --------------------------
(***************************************************************************)
(* A small instance of AlarmCorrelation for TLC: a warning and a critical  *)
(* rule.  Each behaviour is serial or not: when it is, the samples of the  *)
(* device are ingested one after the other, as they are when one MQTT      *)
(* consumer or one gateway runtime delivers them all; when it is not,      *)
(* their transactions overlap.  Operators are concurrent in both.          *)
(***************************************************************************)
EXTENDS AlarmCorrelation, TLC

CONSTANTS warning, critical

VARIABLE serial

MCSeverity == warning :> 2 @@ critical :> 4

MCSymmetry == Permutations(Workers) \cup Permutations(Operators)

OneAtATime == \A v, w \in Workers : worker[v] # NoWork /\ worker[w] # NoWork => v = w

MCInit == Init /\ serial \in BOOLEAN

MCNext == Next /\ serial' = serial /\ (serial => OneAtATime')

MCSpec == MCInit /\ [][MCNext]_<<vars, serial>>

-----------------------------------------------------------------------------
\* Redelivery, races and rolled back transactions (insert_once, the savepoint of
\* _apply_alarm_rules) never count a breach twice; when samples are ingested one
\* after the other no breach is lost either and every incident is as severe as
\* its worst alarm, whatever operators do meanwhile.
Counts ==
  /\ NeverOvercounted
  /\ serial => CountedExactly /\ SeverityCovers

\* When samples are ingested one after the other, in whatever order, the latest
\* activity of alarms and incidents never moves back (_apply_breach and
\* _absorb_alarm).
SerialActivityForward ==
  [][serial =>
       /\ \A a \in Alarms : alarm[a].status # "NONE" => alarm'[a].last >= alarm[a].last
       /\ \A i \in Live : incident'[i].last >= incident[i].last]_<<vars, serial>>
=============================================================================
