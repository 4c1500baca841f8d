---------------------------- MODULE MCAlarmRules ----------------------------
(***************************************************************************)
(* Two signals whose ranges overlap, as those of temperature and load do.  *)
(***************************************************************************)
EXTENDS AlarmRules, TLC

MCLow == "temperature" :> -1 @@ "load" :> 0
MCHigh == "temperature" :> 2 @@ "load" :> 1
MCThresholds == -1..2
MCSymmetry == Permutations(Editors)
=============================================================================
