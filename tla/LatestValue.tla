------------------------------ MODULE LatestValue ------------------------------
(***************************************************************************)
(* What the latest-value cache promises: of the samples that are known it  *)
(* shows one, and replaces it by newer ones only.  It may forget.  Samples *)
(* are their timestamps, and 0 shows nothing.                              *)
(***************************************************************************)
EXTENDS Naturals

VARIABLES known, shown

Init == known = {} /\ shown = 0

Learn == (\E t \in known' : known' = known \cup {t}) /\ UNCHANGED shown

Show == shown' \in known /\ shown' > shown /\ UNCHANGED known

Forget == shown' = 0 /\ UNCHANGED known

Next == Learn \/ Show \/ Forget

Spec == Init /\ [][Next]_<< known, shown >>
=============================================================================
