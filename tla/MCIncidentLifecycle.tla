------------------------- MODULE MCIncidentLifecycle -------------------------
(***************************************************************************)
(* A small instance of IncidentLifecycle for TLC; requests and incidents   *)
(* are interchangeable.  Incidents meet only through the link of a         *)
(* diagnosis, so the instance lets one incident be worked on while the     *)
(* others stay as they were created, and holds at most four rows: three    *)
(* incidents and a diagnosis, or two of each.                              *)
(***************************************************************************)
EXTENDS IncidentLifecycle, TLC

MCSymmetry == Permutations(Callers) \cup Permutations(Incidents)

OneWorkedOn == Cardinality({i \in Incidents : row[i] \notin {Absent, Opened}}) <= 1
FourRows == Len(link) + Cardinality({i \in Incidents : Exists(i)}) <= 4
=============================================================================
