--------------------------- MODULE IncidentStates ---------------------------
(***************************************************************************)
(* The incident status vocabulary (backend/app/incidents/states.py).       *)
(***************************************************************************)

IncidentStatuses ==
  { "OPEN", "ACKNOWLEDGED", "INVESTIGATING", "UNDER_ANALYSIS", "ACTION_PENDING",
    "WORK_ORDER_CREATED", "MITIGATED", "RESOLVED", "CLOSED", "REOPENED", "CANCELLED" }
=============================================================================
