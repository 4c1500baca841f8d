----------------------- MODULE MCMaintenanceWorkflow -----------------------
(***************************************************************************)
(* A small instance of MaintenanceWorkflow for TLC: two start calls, which *)
(* may or may not ask for the same run, and two concurrent reviewers.      *)
(***************************************************************************)
EXTENDS MaintenanceWorkflow, KnowledgeRetrieval, TLC

CONSTANTS i1, d1, d2, e1, e2

MCEvidence == { e1, e2 }

\* A harmless plan, an invasive one, and one that cites what was not retrieved.
MCPlans ==
  { { [action |-> "INSPECT", evidence |-> {e1}] },
    { [action |-> "REPLACE", evidence |-> {e1}] },
    { [action |-> "TEST", evidence |-> {e1, e2}] } }

MCIncidents == { i1 }

MCDiagnoses == { d1, d2 }

Row(i, st, sev) == [incident |-> i, status |-> st, severity |-> sev]

Table(row1, row2) == d1 :> row1 @@ d2 :> row2

MCDiagnosisTables ==
  { Table(Row(i1, "FAULT", "NONE"), Row(i1, "FAULT", "HIGH")),
    Table(Row(i1, "FAULT", "HIGH"), Row(i1, "UNCERTAIN", "LOW")),
    Table(Row(i1, "FAULT", "LOW"), Row(NoIncident, "FAULT", "LOW")) }

Chunk(id, covered) == [ chunk_id |-> id, equipment_type |-> "industrial_motor",
                        score |-> covered, covered |-> covered, dense |-> 60 ]

\* What the search finds: a chunk that partly covers the query, for a fault the
\* knowledge base knows and for one that it does not.
MCRetrievals ==
  { search(<<Chunk(e1, 2), Chunk(e2, 0)>>, build_query(fault, 6), 5) :
    fault \in { "OVERLOAD", "UNSUPPORTED" } }
=============================================================================
