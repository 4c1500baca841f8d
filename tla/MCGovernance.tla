----------------------------- MODULE MCGovernance -----------------------------
(***************************************************************************)
(* An instance of Governance: an administrator and an operator, a day of   *)
(* four clock times, and one condition object of each kind, among them a   *)
(* freeze, a window on either side of midnight, an empty one, and a key    *)
(* and a role that are misspelt.                                           *)
(***************************************************************************)
EXTENDS Governance, TLC

MCRolesOf == [admin |-> {"ADMIN"}, operator |-> {"OPERATOR"}]

Window(start, end) == [days |-> {1}, start |-> start, end |-> end]

MCPayloads ==
  { << >>, [always |-> TRUE], [roles |-> {"OPERATER"}], [role |-> {"OPERATOR"}],
    [roles |-> {"OPERATOR"}, time_window |-> Window(3, 1)],
    [time_window |-> Window(2, 2)] }

Symmetric == Permutations(Requests)
=============================================================================
