SPECIFICATION Spec
CONSTANTS
  Users = {"admin", "operator"}
  RolesOf <- MCRolesOf
  Days = {1, 2}
  DayLength = 4
  Payloads <- MCPayloads
  Policies = {1}
  Changes = {1}
  MaxWindow = 2
  Requests = {r1, r2}
INVARIANT RulesBite WindowBeforeProgress
PROPERTY FreezeHolds
SYMMETRY Symmetric
