SPECIFICATION FairSpec
CONSTANTS
  i1 = i1
  d1 = d1
  d2 = d2
  e1 = e1
  e2 = e2
  Evidence <- MCEvidence
  Plans <- MCPlans
  Incidents <- MCIncidents
  Diagnoses <- MCDiagnoses
  Starters = {s1, s2}
  Reviewers = {m1, m2}
  DiagnosisTables <- MCDiagnosisTables
  Retrievals <- MCRetrievals
  MaxAttempts = 2
  NoPlan = NoPlan
  NoIncident = NoIncident
  NoRequest = NoRequest
  NoRetrieval = NoRetrieval
  NoRun = NoRun
INVARIANTS
  OrderAuthorized
  RunsAndOrders
  ApprovalsSound
  IncidentStatusEarned
PROPERTIES
  DecisionsStand
  StartsEnd
CHECK_DEADLOCK FALSE
