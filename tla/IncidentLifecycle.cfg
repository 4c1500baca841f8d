SPECIFICATION Spec
CONSTANTS
  Incidents = {i1, i2, i3}
  MaxDiagnoses = 2
  Callers = {c1, c2}
  NoIncident = NoIncident
SYMMETRY MCSymmetry
CONSTRAINTS OneWorkedOn FourRows
INVARIANTS
  LeavesLiveOnlyMitigated
  DuplicatesBounded
  StampsUnlessOverwritten
CHECK_DEADLOCK FALSE
