SPECIFICATION MCSpec
CONSTANTS
  warning = warning
  critical = critical
  Rules = {warning, critical}
  Severity <- MCSeverity
  MaxTime = 2
  Window = 1
  MaxAlarms = 3
  MaxIncidents = 3
  Workers = {w1, w2}
  Operators = {o1}
  NoRule = NoRule
SYMMETRY MCSymmetry
INVARIANTS
  Counts
  OpenAndLinked
PROPERTY SerialActivityForward
CHECK_DEADLOCK FALSE
