SPECIFICATION RegistrySpec
CONSTANTS
  RULE_SIGNAL_NAMES = {"temperature", "load"}
  Low <- MCLow
  High <- MCHigh
  Thresholds <- MCThresholds
  Comparisons = {"GT", "GTE", "LT", "NE"}
  MaxPatch = 1
  DeviceTypes = {"motor"}
  Editors = {e1, e2}
  Unknown = Unknown
  Null = Null
SYMMETRY MCSymmetry
INVARIANTS
  EvaluationNeverRaises
  InertOnlyAtTheEdges
