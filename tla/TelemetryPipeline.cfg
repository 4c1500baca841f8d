SPECIFICATION Spec
CONSTANTS
  MaxTime = 5
  Workers = {w1, w2}
  Readers = {r1}
  Clients = {c1}
  QueueSize = 1
  window_size = 3
  stride = 2
  MaxGapFactor = 1
INVARIANTS
  NothingUnannounced
  ClientsCatchUp
  DiagnosesSpaced
PROPERTIES
  LatestWins
SYMMETRY Symmetric
