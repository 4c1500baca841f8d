SPECIFICATION MCSpec
CONSTANTS
  Contents <- MCContents
  ValidContents <- MCValidContents
  RunnableContents <- MCRunnableContents
  Bootstrap = yaml
  MaxVersion = 3
  Callers = {c1, c2}
  RuntimeIds = {r1, r2, r3}
  NoContent = NoContent
  NoRuntime = NoRuntime
SYMMETRY MCSymmetry
INVARIANTS
  SerialTruth
  TrackedRuns
PROPERTIES
  VersionsSound
  SerialRowsImmutable
