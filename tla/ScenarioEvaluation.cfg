SPECIFICATION ScenarioSpec
CONSTANTS
  Scenarios <- MCScenarios
  Earlier <- MCEarlier
  None = None
CHECK_DEADLOCK FALSE
INVARIANTS
  VerdictEarned
  InjectionComplete
