SPECIFICATION FairSpec
CONSTANTS
  Tasks = {t1, t2}
  Operators = {o1, o2}
  failure_threshold = 2
  reconnect_threshold = 4
  max_reconnect_attempts = 2
  NoTask = NoTask
INVARIANTS
  ConnectionsOwned
  StateIsTrue
PROPERTIES
  RetriesEnd
  FailedLinkRenewed
  StoppedTasksEnd
CHECK_DEADLOCK FALSE
