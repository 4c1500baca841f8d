SPECIFICATION FairTraceSpec
CONSTANTS
  StartCalls = {s1, s2}
  Deciders = {d1, d2}
  MaxAgents = 1
 
PROPERTY ProvisionalEnds
CHECK_DEADLOCK FALSE
