CONSTANTS
  Threads = {t1, t2}
  Requests <- MCRequests
  DefaultTargets <- MCDefaultTargets
  MaxCalls = 3
  Nobody = Nobody
  NoCall = NoCall
SPECIFICATION Spec
INVARIANTS
  OwnSettings
PROPERTIES
  EveryCallReturns
  Implements
CHECK_DEADLOCK FALSE
