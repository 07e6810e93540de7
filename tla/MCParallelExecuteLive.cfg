SPECIFICATION FairSpec
CONSTANTS
  Cores = {c0, c1}
  Online = {c0, c1}
  NSlots = 1
  MaxCalls = 2
  Policies = {"all", "others", "specific", "all_no_wait", "others_no_wait", "specific_no_wait"}
  CallerFlags = {TRUE}
  Punctual = TRUE
  NoCall = NoCall
INVARIANT AtMostOnce
PROPERTIES EveryCallReturns EveryCallRuns
CHECK_DEADLOCK FALSE
