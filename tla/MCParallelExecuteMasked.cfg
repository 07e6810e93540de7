SPECIFICATION FairSpec
CONSTANTS
  Cores = {c0, c1}
  Online = {c0, c1}
  NSlots = 2
  MaxCalls = 1
  Policies = {"others"}
  CallerFlags = {FALSE}
  Punctual = FALSE
  NoCall = NoCall
PROPERTIES EveryCallReturns
CHECK_DEADLOCK FALSE
