SPECIFICATION Spec
CONSTANTS
  Cores = {c0, c1}
  Online = {c0, c1}
  NSlots = 2
  MaxCalls = 3
  Policies = {"others", "specific_no_wait"}
  CallerFlags = {TRUE}
  Punctual = FALSE
  NoCall = NoCall
INVARIANTS Synchronized
CHECK_DEADLOCK FALSE
