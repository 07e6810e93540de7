SPECIFICATION Spec
CONSTANTS
  Cores = {c0, c1, c2}
  Online = {c0, c1, c2}
  NSlots = 2
  MaxCalls = 1
  Policies = {"all", "others", "specific"}
  CallerFlags = {TRUE, FALSE}
  Punctual = FALSE
  NoCall = NoCall
SYMMETRY CoresSymmetry
INVARIANTS IInv
PROPERTIES Implements
CHECK_DEADLOCK FALSE
