SPECIFICATION Spec
CONSTANTS
  Cores = {c1, c2}
  c1 = c1  c2 = c2  None = None  Bsp = c1
  NSlots = 1
  MaxX = 2  MaxY = 2  Tab = 2
  Messages <- MCMessages  Colours = {"red", "gray"}
  MaxWork = 3
PROPERTIES PanicIsAlwaysRead
CHECK_DEADLOCK FALSE
