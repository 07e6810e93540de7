SPECIFICATION Spec
CONSTANTS
  Clients <- CancellingClients
  Capabilities = {"dynamic", "one_shot_capable"}
  TickLength = 3
  Nanosecond = 2
  MinTick = 2
  MaxTick = 8
  Punctual = TRUE
  MaxEvents = 4
  MaxClock = 10
  Word = 1024
INVARIANTS CancelFinds
CHECK_DEADLOCK FALSE
