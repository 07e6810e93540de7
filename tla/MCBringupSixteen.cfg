SPECIFICATION BringupSpec
CONSTANTS
  Page = 2  Fan = 8  Window = 96  Low = 8  Top = 511  KernelBase = 7936
  Machines <- MCMachines  Default <- MCDefault
  Firmware <- MCFirmware  All = All  None = None
  AtOnce = 2  Word = 16
  Cpus = {0, 1, 2, 3}  Kinds = {"x2apic"}  SlotCount = 1  Count = 2  Tick = 1
  Times = {40}  IdShift = 4  MaxEvents = 1  FollowedCores = 3
INVARIANT TimerKeepsTime
CHECK_DEADLOCK FALSE
