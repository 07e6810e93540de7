SPECIFICATION BringupSpec
CONSTANTS
  Page = 2  Fan = 8  Window = 96  Low = 8  Top = 511  KernelBase = 7936
  Machines <- MCMachines  Default <- MCDefault
  Firmware <- MCFirmware  All = All  None = None
  AtOnce = 2  Word = 16
  Cpus = {0, 1, 2, 3}  Kinds = {"x2apic"}  SlotCount = 1  Count = 2  Tick = 1
  Times = {1, 9, 300}  IdShift = 4  MaxEvents = 0  FollowedCores = 3
INVARIANT CoreIsKnown
CHECK_DEADLOCK FALSE
