\* A counter as wide as the mask.
CONSTANTS
  drv = drv
  other = other
  GpioThreads = {drv, other}
  GpioPins = {1, 9, 10, 31, 32, 47}
  GpioFuncs = {0, 1, 4, 8}
  GpioMax = 3
  Driver = drv
  FifoSize = 2
  Lengths = {0, 1, 3}
  Transfers = 2
  TimeWord = 32
  Thousand = 5
  Tick = 2
  WdogMask = 4
  WdogWidth = 4
  Waits = {0, 7, 31}
  Passing = {1, 5, 31, 32}
  TimeMax = 66
  Fn = 4
  Code = {4, 8, 12}
  Flow <- MCFlow
  OnExit = 100
  StepMax = 4
  Asids = {1, 2}
  MmuMax = 5
  ExThreads = {1, 2}
  ExMax = 3
  e1 = e1
  e2 = e2
  e3 = e3
  e4 = e4
  Elem = {e1, e2, e3, e4}
  Null = Null
  Priority <- Ranks
SPECIFICATION MachineSpec
INVARIANT WatchdogNotEarly
CHECK_DEADLOCK FALSE
