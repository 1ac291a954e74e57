\* Preemption alone (equiv = 0), with a thread that never exits.
CONSTANTS
  t1 = t1
  t2 = t2
  t3 = t3
  t4 = t4
  Thread = {t1, t2, t3}
  SchedulerThread = SchedulerThread
  NullThread = NullThread
  Priority <- Ranked
  Code <- LoopCode
  PutcAt <- PutcCode
  SysExitAt = {}
  Forever <- Looping
  Equiv = FALSE
  MaxRetrap = 0
SPECIFICATION FairSpec
PROPERTIES
  NoStarvation
  Termination
  ImplementsFairPool
