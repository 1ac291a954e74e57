\* Single-step mode on; a putc, a loop, a call of sys_exit.
CONSTANTS
  t1 = t1
  t2 = t2
  t3 = t3
  t4 = t4
  Thread = {t1, t2, t3, t4}
  SchedulerThread = SchedulerThread
  NullThread = NullThread
  Priority <- Ranked
  Code <- MixedCode
  PutcAt <- PutcCode
  SysExitAt <- SysExitCode
  Forever = {}
  Equiv = TRUE
  MaxRetrap = 1
SPECIFICATION Spec
INVARIANTS
  TypeOK
  ContextIntegrity
  NoThreadLost
  HighestPriorityRuns
  SingleStepBalanced
  HashCoversExecution
  MismatchOnlyAfterRetrap
PROPERTIES
  RoundRobin
  ImplementsPool
