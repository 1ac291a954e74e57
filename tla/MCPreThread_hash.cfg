\* Two threads of one function, checked against its undisturbed hash (equiv-test-1.c).
CONSTANTS
  t1 = t1
  t2 = t2
  t3 = t3
  t4 = t4
  Thread = {t1, t2}
  SchedulerThread = SchedulerThread
  NullThread = NullThread
  Priority <- Ranked
  Code <- SameCode
  PutcAt = {}
  SysExitAt = {}
  Forever = {}
  Equiv = TRUE
  MaxRetrap = 1
SPECIFICATION Spec
INVARIANT
  HashAsExpected
