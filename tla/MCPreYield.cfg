\* Two equal threads and two below them, yielding and interrupted.
CONSTANTS
  t1 = t1
  t2 = t2
  t3 = t3
  t4 = t4
  Thread = {t1, t2, t3, t4}
  Null = Null
  SchedulerThread = SchedulerThread
  Priority <- Ranks
  Order <- Forked
  Yields <- HalfYield
  MaxInterrupts = 3
  Equiv = {FALSE, TRUE}
SPECIFICATION Spec
INVARIANTS
  QueueWholeUntilHit
  StopsOnlyAfterHit
  RightThreadRuns
PROPERTY
  YieldGivesWay
