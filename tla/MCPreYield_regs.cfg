\* Two equal threads that yield to each other.
CONSTANTS
  t1 = t1
  t2 = t2
  t3 = t3
  t4 = t4
  Thread = {t1, t2}
  Null = Null
  SchedulerThread = SchedulerThread
  Priority <- Ranks
  Order <- Forked
  Yields <- AllYield
  MaxInterrupts = 0
  Equiv = {FALSE}
SPECIFICATION Spec
INVARIANT
  RegistersSaved
