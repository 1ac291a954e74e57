\* cq_peek_n while the producer may run.
CONSTANTS
  N = 4
  CountWord = 8
  Elem = {0, 1}
  Zero = 0
  Sizes = {2}
  Masked = FALSE
SPECIFICATION Spec
INVARIANT
  PeekKeepsCount
CHECK_DEADLOCK FALSE
