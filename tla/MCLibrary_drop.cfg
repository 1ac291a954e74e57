CONSTANTS
  a = a
  b = b
  c = c
  Buffers = {a, b, c}
  Size <- MCSize
  Seeds = {0, 7}
  Word = 65536
  SaveFirst = TRUE
  MaxCalls = 3
  Messages <- MCMessages
  Rounds = 3
  MemSize = 24
  Memories <- MCMemories
  t1 = t1
  t2 = t2
  t3 = t3
  t4 = t4
  FmtThreads = {t1, t2}
  WordSize = 8
  Chars = {"a", "b", "z"}
  Formats <- MCFormats
  BufLen = 4
  QN = 4
  QWord = 8
  PushMax = 7
  e1 = e1
  e2 = e2
  e3 = e3
  null = null
  LElems = {e1, e2, e3}
  LNull = null
  StackN = 2
  StackWords = {1, 7}
  N = 4
  CountWord = 8
  Elem = {0, 1}
  Zero = 0
  Sizes = {2, 3}
  Masked = TRUE
  Thread = {t1, t2, t3, t4}
  Priority <- Ranks
  Delta <- UpAndDown
  Turns = 2
SPECIFICATION LibSpec
INVARIANT NewestKept
CHECK_DEADLOCK FALSE
