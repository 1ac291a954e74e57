CONSTANTS
  a = a
  b = b
  c = c
  Buffers = {a, b, c}
  Size <- MCSize
  Seeds = {0, 7}
  Word = 65536
  SaveFirst = FALSE
  MaxCalls = 3
SPECIFICATION RandomSpec
PROPERTY ResumesStreams
CHECK_DEADLOCK FALSE
