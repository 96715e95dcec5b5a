\* A writer that is killed in a write that fills the pipe.
SPECIFICATION Spec
CONSTANTS
  Writer = {w1}
  Reader = {r1}
  Byte = {0, 1}
  PIPESIZE = 2
  WORD = 4
  WLEN = 3
  RLEN = 2
  None = None
INVARIANTS
  ReaderSleepsOnEmpty
CHECK_DEADLOCK FALSE
