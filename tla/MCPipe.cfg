\* Two processes at each end of a pipe whose counters wrap after two turns of the
\* buffer.
SPECIFICATION MCSpec
CONSTANTS
  Writer = {w1, w2}
  Reader = {r1, r2}
  Byte = {0, 1}
  PIPESIZE = 2
  WORD = 4
  WLEN = 3
  RLEN = 2
  None = None
SYMMETRY Symmetry
INVARIANTS
  PipeConsistent
PROPERTIES
  ZeroMeansEof
  FirstInFirstOut
