\* Four processes on two CPUs: two can run while one is woken before it is off
\* its stack and another is ready.
SPECIFICATION MCSpec
CONSTANTS
  Parts = {"sched"}
  NPROC = 4
  CPU = {c1, c2}
  None = None
  Writer = {w1}
  Reader = {r1}
  Byte = {0}
  PIPESIZE = 2
  WORD = 4
  WLEN = 3
  RLEN = 2
  User = {u1}
  NBUF = 1
  Sector = {1}
  Value = {v0}
  Zero = v0
  MaxHold = 1
  MaxPin = 1
SYMMETRY CPUs
INVARIANTS
  OneCpuPerProcess
  NoMissedWakeup
