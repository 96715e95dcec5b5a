\* One CPU, one process at each end of the pipe.  A transaction may pin all buffers
\* but one, as LOGSIZE and NBUF allow, so that bget may run out.  A process may be done with its pipe for
\* good: deadlock is checked by MCSync.cfg and MCPipe.cfg.
SPECIFICATION MCFairSpec
CONSTANTS
  Parts = {"sched", "pipe", "bcache"}
  NPROC = 3
  CPU = {c1}
  None = None
  Writer = {w1}
  Reader = {r1}
  Byte = {0, 1}
  PIPESIZE = 2
  WORD = 4
  WLEN = 3
  RLEN = 2
  User = {u1, u2}
  NBUF = 2
  Sector = {1, 2, 3}
  Value = {v0}
  Zero = v0
  MaxHold = 1
  MaxPin = 1
PROPERTIES
  ProcessesRun
  EndsReleased
  TransferCompletes
CHECK_DEADLOCK FALSE
