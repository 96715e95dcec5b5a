\* Three processes, and a log with room for two blocks: transactions that log
\* nothing, that fit, that absorb, and that are too big.
SPECIFICATION FairSpec
CONSTANTS
  Proc = {p1, p2, p3}
  Block = {b1, b2, b3}
  Value = {v0, v1}
  LOGSIZE = 3
  NLOG = 3
  Uncached = Uncached
INVARIANTS
  PinnedUntilInstalled
PROPERTIES
  AtomicTransactions
  LogProgress
