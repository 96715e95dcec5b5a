\* Two processes next to init, a directory /a, names for two more inodes; two
\* processes that write three times in all, to a disk with room for both files.
SPECIFICATION MCSpec
CONSTANTS
  Proc = {p1, p2}
  NINUM = 3
  NINODE = 3
  NFILE = 1
  Name = {"a", "b"}
  Path <- Paths
  Calls = {"open", "creat", "mkdir", "link", "unlink", "chdir", "close", "exit"}
  Image <- Images
  MaxCalls = 3
  None = None
  Caller = {c1, c2}
  Regular = {2, 3}
  BSIZE = 2
  NDIRECT = 1
  NINDIRECT = 2
  METABLOCKS = 4
  SIZE = 22
  LOGSIZE = 6
  Contents <- MCContents
  Chunks <- MCChunks
  MaxWrites = 3
  Lengths = {3}
VIEW FilesView
SYMMETRY Processes
INVARIANTS
  CountsMatch
  NamesAreSafe
  ValidMatchesDisk
  KeepsRunning
  BlocksAccounted
  FitsInLog
PROPERTIES
  ByteFiles
