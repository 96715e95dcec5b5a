\* Sixteen pages, of which exec or fork may run out half way; three users of two
\* buffers for three sectors.
CONSTANTS
  NPROC = 2
  NPAGES = 16
  PGSIZE = 2
  NPTENTRIES = 2
  UTABLES = 3
  KTABLES = 1
  Images <- MCImages
  Deltas <- MCDeltas
  Proc = {u1, u2, u3}
  NBUF = 2
  Sector = {1, 2, 3}
  Value = {v0, v1}
  Zero = v0
  MaxHold = 2
  MaxPin = 1
  DiskErrors = FALSE
  None = None
SPECIFICATION MCSpec
VIEW View
SYMMETRY Users
INVARIANTS
  OwnedOnce
  NothingLost
  DirectoryInUse
  ExclusiveUse
  BufferMatchesDisk
  NoLostWakeup
PROPERTIES
  ImageKept
  OnlyHolderWrites
