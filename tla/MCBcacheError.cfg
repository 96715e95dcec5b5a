SPECIFICATION Spec
CONSTANTS
  Proc = {p1, p2}
  NBUF = 2
  Sector = {1, 2, 3}
  Value = {v0, v1}
  Zero = v0
  MaxHold = 1
  MaxPin = 1
  DiskErrors = TRUE
  None = None
SYMMETRY Symmetry
INVARIANT BreadReturnsContents
