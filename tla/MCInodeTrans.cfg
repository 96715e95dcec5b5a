\* A process removes its current directory and leaves it.
SPECIFICATION Spec
CONSTANTS
  Proc = {p1, p2}
  NINUM = 3
  NINODE = 3
  NFILE = 1
  Name = {"a", "b"}
  Path <- Paths
  Calls = {"unlink", "chdir", "exit"}
  Image <- Images
  MaxCalls = 4
  None = None
VIEW View
SYMMETRY Symmetry
INVARIANT WritesInTransaction
