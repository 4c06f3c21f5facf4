SPECIFICATION Spec
CONSTANTS
  Dequeuers = {c1, c2}
  Blocks = {b1, b2, b3}
  BlockSize = 2
  IndexSize = 2
  MaxCapacity = 4
  IndexT = 16
  MaxStall = 2
  MaxBulk = 2
  MaxCount = 3
  Undo = FALSE
  Null = Null
VIEW View
SYMMETRY Symmetric
INVARIANTS
  BlockFound
  BlocksAccounted
PROPERTIES
  Refines
CHECK_DEADLOCK FALSE
