SPECIFICATION Spec
CONSTANTS
  Dequeuers = {c1, c2}
  Blocks = {b1, b2}
  BlockSize = 2
  IndexSize = 2
  MaxCapacity = 4
  IndexT = 16
  MaxStall = 2
  MaxCount = 3
  MaxBulk = 2
  Null = Null
VIEW View
SYMMETRY Symmetric
INVARIANTS
  TypeOK
  BlockFound
  BlocksAccounted
  CountersAgree
PROPERTIES
  Refines
CHECK_DEADLOCK FALSE
