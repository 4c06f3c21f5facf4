SPECIFICATION Spec
CONSTANTS
  NumBlocks = 2
  SizeOfData = 5
  HeaderBytes = 4
  MinAlignment = 4
  Word = 64
  Null = Null
  NoId = NoId
  Garbage = 15
  Threads = {t1}
  Main = t1
  SizeT = 16
  MaxPools = 2
  Makers = {t1}
  Clients <- LocalOnly
INVARIANTS
  ActivePoolHasRoom
CHECK_DEADLOCK FALSE
