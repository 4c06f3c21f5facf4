SPECIFICATION Spec
CONSTANTS
  NumBlocks = 2
  SizeOfData = 5
  HeaderBytes = 4
  MinAlignment = 4
  Word = 64
  Null = Null
  NoId = NoId
  Garbage = 15
  Threads = {t1, t2}
  Main = t1
  SizeT = 16
  MaxPools = 3
  Makers = {t1}
  Clients <- RemoteOnly
INVARIANTS
  ActivePoolIsThere
CHECK_DEADLOCK FALSE
