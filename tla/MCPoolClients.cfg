SPECIFICATION FairSpec
CONSTANTS
  NumBlocks = 2
  SizeOfData = 5
  HeaderBytes = 4
  MinAlignment = 4
  Word = 64
  Null = Null
  NoId = NoId
  Garbage = 15
  Threads = {t1, t2}
  Main = t1
  SizeT = 16
  MaxPools = 3
  Makers = {t1}
  Clients <- Local
INVARIANTS
  BlockAccounting
  ListNeverEmpty
  NoDoubleDestroy
  ChainExact
  NoFault
PROPERTIES
  GrowsOnlyWhenFull
  LoopsEnd
  ExitDeletesStates
CHECK_DEADLOCK FALSE
