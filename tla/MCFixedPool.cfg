SPECIFICATION Spec
CONSTANTS
  NumBlocks = 3
  SizeOfData = 5
  HeaderBytes = 4
  MinAlignment = 4
  Word = 64
  Null = Null
  NoId = NoId
  Garbage = 15
  Pools = {p, q}
INVARIANTS
  TypeOK
  FreeListExact
  UsedIsSound
  HeadersWritten
  HeaderNamesPool
PROPERTIES
  Refines
