SPECIFICATION FairSpec
CONSTANTS
  Threads = {t1, t2, t3}
  Nodes = {n1, n2}
  SHOULD_BE_ON_FREELIST = 8
  Null = Null
INVARIANTS
  TypeOK
  NodesAccounted
  RefsExact
  PopIsSafe
PROPERTIES
  LockFree
CHECK_DEADLOCK FALSE
