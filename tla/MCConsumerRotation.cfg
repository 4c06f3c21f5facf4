SPECIFICATION FairSpec
CONSTANTS
  c1 = c1
  c2 = c2
  Consumers = {c1, c2}
  MaxProducers = 3
  MaxBulk = 2
  Sampled = 2
  Quota = 2
  OffsetT = 3
  Casts <- AllCasts
INVARIANTS
  CountCoversList
PROPERTIES
  NothingMissed
  CallsEnd
  NoStarvation
CHECK_DEADLOCK FALSE
