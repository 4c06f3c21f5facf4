SPECIFICATION Spec
CONSTANTS
  Threads = {t1, t2, t3}
  HashedId <- MCHashedId
  InitialCapacity = 4
  Null = Null
  Invalid = Invalid
  Invalid2 = Invalid2
  AllocFails = TRUE
  MaxSearches = 4
SYMMETRY Symmetry
INVARIANTS
  TypeOK
  OneOwner
  OneProducer
  ProducersAreRecycled
CHECK_DEADLOCK FALSE
