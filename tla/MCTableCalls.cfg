SPECIFICATION CallsSpec
CONSTANTS
  Hashes <- SmallHashes
  Builds <- SoundBuilds
  None = None
  MaxItems = 5
  MaxBuckets = 16
  MaxReserve = 8
INVARIANTS
  TypeOK
  ElementsAreFound
  SearchesEnd
  GrowthIsAccounted
  MirrorAgrees
  SmallTablesHaveNoTombstones
  ItemsCountFullBuckets
  IterationIsExact
  HashIterationIsExact
  UnwindDropsCloned
PROPERTIES
  ImplementsElementBag
  RehashEnds
