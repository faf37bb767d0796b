SPECIFICATION Spec
CONSTANTS
  Hashes <- SmallHashes
  Builds <- NoDropBuilds
  None = None
  MaxItems = 5
  MaxBuckets = 16
  MaxReserve = 8
INVARIANT ItemsCountFullBuckets
CHECK_DEADLOCK FALSE
