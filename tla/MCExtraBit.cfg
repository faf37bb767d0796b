SPECIFICATION Spec
CONSTANTS
  Hashes <- OneHash
  Builds <- ExtraBitBuilds
  None = None
  MaxItems = 9
  MaxBuckets = 16
  MaxReserve = 8
INVARIANT InsertedIsFound
CHECK_DEADLOCK FALSE
