SPECIFICATION Spec
CONSTANTS
  Parallelism = 3
  Designs = {"partitioned", "mutex", "sharded"}
  Hashes = {0, 1, 2, 3, 4, 8}
  Inputs <- SmallInputs
  Width = 4
  Lanes = 4
  None = None
  NotReady = NotReady
INVARIANTS
  OneWriterPerBucket
  BuffersAreDisjoint
  CountsAreComplete
  PanicsOnFewHashes
PROPERTIES
  ImplementsJoinIndex
  PhasesAreSeparated
  EveryRunEnds
CHECK_DEADLOCK FALSE
