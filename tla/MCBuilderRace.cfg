SPECIFICATION Spec
CONSTANTS
  Parallelism = 2
  Designs = {"partitioned"}
  Hashes = {0, 1, 4, 8, 11, 16, 27, 32, 48}
  Inputs <- CrowdedInputs
  Width = 4
  Lanes = 2
  None = None
  NotReady = NotReady
INVARIANT
  OneWriterPerBucket
CHECK_DEADLOCK FALSE
