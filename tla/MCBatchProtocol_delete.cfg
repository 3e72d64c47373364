SPECIFICATION Spec
CONSTANTS
  Batches <- MCDeletes
  MaxBatches = 2
INVARIANTS
  BatchArrives
CHECK_DEADLOCK FALSE
