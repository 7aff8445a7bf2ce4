SPECIFICATION Spec
CONSTANTS
  Workers = {w1, w2}
  NumParts = 3
  MaxGranules = 2
  Tables <- MCTables
  Capacity = 1
  Error = Error
  NoBatch = NoBatch
  NoLimit = NoLimit
INVARIANTS CollectsEveryBatch
