SPECIFICATION AggregateSpec
CONSTANTS
  Workers = {w1, w2}
  NumParts = 3
  MaxGranules = 2
  Tables <- MCTables
  Capacity = 1
  Error = Error
  NoBatch = NoBatch
  NoLimit = NoLimit
  k1 = k1
  k2 = k2
  k3 = k3
  Keys = {k1, k2, k3}
  Content <- MCContent
  SumHalf = 8
  Queries <- MCQueries
INVARIANTS GroupColumnPresent
