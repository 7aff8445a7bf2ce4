SPECIFICATION FairSpec
CONSTANTS
  Workers = {w1, w2, w3}
  NumParts = 3
  MaxGranules = 2
  Tables <- MCTables
  Capacity = 1
  Error = Error
  NoBatch = NoBatch
  NoLimit = NoLimit
INVARIANTS QueryTypeOK NoDuplicates CompleteIfAWorkerSurvives LimitNotShort LimitPerWorker
PROPERTIES Terminates
