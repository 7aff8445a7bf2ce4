SPECIFICATION Spec
CONSTANTS
  GranuleSize = 2
  BlockBytes = 12
  NumericRows = 15
  StringRows = 7
  Columns <- MCColumns
  FrameLengths = {1, 3}
INVARIANTS ColumnTypeOK EveryGranuleMarked ReadsBack BlocksBounded
