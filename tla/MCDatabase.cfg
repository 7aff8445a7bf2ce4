SPECIFICATION DbSpec
CONSTANTS
  i1 = i1
  i2 = i2
  Inserts <- MCInserts
  Malformed = {}
  Columns = {c1}
  ZoneMapFile = zm
  Handles = {h1, h2}
  NoDir = NoDir
  MaxPartId = 1
SYMMETRY DbSymmetry
INVARIANTS DbTypeOK AnswerWhole AcknowledgedIsListed ReadsNeverGoBack
PROPERTIES NeverReplaced
