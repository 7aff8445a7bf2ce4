SPECIFICATION Spec
CONSTANTS
  i1 = i1
  i2 = i2
  i3 = i3
  c1 = c1
  c2 = c2
  Inserts <- MCInserts2
  Malformed = {}
  Columns = {c1}
  ZoneMapFile = zm
  Handles = {h1, h2}
  NoDir = NoDir
  MaxPartId = 1
SYMMETRY WriterSymmetry
INVARIANTS NoHalfWrittenPart
