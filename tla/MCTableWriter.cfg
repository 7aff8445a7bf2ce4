SPECIFICATION Spec
CONSTANTS
  i1 = i1
  i2 = i2
  i3 = i3
  c1 = c1
  c2 = c2
  Inserts <- MCInserts3
  Malformed = {i3}
  Columns = {c1, c2}
  ZoneMapFile = zm
  Handles = {h1}
  NoDir = NoDir
  MaxPartId = 1
SYMMETRY WriterSymmetry
INVARIANTS TypeOK PartsWhole AckedDurable IdsPrivate
PROPERTIES PartsImmutable ImplementsTable
