SPECIFICATION Spec
CONSTANTS
  Half = 2
  MaxCount = 2
  FieldSize = 4
  Bytes = {0, 1}
  NumericRows = 4
  StringRows = 3
  Jobs <- MCJobs
INVARIANTS CodecsTypeOK RoundTrip CutOffIsPrefix
