SPECIFICATION Spec
CONSTANTS
  Students = {"alice", "bob"}
  Imports = {i1, i2}
  Files <- Spreadsheets
  Malformed = Malformed
  None = None
INVARIANTS ImportIsExact GradesAreRecords
PROPERTIES PublishedStays AppearTogether
CHECK_DEADLOCK FALSE
