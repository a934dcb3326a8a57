\* Three items and a fourth to come, three entries or proposals, and a fourth
\* that takes out what the third put in.
CONSTANTS
  NULL = NULL
  Size = 4
  MaxLog = 4
  Spare = 1
  MaxClock = 5
CONSTANTS
  Start <- MCStart
  Requests <- MCRequests
  Templates <- MCTemplates
SPECIFICATION Spec
CONSTRAINT Small
CHECK_DEADLOCK FALSE
INVARIANTS
  NoSecondUndo
  CompareIsTrue
PROPERTIES
  UndoRestores
  NothingDangles
