\* As MCHistory: what is offered to undo when nothing happened since.
CONSTANTS
  NULL = NULL
  Size = 4
  MaxLog = 3
  Spare = 0
  MaxClock = 5
CONSTANTS
  Start <- MCStart
  Requests <- MCRequests
  Templates <- MCTemplates
SPECIFICATION Spec
CHECK_DEADLOCK FALSE
INVARIANT
  OfferedCanBeUndone
