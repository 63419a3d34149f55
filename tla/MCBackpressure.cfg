SPECIFICATION Spec
CONSTANTS
  SqEntries = 3
  CqEntries = 16
  MaxOutstanding = 16
PROPERTY WaitReturns
CHECK_DEADLOCK FALSE
