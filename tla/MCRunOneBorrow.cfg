SPECIFICATION Spec
CONSTANTS
  SqEntries = 2
  TagModulus = 8
  MaxCalls = 3
  MaxOthers = 2
INVARIANT BorrowCoversRequest
CHECK_DEADLOCK FALSE
