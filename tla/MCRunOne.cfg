SPECIFICATION FairSpec
CONSTANTS
  SqEntries = 2
  TagModulus = 8
  MaxCalls = 3
  MaxOthers = 2
INVARIANTS
  ResultIsOwn
  StrayReported
  ResultEndsBorrow
PROPERTY CallReturns
CHECK_DEADLOCK FALSE
