SPECIFICATION Spec
CONSTANTS
  Word = 8
  TableSize = 2
  OpenFds = {1}
  RawFds = {1, 2}
  MaxRequests = 2
INVARIANTS
  PictureExact
  ArmedIsArmed
CHECK_DEADLOCK FALSE
