SPECIFICATION FairSpec
CONSTANTS
  Pool = {p1, p2}
  Bgid <- MCBgid
  Request <- MCRequest
  CacheLine = 64
INVARIANTS
  OwnersReachRing
  NothingFreedTwice
  RegisteredPoolsMapped
  RingFits
PROPERTY AllReleased
CHECK_DEADLOCK FALSE
