SPECIFICATION PollFairSpec
CONSTANTS
  NoSqe = NoSqe
  Sqe = {a, b}
  SqEntries = 4
  Modulus = 8
  Sqpoll = TRUE
  LoadOvertakes = FALSE
INVARIANTS
  WakeupInv
  SqInv
PROPERTIES
  NoOverwrite
  SqImplementsFifo
  ImplementsQueue
  PublishedConsumed
