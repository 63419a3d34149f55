SPECIFICATION PollFairSpec
CONSTANTS
  NoSqe = NoSqe
  Sqe = {a, b}
  SqEntries = 2
  Modulus = 4
  Sqpoll = TRUE
  LoadOvertakes = TRUE
PROPERTY PublishedConsumed
