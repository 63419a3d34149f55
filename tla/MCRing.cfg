SPECIFICATION FairSpec
CONSTANTS
  Sqe <- Request
  Cqe <- Request
  NoSqe = NoRequest
  NoCqe = NoRequest
  Sqpoll = FALSE
  MaxBacklog = 4
  MaxRequests = 4
  MaxWait = 1
  SqEntries = 2
  CqEntries = 2
  Modulus = 4
  SingleIssuer = FALSE
  DeferTaskrun = FALSE
INVARIANTS
  CqInv
  SubmittedTracksHead
  Conservation
PROPERTIES
  NoCqeOverwrite
  CqImplementsFifo
  WaitDelivers
  EventuallyReaped
