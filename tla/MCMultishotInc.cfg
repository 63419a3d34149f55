SPECIFICATION MSpec
CONSTANTS
  Modulus = 8
  TailModulus = 4
  MaxEntries = 2
  Counts = {0, 1, 2, 3, 4}
  Ids = {i1, i2}
  CqRoom = 1
  IncTickets = TRUE
INVARIANT NoDoubleProvide
