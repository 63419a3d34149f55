\* Two requests of any kind, one after the other or together; the application
\* may stop at any point.
SPECIFICATION Spec
CONSTANTS
  wide = wide
  odd = odd
  tiny = tiny
  Storage = {wide, odd, tiny}
  NoStorage = NoStorage
  Size <- MCSize
  Base <- MCBase
  Align = 8
  IntAlign = 4
  EpollAlign = 1
  MsgHdrLen = 3
  IoVecLen = 1
  SockAddrLen = 2
  StatxLen = 4
  OpenHowLen = 3
  SiginfoLen = 3
  FutexWaitvLen = 1
  EpollEventLen = 2
  TimespecLen = 2
  NamelenField = 0
  FlagsField = 2
  SiginfoFields = {0, 2}
  MaxIov = 2
  MaxWaiters = 2
  MaxRequests = 2
  Fd = {0, 1}
  PathLens = {0, 6, 7}
  Arguments <- MCArguments
INVARIANTS
  TypeOK
  KernelStaysInside
  KernelReadsWhatWasAsked
  ExposedIsThisRequests
  
  
CHECK_DEADLOCK FALSE
