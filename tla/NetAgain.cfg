SPECIFICATION FairSpec
CONSTANTS
  c1 = c1
  c2 = c2
  c3 = c3
  c4 = c4
  a1 = a1
  a2 = a2
  a3 = a3
  None = None
  Conn <- MCConn4
  Addr <- MCAddr
  AddrOf <- Door
  Banned <- FirstHost
  BanText <- FirstHost
  NP_LEN = 2
  MaxVer = 0
  MaxDgram = 0
ACTION_CONSTRAINT BootsFirst
INVARIANT
  SeatedOnce
PROPERTIES
  LiveSeatKept
  EveryoneAnswered
  SeatFreed
CHECK_DEADLOCK FALSE
