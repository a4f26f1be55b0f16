SPECIFICATION FairSpec
CONSTANTS
  c1 = c1
  c2 = c2
  c3 = c3
  c4 = c4
  a1 = a1
  a2 = a2
  a3 = a3
  None = None
  Conn <- MCConn
  Addr <- MCAddr
  AddrOf <- SecondRun
  Banned <- NoHosts
  BanText <- NoHosts
  NP_LEN = 2
  MaxVer = 2
  MaxDgram = 0
ACTION_CONSTRAINT OneTalks
PROPERTIES
  
  SyncSpreads
CHECK_DEADLOCK FALSE
