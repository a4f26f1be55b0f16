SPECIFICATION Spec
CONSTANTS
  c1 = c1
  c2 = c2
  c3 = c3
  c4 = c4
  a1 = a1
  a2 = a2
  a3 = a3
  None = None
  Conn <- MCConn2
  Addr <- MCAddr
  AddrOf <- OneRunEach2
  Banned <- NoHosts
  BanText <- NoHosts
  NP_LEN = 2
  MaxVer = 1
  MaxDgram = 0
INVARIANT
  JoinShowsCharacter
CHECK_DEADLOCK FALSE
