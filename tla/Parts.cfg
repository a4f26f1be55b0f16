SPECIFICATION PartsSpec
CONSTANTS
  MemLen = 5
  Chunk = 4
  Fifo = 4
  Size <- MCSize
  MaxOp = 2
  MaxOpen = 2
  Room = 5
  Macro <- MCMacro
  Known <- MCKnown
  Texts <- MCTexts
  MaxEdit = 2
  PgLen = 4
  PageCount = 3
  Vector = 1
  Nothing = Nothing
  Words = 3
  MaxLen = 7
  Sections = 2
  NP_TIMEOUT = 165
  NP_DELTA_MAX = 10
  Turn <- MCTurn
  Leap <- MCLeap
  MaxRecv = 2
  Peers = 4
  Rows = 2
  Others = 2
  p1 = p1
  p2 = p2
  shared = shared
  private = private
  bit = bit
  co1 = co1
  co2 = co2
  Used = Used
  Castle = Castle
  NFile = 3
  Course <- MCCourse
  Conn <- MCConn
  Shared <- MCShared
  Private <- MCPrivate
  Bit <- MCBit
  MaxCoin = 1
  MaxCmd = 2
  PageLen = 5
  MaxPages = 3
  None = None
SYMMETRY Alike
INVARIANTS
  UsbInStep
  NameKept
  LaunchShown
  FoundRight
  WordsRight
  Settled
  RowsRight
  DrawnRightButHead
  SaveTypeOK
  AgesRank
  PrivateNotKept
  GamesAgree
  DiskCurrent
  Disjoint
  TableExact
PROPERTIES
  NothingForgotten
  ScoredComesFirst
  FirstFit
CHECK_DEADLOCK FALSE
