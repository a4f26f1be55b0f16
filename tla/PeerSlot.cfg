SPECIFICATION Spec
CONSTANTS
  short = short
  long = long
  o1 = o1
  o2 = o2
  o3 = o3
  o4 = o4
  None = None
  Torn = Torn
  Ended = Ended
  NPeer = 2
  Anime <- MCAnime
  Size <- MCSize
  Object <- MCObject
  Timeout = 1
  Byte = 3
  PageLen = 3
  MaxPages = 2
SYMMETRY Alike
ACTION_CONSTRAINT InTurn
INVARIANTS
  TypeOK
  PagesOwned
  ObjectsRight
  AnimeKnown
  PeerFades
PROPERTY
  HeapUse
