SPECIFICATION ScanSpec
CONSTANTS
  PageLen = 5
  MaxPages = 3
  None = None
INVARIANT
  InHeap
