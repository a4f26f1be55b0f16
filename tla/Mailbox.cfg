SPECIFICATION FairSpec
CONSTANTS
  MaxPost = 4
  Stages <- MCStages
  Arg <- MCArg
  MaxShape = 1
  MaxStart = 2
INVARIANT
  ServerUpToDate
PROPERTIES
  OnceInOrder
  GameGoesOn
CHECK_DEADLOCK FALSE
