SPECIFICATION DrawSpec
CONSTANT
  Others = 1
INVARIANT
  DrawnRight
