SPECIFICATION Spec
CONSTANTS
  Null = Null
  Values <- MCValues
  Names <- MCNames
  Degree = 2
  Kinds <- MCKinds
  MaxRows = 4
INVARIANTS TypeOK HeldBack ToolpathRecovered FeedUnchanged NothingLost MovesAreLinear
CHECK_DEADLOCK FALSE
