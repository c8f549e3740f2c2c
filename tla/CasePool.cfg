SPECIFICATION FairSpec
CONSTANTS
  Null = Null
  Values <- KitValues
  Names <- KitNames
  Degree = 2
  Jobs <- CurvedJobs
  ChannelCap = 1
  BatchSize = 2
INVARIANT MemoryBounded
CHECK_DEADLOCK FALSE
