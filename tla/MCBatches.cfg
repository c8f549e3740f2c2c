SPECIFICATION FairSpec
CONSTANTS
  Null = Null
  Values <- KitValues
  Names <- KitNames
  Degree = 2
  Jobs <- MCJobs
  ChannelCap = 1
  BatchSize = 2
INVARIANTS TypeOK OutcomeReported ColumnsAccumulate EventsReplay PoolBounded
PROPERTIES KeepsPromise CallsReturn
CHECK_DEADLOCK FALSE
