SPECIFICATION FairSpec
CONSTANTS
  Null = Null
  Values <- KitValues
  Names <- KitNames
  Degree = 2
  Jobs <- MCJobs
  ChannelCap = 1
INVARIANTS TypeOK OutcomeReported VariablesAtEveryRow
PROPERTIES KeepsPromise DropStopsWorker
CHECK_DEADLOCK FALSE
