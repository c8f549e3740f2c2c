SPECIFICATION FairSpec
CONSTANTS
  Null = Null
  Values <- KitValues
  Names <- KitNames
  Degree = 2
  Jobs <- Misnamed
  ChannelCap = 1
INVARIANT ExhaustedHasState
CHECK_DEADLOCK FALSE
