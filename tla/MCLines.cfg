SPECIFICATION Spec
CONSTANTS
  Null = Null
  Axes <- MCAxes
  Blocks <- MCBlocks
  Variables <- MCVariables
  Elements <- MCElements
  Vocabulary <- MCVocabulary
  AllowUndefined = TRUE
  Inputs <- MCInputs
  Limit = 3
  SampleMin = 4
  PaddingBudget = 4
INVARIANTS TypeOK AgreeOnClaims ScanExact
PROPERTIES AxesMoveInRow OneType
CHECK_DEADLOCK FALSE
