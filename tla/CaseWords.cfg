SPECIFICATION Spec
CONSTANTS
  Null = Null
  Axes <- MCAxes
  Blocks <- MCBlocks
  Variables <- MCVariables
  Elements <- MCElements
  Vocabulary <- MCVocabulary
  AllowUndefined = TRUE
  Inputs <- WordOperatorInputs
  Limit = 3
  SampleMin = 4
  PaddingBudget = 4
INVARIANTS Replicates
CHECK_DEADLOCK FALSE
