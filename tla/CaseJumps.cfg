SPECIFICATION FairParitySpec
CONSTANTS
  Scopes <- KitScopes
  Root = "main"
  NoScope = NoScope
  Keys <- KitKeys
  Vars <- CaseVars
  Axes <- KitAxes
  NoVar = NoVar
  Unset = Unset
  Programs <- JumpPerIteration
  AllowUndefined = FALSE
  Limit = 3
  LogCap = 100
  Budgets = {1, 3}
INVARIANT SameOutcome
CHECK_DEADLOCK FALSE
