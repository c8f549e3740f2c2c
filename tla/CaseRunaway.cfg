SPECIFICATION FairParitySpec
CONSTANTS
  Scopes <- KitScopes
  Root = "main"
  NoScope = NoScope
  Keys <- KitKeys
  Vars <- CaseVars
  Axes <- KitAxes
  NoVar = NoVar
  Unset = Unset
  Programs <- CounterReset
  AllowUndefined = FALSE
  Limit = 3
  LogCap = 20
  Budgets = {1, 3}
PROPERTY BothEnd
CHECK_DEADLOCK FALSE
