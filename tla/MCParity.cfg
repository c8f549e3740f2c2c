SPECIFICATION FairParitySpec
CONSTANTS
  Scopes <- KitScopes
  Root = "main"
  NoScope = NoScope
  Keys <- KitKeys
  Vars <- KitVars
  Axes <- KitAxes
  NoVar = NoVar
  Unset = Unset
  Programs <- MCPrograms
  AllowUndefined = TRUE
  Limit = 3
  LogCap = 100
  Budgets = {1, 3}
INVARIANTS AgreeOffLimit RowsPrefix
PROPERTIES BothEnd
CHECK_DEADLOCK FALSE
