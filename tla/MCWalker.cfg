SPECIFICATION FairSpec
CONSTANTS
  Scopes <- KitScopes
  Root = "main"
  NoScope = NoScope
  Keys <- KitKeys
  Vars <- KitVars
  Axes <- KitAxes
  NoVar = NoVar
  Unset = Unset
  Programs <- MCPrograms
  AllowUndefined = FALSE
  Limit = 3
  LogCap = 100
INVARIANTS TypeOK Nested ScopesMirrorStack CountersExist GotocNeverAlarms WithinLimit ChangesRebuildEnv
PROPERTIES LoopExit FollowsText Terminates
CHECK_DEADLOCK FALSE
