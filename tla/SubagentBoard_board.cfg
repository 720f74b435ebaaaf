SPECIFICATION Spec
CONSTANTS
  a1 = a1
  f = f
  UI = UI
  NoTask = NoTask
  Agents = {a1}
  Scopes <- MCScopes
  Limits = {1, 2}
  MaxRecords = 2
  MaxFaults = 1
  MaxCancels = 1
  Leaving = {1}
  MaxTasks = 3
CHECK_DEADLOCK FALSE
INVARIANTS TypeOK WorkingAreListed ScopesHeld ActiveHasThread
PROPERTIES EndIsReported
