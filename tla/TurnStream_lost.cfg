SPECIFICATION Safety
CONSTANTS
  w1 = w1
  w2 = w2
  Workers = {w1, w2}
  NoWorker = NoWorker
  Capacity = 4
  PerPoll = 1
  SteerCapacity = 1
  MaxSteer = 2
  MaxTasks = 2
  MaxRecords = 1
INVARIANTS ToolsEndWithTurn
