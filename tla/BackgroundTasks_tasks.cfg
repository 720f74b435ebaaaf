SPECIFICATION Spec
CONSTANTS
  MaxTasks = 2
  MaxRecords = 1
  out = out
  Readers = {out}
  TaskOf <- MCTaskOf
  Faulty = {1}
  PipeSize = 1
  Capacity = 3
  Leaving = {1}
  Chatty = {1}
INVARIANTS TypeOK TrackedIsActive OutputIsRead VerdictMatches
PROPERTIES EndedIsFinal PollReturns TasksEnd
CHECK_DEADLOCK FALSE
