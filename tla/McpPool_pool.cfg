SPECIFICATION Spec
CONSTANTS
  a = a
  b = b
  files = files
  Calls = {a, b}
  Servers = {files}
  ServerOf <- MCServerOf
  Big = {a}
  NoCall = NoCall
  NoProc = NoProc
  MaxSaid = 2
CHECK_DEADLOCK FALSE
INVARIANTS TypeOK LiveIsPooled AnswersAreTrue
PROPERTIES CallsEnd
