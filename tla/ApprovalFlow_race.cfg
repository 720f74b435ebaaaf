SPECIFICATION Spec
CONSTANTS
  write = write
  shell = shell
  push = push
  read = read
  refused = refused
  gh = gh
  git = git
  w1 = w1
  w2 = w2
  UI = UI
  NoCall = NoCall
  NoWorker = NoWorker
  Calls = {write}
  Workers = {w1, w2}
  Executable <- MCPrograms
  Risky = {write, shell, push}
  Sensitive = {push}
  PolicyDenied = {refused}
  DefaultAllowed = {git}
  Edits <- MCNoEdits
  Bridged = FALSE
  SaveMayFail = FALSE
  MaxGrants = 2
  MaxRestarts = 1
INVARIANTS TypeOK
PROPERTIES OneRunPerGrant ImplementsGrants CancelEndsWait DecisionEndsWait
