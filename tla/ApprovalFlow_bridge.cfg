SPECIFICATION Safety
CONSTANTS
  write = write
  shell = shell
  push = push
  read = read
  refused = refused
  gh = gh
  git = git
  w1 = w1
  w2 = w2
  UI = UI
  NoCall = NoCall
  NoWorker = NoWorker
  Calls = {shell, push, read, refused}
  Workers = {w1}
  Executable <- MCPrograms
  Risky = {write, shell, push}
  Sensitive = {push}
  PolicyDenied = {refused}
  DefaultAllowed = {git}
  Edits <- MCEdits
  Bridged = TRUE
  SaveMayFail = TRUE
  MaxGrants = 2
  MaxRestarts = 1
INVARIANTS RunsAreGranted GrantInv
