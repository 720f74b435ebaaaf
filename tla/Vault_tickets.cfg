SPECIFICATION Spec
CONSTANTS
  deploy = deploy
  cli = cli
  broker = broker
  Clients = {cli, broker}
  TicketIds = {t1, t2}
  JobIds = {j1}
  Claims = {deploy}
  Sessions = {}
  Policies <- TwoUses
  Commands <- TicketCommands
  MaxWrites = 1
  NoTicket = NoTicket
  NoJob = NoJob
  NoPolicy = NoPolicy
  NoSession = NoSession
SYMMETRY MCSymmetry
CHECK_DEADLOCK FALSE
INVARIANTS TypeOK LockdownSticks
PROPERTIES ImplementsBook
