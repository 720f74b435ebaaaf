SPECIFICATION Spec
CONSTANTS
  deploy = deploy
  cli = cli
  broker = broker
  Clients = {cli}
  TicketIds = {t1}
  JobIds = {j1}
  Claims = {deploy}
  Sessions = {}
  Policies <- OnePolicy
  Commands <- OneClient
  MaxWrites = 2
  NoTicket = NoTicket
  NoJob = NoJob
  NoPolicy = NoPolicy
  NoSession = NoSession
SYMMETRY MCSymmetry
CHECK_DEADLOCK FALSE
INVARIANTS TicketKeepsItsSecret
