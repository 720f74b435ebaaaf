SPECIFICATION Spec
CONSTANTS
  deploy = deploy
  cli = cli
  broker = broker
  Clients = {cli, broker}
  TicketIds = {t1}
  JobIds = {j1}
  Claims = {deploy}
  Sessions = {}
  Policies <- Narrowed
  Commands <- RotationCommands
  MaxWrites = 2
  NoTicket = NoTicket
  NoJob = NoJob
  NoPolicy = NoPolicy
  NoSession = NoSession
SYMMETRY MCSymmetry
CHECK_DEADLOCK FALSE
INVARIANTS ReleasesAreAccounted PromotedWasVerified
PROPERTIES StaleAdmitsNobody
