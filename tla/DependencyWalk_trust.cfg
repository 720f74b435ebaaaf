SPECIFICATION Spec
CONSTANTS
  Ids = {"r", "s", "p", "m"}
  Modes = {"trust", "resolve"}
  Registries <- MCRegistries
  Policies <- MCPolicies
CHECK_DEADLOCK FALSE
INVARIANTS TypeOK EveryEdgeJudged CyclesAreExact VerdictIsExact
PROPERTIES WalkEnds
