SPECIFICATION Spec
CONSTANTS
  Packs <- MCPacks
  Requests <- MCRequests
INVARIANTS
  AcceptedCompiles
  PlanIsGoverned
  OutIsOlderOrWhole
CHECK_DEADLOCK FALSE
