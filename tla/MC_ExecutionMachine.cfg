SPECIFICATION Spec
CONSTANTS
  Stages = {"draft", "publish"}
  Needs <- MCNeeds
  PlanIndex <- MCPlanIndex
  FanoutMode <- MCFanoutMode
  HumanApproval <- MCHumanApproval
  MaxAttempts <- MCMaxAttempts
  Evidence = {"shape"}
  RequiresEvidence <- MCRequiresEvidence
  Schematic = {"shape"}
  Conditional = {"publish"}
  UnitKeys = {"default", "k1"}
  DefaultKey = "default"
  Procs = {"p1", "p2"}
  Exclusive = TRUE
  Faults = {"exit", "crash", "append"}
  DenialReasons = {"given", "empty"}
INVARIANTS
  TypeOK
  MemoryMatchesLedger
  NoCallIsRefused
  SettledBetweenCalls
  NeverStuckBetweenCalls
PROPERTIES
  DispatchIsAuthorized
CHECK_DEADLOCK FALSE
