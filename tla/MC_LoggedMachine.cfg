SPECIFICATION Spec
CONSTANTS
  Stages = {"draft", "publish"}
  Needs <- MCNeeds
  PlanIndex <- MCPlanIndex
  FanoutMode <- MCFanoutMode
  HumanApproval <- MCHumanApproval
  MaxAttempts <- MCMaxAttempts
  Evidence = {"shape"}
  RequiresEvidence <- MCRequiresEvidence
  Schematic = {}
  Conditional = {}
  UnitKeys = {"default"}
  DefaultKey = "default"
  Procs = {"p1"}
  Exclusive = TRUE
  DenialReasons = {"given", "blank"}
  Discards = TRUE
  Faults = {"exit", "crash", "early", "late", "tear", "power", "nosync"}
  MaxLosses = 1
INVARIANTS
  TypeOK
  MemoryIsReplay
  ConfirmedSurvives
  StartsWithinBudget
PROPERTIES
  ImplementsMachine
CHECK_DEADLOCK FALSE
