SPECIFICATION Spec
CONSTANTS
  Stages = {"draft", "publish"}
  Needs <- MCNeeds
  PlanIndex <- MCPlanIndex
  FanoutMode <- MCFanoutMode
  HumanApproval <- MCHumanApproval
  MaxAttempts <- MCMaxAttempts
  Evidence = {"shape"}
  RequiresEvidence <- MCRequiresEvidence
  Schematic = {}
  Conditional = {"publish"}
  UnitKeys = {"default"}
  DefaultKey = "default"
  p1 = p1
  p2 = p2
  Procs = {p1, p2}
  Exclusive = FALSE
  Faults = {"exit"}
  DenialReasons = {"given", "blank"}
SYMMETRY ProcSymmetry
INVARIANTS
  ConfirmedInLedger
  EveryMachineIsSound
CHECK_DEADLOCK FALSE
