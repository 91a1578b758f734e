SPECIFICATION Spec
CONSTANTS
  Stages = {"brief", "draft", "publish"}
  Needs <- MCNeeds
  FanoutMode <- MCFanoutMode
  HumanApproval <- MCHumanApproval
  MaxAttempts <- MCMaxAttempts
  Evidence = {"shape", "note"}
  RequiresEvidence <- MCRequiresEvidence
  Schematic = {"shape"}
  Conditional = {"brief"}
  UnitKeys = {"default", "k1"}
  DefaultKey = "default"
PROPERTIES
  ReadyIsAuthorized
CHECK_DEADLOCK FALSE
