SPECIFICATION Spec
CONSTANTS
  Stages = {"brief", "draft", "publish"}
  Needs <- MCNeeds
  FanoutMode <- MCFanoutMode
  HumanApproval <- MCHumanApproval
  MaxAttempts <- MCMaxAttempts
  Evidence = {"shape", "note"}
  RequiresEvidence <- MCRequiresEvidence
  Schematic = {"shape"}
  Conditional = {"brief"}
  UnitKeys = {"default", "k1"}
  DefaultKey = "default"
INVARIANTS
  Barrier
  CompletedIsProven
  RetryBudget
  FreshAttempt
  OutcomeJustified
PROPERTIES
  SettledIsFinal
  ImplementsBarrier
\* An execution that has ended accepts no further event.
CHECK_DEADLOCK FALSE
