SPECIFICATION FairSpec
CONSTANTS
  MaxStages = 4
  MaxFlawed = 3
  Ids <- MCIds
  Flows <- MCFlows
INVARIANTS
  CyclesAreReal
  AcceptedCompiles
  WavesRespectNeeds
  WavesAreMaximal
  PlanCoversFlow
PROPERTY
  EveryFlowIsDecided
CHECK_DEADLOCK FALSE
