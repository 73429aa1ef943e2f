SPECIFICATION FairSpec
CONSTANTS
  Nodes = {1, 2, 3, 4}
  Prompts <- Small
INVARIANTS
  TypeOK
  RoundsFollowDependencies
PROPERTIES
  PhasesInOrder
  OnlyRequiredStarts
  PromptFinishes
CHECK_DEADLOCK FALSE
