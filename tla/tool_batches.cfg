SPECIFICATION FairSpec
CONSTANTS
  None = None
  Runs <- Runs2
  Paths = {"p", "q"}
  MaxCalls = 3
  Scripts <- SomeTurns
  Trouble = {"deadline", "cancel", "tool_error"}
INVARIANTS
  BarrierHeld
  ResultsComplete
  SerialEffect
  QueueEmptied
  NoneOutlives
PROPERTY
  BatchesEnd
