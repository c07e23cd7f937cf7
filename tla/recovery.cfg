SPECIFICATION FairSpec
CONSTANTS
  MaxTurns = 2
  MaxInjected = 1
  Sizes = {"small"}
  Events <- Recovery
  MaxInputs = 2
  MaxRevision = 1
  MaxBatches = 3
  MaxWaiting = 2
INVARIANTS
  NoOpenToolBatch
  EffectsAccounted
PROPERTIES
  CheckpointsGrow
  FinalAnswerCommitted
