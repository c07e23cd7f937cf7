SPECIFICATION FairSpec
CONSTANTS
  MaxTurns = 3
  MaxInjected = 1
  Sizes = {"small"}
  Events <- Revision
  MaxInputs = 2
  MaxRevision = 2
  MaxBatches = 2
  MaxWaiting = 2
INVARIANTS
  LatchStopsRuns
  EffectsAccounted
PROPERTY
  SubmitReturns
