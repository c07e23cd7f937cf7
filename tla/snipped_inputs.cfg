SPECIFICATION Spec
CONSTANTS
  MaxTurns = 2
  MaxInjected = 2
  Sizes = {"small"}
  Events <- Interleaving
  MaxInputs = 3
  MaxRevision = 1
  MaxBatches = 1
  MaxWaiting = 1
INVARIANT
  ConsumedWasRequested
