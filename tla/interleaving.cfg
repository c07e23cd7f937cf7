SPECIFICATION FairSpec
CONSTANTS
  MaxTurns = 3
  MaxInjected = 2
  Sizes = {"small", "big"}
  Events <- Interleaving
  MaxInputs = 3
  MaxRevision = 1
  MaxBatches = 3
  MaxWaiting = 3
INVARIANTS
  EndsWereRequested
  InjectedWasCommitted
PROPERTY
  SubmitReturns
