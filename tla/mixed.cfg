SPECIFICATION Spec
CONSTANTS
  MaxTurns = 2
  MaxInjected = 1
  Sizes = {"small", "big"}
  Events <- Mixed
  MaxInputs = 2
  MaxRevision = 2
  MaxBatches = 1
  MaxWaiting = 1
INVARIANTS
  CheckpointUsable
  PausedPrefixHolds
  BudgetShared
  RunHoldsPrefix
PROPERTY
  ImplementsLedger
