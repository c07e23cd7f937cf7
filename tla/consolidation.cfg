SPECIFICATION ConsolidationFairSpec
CONSTANTS
  MaxSummaries = 2
  MaxBatch = 2
  MaxFailures = 1
  Faults = {"crash"}
  MaxUnits = 3
  MaxRounds = 2
  Trouble = {"save_error", "enqueue_error", "generation_error", "estimation_error", "pause", "checkout", "clear"}
INVARIANTS
  ContentComplete
  ContextComplete
  ReceiptsMatch
  NothingMissed
  OncePerSummary
PROPERTY
  PrepareEnds
