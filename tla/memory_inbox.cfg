SPECIFICATION FairSpec
CONSTANTS
  MaxSummaries = 3
  MaxBatch = 2
  MaxFailures = 2
  Faults = {"provider", "error", "crash", "cancel"}
INVARIANTS
  InboxReadable
  NothingSkipped
  Traceable
PROPERTY
  WakeupServed
