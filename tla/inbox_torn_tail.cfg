SPECIFICATION Spec
CONSTANTS
  MaxSummaries = 2
  MaxBatch = 2
  MaxFailures = 1
  Faults = {"crash", "tear"}
INVARIANT
  InboxReadable
