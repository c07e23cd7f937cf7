SPECIFICATION Spec
CONSTANTS
  Faults = {"crash", "power_loss", "clean_error"}
  Texts = {"plain"}
  MaxEvents = 6
INVARIANTS
  LogReadable
  ConfirmedKept
  MemoryMatchesLog
  RefusedIsGone
