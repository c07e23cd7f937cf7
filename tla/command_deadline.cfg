SPECIFICATION FairSpec
CONSTANTS
  None = None
  Runs <- Runs2
  Paths = {"p"}
  MaxCalls = 2
  Scripts <- OneCommand
  Trouble = {"deadline", "child"}
PROPERTY
  BatchesEnd
