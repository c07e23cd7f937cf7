SPECIFICATION Spec
CONSTANTS
  MaxMessages = 8
  MaxRepeating = 6
  Budgets = {4, 7}
  Tools <- SomeTools
  Batches <- SomeBatches
  ParallelSafe = {"grep", "s", "t"}
  Ids = {id1, id2, id3, id4}
  Repeating = {TRUE, FALSE}
  MaxInjected = 2
  Reporting = {TRUE, FALSE}
  Skills = {"s", "t"}
  Compactable = {"grep"}
  MaxResult = 2
  KeepRecent = 1
  MinCompact = 2
  MaxSkillChars = 3
SYMMETRY Symmetry
INVARIANTS
  ViewLegal
  ViewLinked
  CurrentShown
  SkillsShown
  SnipLongest
CHECK_DEADLOCK FALSE
