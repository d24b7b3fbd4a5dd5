SPECIFICATION Spec
CONSTANTS
  EventIds = {1, 2, 3}
  Keys = {"k1", "k2", "k3"}
  Resources = {"r"}
  None = None
  Envelopes <- Collisions
  Poison <- OneIsPoison
  Posts = {p1, p2}
  Faults = {"apply", "mark", "record"}
  MaxRetries = 2
  Batch = 2
  MaxClock = 0
  MaxHeld = 1
  MaxCrashes = 1
SYMMETRY PostSymmetry
INVARIANTS AnswersHold ProcessedTookEffect DeadHadTries
PROPERTIES RowsOnlySettle
