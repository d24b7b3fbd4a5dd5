SPECIFICATION FairSpec
CONSTANTS
  EventIds = {1, 2, 3}
  Keys = {"k1", "k2", "k3"}
  Resources = {"r"}
  None = None
  Envelopes <- SameResource
  Poison <- OneIsPoison
  Posts = {p1}
  Faults = {"record"}
  MaxRetries = 2
  Batch = 2
  MaxClock = 1
  MaxHeld = 0
  MaxCrashes = 1
INVARIANTS ShowsLatest
PROPERTIES PerResourceOrder EveryEventSettles
