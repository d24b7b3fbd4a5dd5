SPECIFICATION FairSpec
CONSTANTS
  Dog = dog
  Callers = {b}
  Clients = {c}
  MaxFaults = 2
  None = None
INVARIANTS OneReconnectPerFault FailureNoticed
PROPERTIES ReplacesOnlyFailed Recovers
