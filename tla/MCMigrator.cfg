SPECIFICATION Spec
CONSTANTS
  Servers = {s1, s2}
  Last = 4
  Statements = 2
  MaxFaults = 3
INVARIANTS InOrder RecordedIsDone
PROPERTIES NotAgain AllServe
CHECK_DEADLOCK FALSE
