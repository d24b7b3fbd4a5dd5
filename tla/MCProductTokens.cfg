SPECIFICATION Spec
CONSTANTS
  Tokens = {t1, t2, t3}
  Apps = {a1, a2}
  Scopes = {s1}
  Ttls = {0, 3}
  DefaultTtl = 2
  Overlap = 1
  MaxTime = 2
  None = None
SYMMETRY Symmetry
INVARIANTS KeepsItsTime HasHeir InheritsFromTheLiving PowerlessForAReason
PROPERTIES LivesOnce
