SPECIFICATION Spec
CONSTANTS
  Subs = {s1, s2}
  UsrIds = {u1, u2}
  Handles = {h1, h2}
  Fixed = {}
  Requests = {r1, r2}
  None = None
  Cooldown = 2
  ReserveFor = 3
  Attempts = 1
  MaxSpan = 1
  MaxTime = 1
  MaxLate = 0
SYMMETRY Symmetry
PROPERTIES ReservedForOwner
