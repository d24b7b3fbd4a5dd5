SPECIFICATION Spec
CONSTANTS
  Subs = {s1, s2}
  UsrIds = {u1, u2}
  Handles = {h1, h2, h3, h4}
  Fixed = {h4}
  Requests = {r1}
  None = None
  Cooldown = 2
  ReserveFor = 3
  Attempts = 1
  MaxSpan = 1
  MaxTime = 5
  MaxLate = 0
SYMMETRY Symmetry
PROPERTIES BindingAddressBook TakenIsNotMine
