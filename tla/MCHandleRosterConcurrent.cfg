SPECIFICATION Spec
CONSTANTS
  Subs = {s1, s2}
  UsrIds = {u1, u2}
  Handles = {h1, h2, h3}
  Fixed = {h3}
  Requests = {r1, r2}
  None = None
  Cooldown = 1
  ReserveFor = 2
  Attempts = 2
  MaxSpan = 0
  MaxTime = 2
  MaxLate = 1
SYMMETRY Symmetry
INVARIANTS OneAccountEach NoLostRow ReservesFollow
PROPERTIES SuccessIsTrue RenamesCoolDown BreachIsFresh AddressBook
