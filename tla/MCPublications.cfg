SPECIFICATION Spec
CONSTANTS
  u1 = u1
  u2 = u2
  o = o
  ho = ho
  h1 = h1
  h2 = h2
  UsrIds = {u1, u2}
  Orgs = {o}
  OrgHandle <- HandleOfOrg
  Role <- RoleInOrg
  Handles = {ho, h1, h2}
  Slugs = {s}
  Apps = {a, s}
  Seeded = {a}
  a = a
  f = f
  Founder = f
  SeededRows <- ShipLog
  Requests = {r1, r2}
  Attempts = 2
  MaxChanges = 3
  None = None
SYMMETRY Symmetry
INVARIANTS EntitledOnly AnswersMeetAMoment
PROPERTIES OnlyWithLeave OverwritesOnlyInRace
