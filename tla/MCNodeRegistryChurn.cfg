SPECIFICATION FairSpec
CONSTANTS
  Channels = {c1, c2}
  Nodes = {n1}
  Users = {u1}
  Apps = {a1}
  Registrars = {a1}
  Readers = {}
  Naming = {"node_id", "handle"}
  Methods = {"Register", "Unregister", "Discover"}
  Events = {"upsert", "delete"}
  AuthRequired = TRUE
  None = None
INVARIANTS EntriesKnown RouteIsRegistrants
PROPERTIES OwnerKept GoneIsForgotten
