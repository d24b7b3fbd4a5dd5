SPECIFICATION Spec
CONSTANTS
  Channels = {c1, c2}
  Nodes = {n1}
  Users = {u1}
  Apps = {}
  Registrars = {}
  Readers = {}
  Naming = {"node_id", "handle"}
  Methods = {"Register"}
  Events = {}
  AuthRequired = FALSE
  None = None
SYMMETRY Symmetry
INVARIANTS NodeStaysReachable
