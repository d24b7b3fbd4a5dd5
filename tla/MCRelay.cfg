SPECIFICATION FairRelaySpec
CONSTANTS
  Channels = {c1, c2}
  Nodes = {n1}
  Users = {u1}
  Apps = {}
  Registrars = {}
  Readers = {}
  Naming = {"node_id"}
  Methods = {"Register", "Unregister"}
  Events = {"delete"}
  AuthRequired = TRUE
  None = None
  Relays = {r1}
  MaxFrames = 2
INVARIANTS RelayToRegistrant ForwardedInOrder
PROPERTIES RelayEnds
