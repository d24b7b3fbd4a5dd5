---------------------------- MODULE NodeRegistry ---------------------------
(***************************************************************************)
(* The `nodes` channels of the Unison (QUIC) surface (unison_server.rs).   *)
(* A node registers itself: a row of hub_resource, which outlives the      *)
(* connection, and an entry of the relay registry, which names the         *)
(* connection the relay reaches the node by and should go with it.         *)
(*                                                                         *)
(* One process per channel, one channel per connection.  A request writes  *)
(* the row in one step and the entry in a later one; other channels run in *)
(* between, and a connection may go at any time.  The consumer of          *)
(* POST /v1/events (Ingestion) writes the same table and asks for no       *)
(* owner.  What Discover shows is left out, and so is all of a row that    *)
(* only Discover looks at.                                                 *)
(***************************************************************************)
EXTENDS Integers

CONSTANTS
  Channels,      \* connections with their `nodes` channel, each used again
  Nodes,         \* what `rid` is made of: node ids, and handles without one
  Users,         \* usr_ids a connection may be authenticated as
  Apps,          \* app principals
  Registrars,    \* those with scope federation.register
  Readers,       \* those with scope federation.read
  Methods,       \* the requests clients send
  Naming,        \* how they name a node
  Events,        \* what accepted events do to the row of a node
  AuthRequired,
  None

ASSUME RegistryAssumption ==
  /\ Registrars \subseteq Apps /\ Readers \subseteq Apps
  /\ Users \cap Apps = {}
  /\ Methods \subseteq {"Register", "Unregister", "Discover"}
  /\ Naming \subseteq {"node_id", "handle"}
  /\ Events \subseteq {"upsert", "delete"}
  /\ AuthRequired \in BOOLEAN
  /\ None \notin Users \cup Apps \cup Channels
  /\ None \notin [owner : Users \cup {None}]

VARIABLES
  hub_resource,    \* node -> its vp-node row, or None
  relay_registry,  \* node -> the connection to reach it by, or None
  at,              \* channel -> where its loop is
  link,            \* channel -> whether the peer is still there
  principal,       \* channel -> who unison.auth found on the connection
  registered,      \* channel -> the nodes to drop when it ends
  call,            \* channel -> the request it works on, until it is entered
  reply,           \* channel -> the reply that sync_relay_registry is shown
  granted          \* history: channel -> what the database let its peer register

vars == <<hub_resource, relay_registry, at, link, principal, registered, call, reply, granted>>

Row == [owner : Users \cup {None}]

Call ==
  [method : {"Register", "Unregister", "Discover"}, node : Nodes,
   by : {"node_id", "handle"}, usr : Users \cup {None}]

Init ==
  /\ hub_resource = [n \in Nodes |-> None]
  /\ relay_registry = [n \in Nodes |-> None]
  /\ at = [c \in Channels |-> "closed"]
  /\ link = [c \in Channels |-> FALSE]
  /\ principal = [c \in Channels |-> None]
  /\ registered = [c \in Channels |-> {}]
  /\ call = [c \in Channels |-> None]
  /\ reply = [c \in Channels |-> "none"]
  /\ granted = [c \in Channels |-> {}]

(***************************************************************************)
(* Who may do what                                                         *)
(***************************************************************************)
\* principal_usr_id: an app or nobody owns no node.
UsrId(p) == IF p \in Users THEN p ELSE None

\* authorize_federation, for the apps with the scope.
Authorized(p, holders) == p \in Users \cup holders \/ (p = None /\ ~AuthRequired)

Holders(m) == IF m = "Discover" THEN Readers ELSE Registrars

\* Mutant: the statements have no WHERE.
TheirsAnyway(n, u) == TRUE

\* WHERE owner = NONE OR owner = NULL OR owner = $owner.
Theirs(n, u) == hub_resource[n].owner \in {None, u}

\* The UPSERT of register_node writes the row.
Writable(n, u) == hub_resource[n] # None => Theirs(n, u)

\* The DELETE of unregister_node finds a row.
Deletable(n, u) == hub_resource[n] # None /\ Theirs(n, u)

(***************************************************************************)
(* Connections                                                             *)
(***************************************************************************)
rows == <<hub_resource, relay_registry>>

Open(c) ==
  /\ at[c] = "closed"
  /\ at' = [at EXCEPT ![c] = "recv"]
  /\ link' = [link EXCEPT ![c] = TRUE]
  /\ UNCHANGED <<rows, principal, registered, call, reply, granted>>

Authenticate(c, p) ==
  /\ link[c] /\ principal[c] = None
  /\ principal' = [principal EXCEPT ![c] = p]
  /\ UNCHANGED <<rows, at, link, registered, call, reply, granted>>

Lose(c) ==
  /\ link[c]
  /\ link' = [link EXCEPT ![c] = FALSE]
  /\ UNCHANGED <<rows, at, principal, registered, call, reply, granted>>

\* Mutant: the loop ends and the registry keeps the entries.
CleanupForgets(c) ==
  /\ at[c] = "ending" \/ (at[c] = "recv" /\ ~link[c])
  /\ at' = [at EXCEPT ![c] = "closed"]
  /\ principal' = [principal EXCEPT ![c] = None]
  /\ registered' = [registered EXCEPT ![c] = {}]
  /\ granted' = [granted EXCEPT ![c] = {}]
  /\ UNCHANGED <<rows, link, call, reply>>

\* The loop has ended: whatever this channel registered leaves the registry.
Cleanup(c) ==
  /\ at[c] = "ending" \/ (at[c] = "recv" /\ ~link[c])
  /\ relay_registry' = [n \in Nodes |->
       IF n \in registered[c] THEN None ELSE relay_registry[n]]
  /\ at' = [at EXCEPT ![c] = "closed"]
  /\ principal' = [principal EXCEPT ![c] = None]
  /\ registered' = [registered EXCEPT ![c] = {}]
  /\ granted' = [granted EXCEPT ![c] = {}]
  /\ UNCHANGED <<hub_resource, link, call, reply>>

\* The server stops and starts: only the rows are still there.
Restart ==
  /\ relay_registry' = [n \in Nodes |-> None]
  /\ at' = [c \in Channels |-> "closed"]
  /\ link' = [c \in Channels |-> FALSE]
  /\ principal' = [c \in Channels |-> None]
  /\ registered' = [c \in Channels |-> {}]
  /\ call' = [c \in Channels |-> None]
  /\ reply' = [c \in Channels |-> "none"]
  /\ granted' = [c \in Channels |-> {}]
  /\ UNCHANGED hub_resource

(***************************************************************************)
(* A request, from recv to send_response                                   *)
(***************************************************************************)
\* Who may not is answered so, and a Register or Unregister may ask for what is
\* refused before the storage is called (no name, `shared`).
Receive(c, m, n, by) ==
  /\ at[c] = "recv" /\ link[c]
  /\ \/ /\ Authorized(principal[c], Holders(m))
        /\ at' = [at EXCEPT ![c] = "call"]
        /\ call' = [call EXCEPT ![c] =
             [method |-> m, node |-> n, by |-> by, usr |-> UsrId(principal[c])]]
        /\ UNCHANGED reply
     \/ /\ ~Authorized(principal[c], Holders(m)) \/ m # "Discover"
        /\ at' = [at EXCEPT ![c] = "sync"]
        /\ reply' = [reply EXCEPT ![c] = "error"]
        /\ UNCHANGED call
  /\ UNCHANGED <<rows, link, principal, registered, granted>>

\* An error says nothing of the request.
Replied(c, r) ==
  /\ at' = [at EXCEPT ![c] = "sync"]
  /\ reply' = [reply EXCEPT ![c] = r]
  /\ call' = [call EXCEPT ![c] = IF r = "error" THEN None ELSE @]
  /\ UNCHANGED <<relay_registry, link, principal, registered>>

Upsert(c) ==
  hub_resource' = [hub_resource EXCEPT ![call[c].node] = [owner |-> call[c].usr]]

Delete(c) == hub_resource' = [hub_resource EXCEPT ![call[c].node] = None]

\* Mutant: the empty answer of a refused UPSERT is taken for a registration.
RegisterUnread(c) ==
  /\ at[c] = "call" /\ call[c].method = "Register"
  /\ \/ /\ Writable(call[c].node, call[c].usr) /\ Upsert(c)
        /\ granted' = [granted EXCEPT ![c] =
             @ \cup {[node |-> call[c].node, usr |-> call[c].usr]}]
     \/ ~Writable(call[c].node, call[c].usr) /\ UNCHANGED <<hub_resource, granted>>
  /\ Replied(c, "ok")

Register(c) ==
  /\ at[c] = "call" /\ call[c].method = "Register"
  /\ \/ /\ Writable(call[c].node, call[c].usr) /\ Upsert(c) /\ Replied(c, "ok")
        /\ granted' = [granted EXCEPT ![c] =
             @ \cup {[node |-> call[c].node, usr |-> call[c].usr]}]
     \/ /\ ~Writable(call[c].node, call[c].usr) /\ Replied(c, "error")
        /\ UNCHANGED <<hub_resource, granted>>

\* The reply counts the rows removed; none is no error.
Unregister(c) ==
  /\ at[c] = "call" /\ call[c].method = "Unregister"
  /\ \/ Deletable(call[c].node, call[c].usr) /\ Delete(c) /\ Replied(c, "ok")
     \/ /\ ~Deletable(call[c].node, call[c].usr)
        /\ Replied(c, "nothing") /\ UNCHANGED hub_resource
  /\ UNCHANGED granted

Discover(c) ==
  /\ at[c] = "call" /\ call[c].method = "Discover"
  /\ Replied(c, "ok")
  /\ UNCHANGED <<hub_resource, granted>>

\* The database is out of reach, before or after the write.
CallFails(c) ==
  /\ at[c] = "call"
  /\ \/ UNCHANGED hub_resource
     \/ /\ call[c].method = "Register"
        /\ Writable(call[c].node, call[c].usr) /\ Upsert(c)
     \/ /\ call[c].method = "Unregister"
        /\ Deletable(call[c].node, call[c].usr) /\ Delete(c)
  /\ Replied(c, "error")
  /\ UNCHANGED granted

\* A reply without node_id (an error, a request by handle) changes nothing.
SyncRelayRegistry(c) ==
  LET q == call[c]
      named == reply[c] # "error" /\ q.by = "node_id" IN
  /\ at[c] = "sync"
  /\ at' = [at EXCEPT ![c] = "respond"]
  /\ \/ /\ named /\ q.method = "Register"
        /\ relay_registry' = [relay_registry EXCEPT ![q.node] = c]
        /\ registered' = [registered EXCEPT ![c] = @ \cup {q.node}]
     \/ /\ named /\ q.method = "Unregister"
        /\ relay_registry' = [relay_registry EXCEPT ![q.node] = None]
        /\ registered' = [registered EXCEPT ![c] = @ \ {q.node}]
     \/ /\ ~named
        /\ UNCHANGED <<relay_registry, registered>>
  /\ call' = [call EXCEPT ![c] = None]
  /\ reply' = [reply EXCEPT ![c] = "none"]
  /\ UNCHANGED <<hub_resource, link, principal, granted>>

Respond(c) ==
  /\ at[c] = "respond"
  /\ \/ at' = [at EXCEPT ![c] = "recv"]
     \/ ~link[c] /\ at' = [at EXCEPT ![c] = "ending"]
  /\ UNCHANGED <<rows, link, principal, registered, call, reply, granted>>

Handle(c) ==
  \/ Register(c) \/ Unregister(c) \/ Discover(c) \/ CallFails(c)
  \/ SyncRelayRegistry(c) \/ Respond(c)

\* Discover names no node, its `node` and `by` mean nothing.
Request(c) ==
  \E m \in Methods, n \in Nodes :
    \E by \in IF m = "Discover" THEN {"handle"} ELSE Naming : Receive(c, m, n, by)

(***************************************************************************)
(* The consumer                                                            *)
(***************************************************************************)
\* apply_event: upsert_resource replaces whatever row the event names, of
\* whichever owner, by one without; delete_resource removes it.
Consume(n, e) ==
  /\ \/ /\ e = "upsert"
        /\ hub_resource' = [hub_resource EXCEPT ![n] = [owner |-> None]]
     \/ e = "delete" /\ hub_resource' = [hub_resource EXCEPT ![n] = None]
  /\ UNCHANGED <<relay_registry, at, link, principal, registered, call, reply, granted>>

Step ==
  \/ \E c \in Channels : Open(c) \/ Lose(c) \/ Cleanup(c) \/ Request(c) \/ Handle(c)
  \/ \E c \in Channels, p \in Users \cup Apps : Authenticate(c, p)
  \/ \E n \in Nodes, e \in Events : Consume(n, e)

Next == Step \/ Restart

Spec == Init /\ [][Next]_vars

\* A request under way comes to its end, and so does the loop of a channel
\* whose peer is gone.
FairSpec == Spec /\ \A c \in Channels : WF_vars(Handle(c)) /\ WF_vars(Cleanup(c))

(***************************************************************************)
(* Properties                                                              *)
(***************************************************************************)
TypeOK ==
  /\ hub_resource \in [Nodes -> Row \cup {None}]
  /\ relay_registry \in [Nodes -> Channels \cup {None}]
  /\ at \in [Channels -> {"closed", "recv", "call", "sync", "respond", "ending"}]
  /\ link \in [Channels -> BOOLEAN]
  /\ principal \in [Channels -> Users \cup Apps \cup {None}]
  /\ registered \in [Channels -> SUBSET Nodes]
  /\ call \in [Channels -> Call \cup {None}]
  /\ reply \in [Channels -> {"none", "ok", "nothing", "error"}]
  /\ granted \in [Channels -> SUBSET [node : Nodes, usr : Users \cup {None}]]

\* An entry of the relay registry names a channel that still runs and that
\* will drop the entry when it ends, whatever other channels did with the node.
EntriesKnown ==
  \A n \in Nodes, c \in Channels :
    relay_registry[n] = c => at[c] # "closed" /\ n \in registered[c]

\* A request changes or removes a user's node only on a connection of that
\* user, though connections authenticate, register and reconnect in any order
\* and a request is authorized before it is carried out.  Nothing else does but
\* the consumer, while every channel stands still, and it never makes a user of
\* its choice the owner: the row is gone or nobody's.
OwnerKept ==
  [][\A n \in Nodes, u \in Users :
       /\ hub_resource[n] # None /\ hub_resource[n].owner = u
       /\ hub_resource'[n] # hub_resource[n]
       => \/ \E c \in Channels :
               principal[c] = u /\ at[c] = "call" /\ call[c].node = n
          \/ /\ UNCHANGED at
             /\ hub_resource'[n] # None => hub_resource'[n].owner = None]_vars

\* The database has let the peer of the channel, and where authentication is
\* required the user it is, register the node since it connected.
Granted(c, n) ==
  \E g \in granted[c] :
    g.node = n /\ (AuthRequired => g.usr = UsrId(principal[c]))

\* The relay reaches a node only by a connection on which the node was
\* registered and the database accepted it, for the user the connection is now:
\* neither a refused or failed request nor an earlier use of the channel
\* leaves or brings an entry, whatever the row has become since.
RouteIsRegistrants ==
  \A n \in Nodes, c \in Channels : relay_registry[n] = c => Granted(c, n)

\* hub_protocol.kdl:70, unison_server.rs:155: the relay registry has the nodes
\* whose connection is alive, so a node that registered on one has an entry.
NodeStaysReachable ==
  \A c \in Channels, n \in Nodes :
    link[c] /\ n \in registered[c] => relay_registry[n] # None

\* The registry is transient: the entries of a connection that is gone go too.
GoneIsForgotten ==
  \A c \in Channels, n \in Nodes :
    at[c] # "closed" /\ ~link[c] ~> relay_registry[n] # c
=============================================================================
