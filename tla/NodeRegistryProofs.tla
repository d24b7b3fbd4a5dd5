------------------------- MODULE NodeRegistryProofs ------------------------
(***************************************************************************)
(* Proofs about NodeRegistry and Relay: the types, that the relay registry *)
(* names only channels that will clean up after themselves, that a request *)
(* leaves a user's node to the user, and that entries and relays lead to   *)
(* connections on which the node was registered.                           *)
(***************************************************************************)
EXTENDS Relay, SequenceTheorems, TLAPS

(***************************************************************************)
(* Entries and owners, for every use of the channel                        *)
(***************************************************************************)
\* What a channel knows about the request it works on: there is one, and it
\* asks for the user the connection is authenticated as, or for nobody.
CallsKnown ==
  \A c \in Channels :
    /\ at[c] \in {"closed", "ending"} => ~link[c]
    /\ at[c] = "call" => call[c] \in Call
    /\ at[c] = "sync" /\ reply[c] # "error" => call[c] \in Call
    /\ at[c] = "call" /\ call[c].usr # None => call[c].usr = principal[c]

Inv == TypeOK /\ EntriesKnown /\ CallsKnown

\* Nothing is registered and nobody is connected at the start.
LEMMA InitInv == Init => Inv
BY RegistryAssumption
   DEF Init, Inv, TypeOK, EntriesKnown, CallsKnown

\* A connection comes, is authenticated, goes; its channel ends.
LEMMA ConnectionKeeps ==
  ASSUME Inv, NEW c \in Channels,
         Open(c) \/ Lose(c) \/ Cleanup(c) \/ \E p \in Users \cup Apps : Authenticate(c, p)
  PROVE  Inv'
<1> USE RegistryAssumption DEF Inv
<1>1. CASE Open(c)
  BY <1>1 DEF Open, rows, TypeOK, EntriesKnown, CallsKnown
<1>2. CASE Lose(c)
  BY <1>2 DEF Lose, rows, TypeOK, EntriesKnown, CallsKnown
<1>3. CASE Cleanup(c)
  <2>1. TypeOK' /\ EntriesKnown'
    BY <1>3 DEF Cleanup, TypeOK, EntriesKnown
  <2>2. ~link[c]
    BY <1>3 DEF Cleanup, CallsKnown, TypeOK
  <2>3. CallsKnown'
    BY <1>3, <2>2 DEF Cleanup, TypeOK, CallsKnown
  <2> QED
    BY <2>1, <2>3
<1>4. CASE \E p \in Users \cup Apps : Authenticate(c, p)
  BY <1>4 DEF Authenticate, rows, TypeOK, EntriesKnown, CallsKnown, Call
<1> QED
  BY <1>1, <1>2, <1>3, <1>4

\* A request is read, answered by the database or not, brought into the
\* registry and answered.
LEMMA RequestKeeps ==
  ASSUME Inv, NEW c \in Channels, Request(c) \/ Handle(c)
  PROVE  Inv'
<1> USE RegistryAssumption DEF Inv
<1>1. CASE Request(c)
  <2>1. PICK m \in Methods, n \in Nodes, by \in {"node_id", "handle"} : Receive(c, m, n, by)
    BY <1>1 DEF Request
  <2> DEFINE q == [method |-> m, node |-> n, by |-> by, usr |-> UsrId(principal[c])]
  <2>2. q \in Call /\ (q.usr # None => q.usr = principal[c])
    BY DEF Call, UsrId
  <2>3. /\ \/ /\ at' = [at EXCEPT ![c] = "call"] /\ reply' = reply
              /\ call' = [call EXCEPT ![c] = q]
           \/ /\ at' = [at EXCEPT ![c] = "sync"] /\ reply' = [reply EXCEPT ![c] = "error"]
              /\ call' = call
        /\ UNCHANGED <<hub_resource, relay_registry, link, principal, registered, granted>>
        /\ at[c] = "recv" /\ link[c]
    BY <2>1 DEF Receive, rows
  <2> HIDE DEF q
  <2>4. TypeOK'
    BY <2>2, <2>3 DEF TypeOK
  <2>5. EntriesKnown'
    BY <2>3 DEF EntriesKnown, TypeOK
  <2>6. CallsKnown'
    BY <2>2, <2>3 DEF CallsKnown, TypeOK
  <2> QED
    BY <2>4, <2>5, <2>6
<1>2. CASE Register(c) \/ Unregister(c) \/ Discover(c) \/ CallFails(c)
  <2>1. /\ at[c] = "call" /\ call[c] \in Call
        /\ at' = [at EXCEPT ![c] = "sync"]
        /\ \/ /\ \E x \in {"ok", "nothing"} : reply' = [reply EXCEPT ![c] = x]
              /\ call' = [call EXCEPT ![c] = call[c]]
           \/ /\ reply' = [reply EXCEPT ![c] = "error"]
              /\ call' = [call EXCEPT ![c] = None]
        /\ UNCHANGED <<relay_registry, link, principal, registered>>
    BY <1>2 DEF Register, Unregister, Discover, CallFails, Replied, CallsKnown
  <2>2. \/ hub_resource' = hub_resource
        \/ hub_resource' = [hub_resource EXCEPT ![call[c].node] = [owner |-> call[c].usr]]
        \/ hub_resource' = [hub_resource EXCEPT ![call[c].node] = None]
    BY <1>2 DEF Register, Unregister, Discover, CallFails, Delete, Upsert
  <2>3. hub_resource' \in [Nodes -> Row \cup {None}]
    BY <2>1, <2>2 DEF TypeOK, Call, Row
  <2>4. granted' \in [Channels -> SUBSET [node : Nodes, usr : Users \cup {None}]]
    <3>1. \/ granted' = granted
          \/ granted' = [granted EXCEPT ![c] =
               @ \cup {[node |-> call[c].node, usr |-> call[c].usr]}]
      BY <1>2 DEF Register, Unregister, Discover, CallFails
    <3> QED
      BY <2>1, <3>1 DEF TypeOK, Call
  <2>5. TypeOK'
    <3>1. /\ at' \in [Channels -> {"closed", "recv", "call", "sync", "respond", "ending"}]
          /\ reply' \in [Channels -> {"none", "ok", "nothing", "error"}]
          /\ call' \in [Channels -> Call \cup {None}]
      BY <2>1 DEF TypeOK
    <3> QED
      BY <2>1, <2>3, <2>4, <3>1 DEF TypeOK
  <2>6. EntriesKnown' /\ CallsKnown'
    BY <2>1 DEF EntriesKnown, CallsKnown, TypeOK
  <2> QED
    BY <2>5, <2>6
<1>3. CASE SyncRelayRegistry(c)
  <2>1. /\ at[c] = "sync"
        /\ at' = [at EXCEPT ![c] = "respond"]
        /\ call' = [call EXCEPT ![c] = None]
        /\ reply' = [reply EXCEPT ![c] = "none"]
        /\ UNCHANGED <<hub_resource, link, principal, granted>>
    BY <1>3 DEF SyncRelayRegistry
  <2>2. \/ /\ call[c] \in Call
           /\ relay_registry' = [relay_registry EXCEPT ![call[c].node] = c]
           /\ registered' = [registered EXCEPT ![c] = @ \cup {call[c].node}]
        \/ /\ call[c] \in Call
           /\ relay_registry' = [relay_registry EXCEPT ![call[c].node] = None]
           /\ registered' = [registered EXCEPT ![c] = @ \ {call[c].node}]
        \/ UNCHANGED <<relay_registry, registered>>
    BY <1>3 DEF SyncRelayRegistry, CallsKnown
  <2>3. TypeOK'
    BY <2>1, <2>2 DEF TypeOK, Call
  <2>4. EntriesKnown'
    BY <2>1, <2>2 DEF EntriesKnown, TypeOK, Call
  <2>5. CallsKnown'
    BY <2>1 DEF CallsKnown, TypeOK
  <2> QED
    BY <2>3, <2>4, <2>5
<1>4. CASE Respond(c)
  BY <1>4 DEF Respond, rows, TypeOK, EntriesKnown, CallsKnown
<1> QED
  BY <1>1, <1>2, <1>3, <1>4 DEF Handle

\* A restart leaves no channel and no entry.
LEMMA RestartKeeps ==
  ASSUME Inv, Restart
  PROVE  Inv'
BY RegistryAssumption DEF Inv, Restart, TypeOK, EntriesKnown, CallsKnown

\* An event changes a row and nothing else.
LEMMA ConsumeKeeps ==
  ASSUME Inv, NEW n \in Nodes, NEW e \in Events, Consume(n, e)
  PROVE  Inv'
<1>1. /\ \/ hub_resource' = [hub_resource EXCEPT ![n] = [owner |-> None]]
         \/ hub_resource' = [hub_resource EXCEPT ![n] = None]
      /\ UNCHANGED <<relay_registry, at, link, principal, registered, call, reply, granted>>
  BY DEF Consume
<1> QED
  BY <1>1 DEF Inv, TypeOK, Row, EntriesKnown, CallsKnown

\* So every step keeps entries and requests known.
LEMMA NextKeeps == Inv /\ [Next]_vars => Inv'
<1> SUFFICES ASSUME Inv, [Next]_vars PROVE Inv'
  OBVIOUS
<1>1. CASE Next
  BY <1>1, ConnectionKeeps, RequestKeeps, ConsumeKeeps, RestartKeeps DEF Next, Step
<1>2. CASE UNCHANGED vars
  BY <1>2 DEF vars, Inv, TypeOK, EntriesKnown, CallsKnown
<1> QED
  BY <1>1, <1>2

\* The variables keep their types, in particular no app owns a row.
THEOREM RegistryTypeOK == Spec => []TypeOK
<1>1. Inv => TypeOK
  BY DEF Inv
<1> QED
  BY <1>1, InitInv, NextKeeps, PTL DEF Spec

\* Every entry of the relay registry names a channel that still runs and drops
\* the entry when it ends.
THEOREM RegistryInOrder == Spec => []EntriesKnown
<1>1. Inv => EntriesKnown
  BY DEF Inv
<1> QED
  BY <1>1, InitInv, NextKeeps, PTL DEF Spec

\* Only a write changes rows.
LEMMA OnlyCallsWrite ==
  ASSUME Next, UNCHANGED hub_resource => FALSE
  PROVE  \/ \E c \in Channels : Register(c) \/ Unregister(c) \/ CallFails(c)
         \/ \E n \in Nodes, e \in Events : Consume(n, e)
BY DEF Next, Step, Handle, Open, Lose, Cleanup, SyncRelayRegistry, Respond, Authenticate,
       Request, Receive, Restart, Discover, rows

\* However connections of several users overlap, a request changes or removes a
\* user's row only on a connection authenticated as that user; an event may,
\* and leaves the row to nobody.
THEOREM RegistryKeepsOwners == Spec => OwnerKept
<1> DEFINE Kept ==
      \A n \in Nodes, u \in Users :
        /\ hub_resource[n] # None /\ hub_resource[n].owner = u
        /\ hub_resource'[n] # hub_resource[n]
        => \/ \E c \in Channels :
                principal[c] = u /\ at[c] = "call" /\ call[c].node = n
           \/ /\ UNCHANGED at
              /\ hub_resource'[n] # None => hub_resource'[n].owner = None
<1>1. Inv /\ [Next]_vars => [Kept]_vars
  <2> SUFFICES ASSUME Inv, Next, NEW n \in Nodes, NEW u \in Users,
                      hub_resource[n] # None, hub_resource[n].owner = u,
                      hub_resource'[n] # hub_resource[n]
               PROVE  \/ \E c \in Channels :
                           principal[c] = u /\ at[c] = "call" /\ call[c].node = n
                      \/ /\ UNCHANGED at
                         /\ hub_resource'[n] # None => hub_resource'[n].owner = None
    OBVIOUS
  <2>1. CASE \E m \in Nodes, e \in Events : Consume(m, e)
    <3>1. PICK m \in Nodes, e \in Events : Consume(m, e)
      BY <2>1
    <3>2. /\ UNCHANGED at
          /\ \/ hub_resource' = [hub_resource EXCEPT ![m] = [owner |-> None]]
             \/ hub_resource' = [hub_resource EXCEPT ![m] = None]
      BY <3>1 DEF Consume
    <3> QED
      BY <3>2 DEF Inv, TypeOK
  <2>2. CASE \E c \in Channels : Register(c) \/ Unregister(c) \/ CallFails(c)
    <3>1. PICK c \in Channels : Register(c) \/ Unregister(c) \/ CallFails(c)
      BY <2>2
    <3>2. at[c] = "call" /\ call[c] \in Call
      BY <3>1 DEF Register, Unregister, CallFails, Inv, CallsKnown
    <3>3. Theirs(call[c].node, call[c].usr) \/ hub_resource[call[c].node] = None
      BY <3>1 DEF Register, Unregister, CallFails, Writable, Deletable
    <3>4. call[c].node = n
      BY <3>1, <3>2 DEF Register, Unregister, CallFails, Upsert, Delete, Inv, TypeOK, Call
    <3>5. u # None
      BY RegistryAssumption
    <3>6. call[c].usr = u
      BY <3>3, <3>4, <3>5 DEF Theirs
    <3> QED
      BY <3>2, <3>4, <3>5, <3>6 DEF Inv, CallsKnown
  <2> QED
    BY <2>1, <2>2, OnlyCallsWrite
<1> QED
  BY <1>1, InitInv, NextKeeps, PTL DEF Spec, OwnerKept

(***************************************************************************)
(* Where the relay registry leads                                          *)
(***************************************************************************)
\* A request or an entry of an authenticated channel is its principal's: who
\* that is does not change while the channel has either.
GrantsKnown ==
  \A c \in Channels :
    /\ AuthRequired /\ granted[c] # {} => principal[c] # None
    /\ AuthRequired /\ at[c] = "call" =>
         principal[c] # None /\ call[c].usr = UsrId(principal[c])
    /\ at[c] = "sync" /\ reply[c] # "error" /\ call[c].method = "Register" =>
         Granted(c, call[c].node)
    /\ \A n \in registered[c] : Granted(c, n)

LEMMA GrantsKnownKeep ==
  ASSUME Inv, GrantsKnown, [Next]_vars
  PROVE  GrantsKnown'
<1> USE RegistryAssumption
<1>1. ASSUME NEW c \in Channels, Open(c) \/ Lose(c) \/ Respond(c)
      PROVE  GrantsKnown'
  BY <1>1 DEF Open, Lose, Respond, rows, GrantsKnown, Granted, Inv, TypeOK
<1>2. ASSUME NEW c \in Channels, Cleanup(c)
      PROVE  GrantsKnown'
  BY <1>2 DEF Cleanup, GrantsKnown, Granted, Inv, TypeOK
<1>3. ASSUME NEW c \in Channels, NEW p \in Users \cup Apps, Authenticate(c, p)
      PROVE  GrantsKnown'
  <2>1. /\ principal[c] = None /\ principal' = [principal EXCEPT ![c] = p] /\ p # None
        /\ UNCHANGED <<hub_resource, relay_registry, at, link, registered, call, reply, granted>>
    BY <1>3 DEF Authenticate, rows
  <2>2. AuthRequired => granted[c] = {} /\ at[c] # "call"
    BY <2>1 DEF GrantsKnown
  <2> SUFFICES ASSUME NEW d \in Channels PROVE GrantsKnown!(d)'
    BY DEF GrantsKnown
  <2>3. \A n : Granted(d, n) => Granted(d, n)'
    BY <2>1, <2>2 DEF Granted, Inv, TypeOK
  <2>4. /\ AuthRequired /\ granted'[d] # {} => principal'[d] # None
        /\ AuthRequired /\ at'[d] = "call" =>
             principal'[d] # None /\ call'[d].usr = UsrId(principal'[d])
    BY <2>1, <2>2 DEF GrantsKnown, Inv, TypeOK
  <2> QED
    BY <2>1, <2>3, <2>4 DEF GrantsKnown, Granted
<1>4. ASSUME NEW c \in Channels, Request(c)
      PROVE  GrantsKnown'
  <2>1. PICK m \in Methods, n \in Nodes, by \in {"node_id", "handle"} : Receive(c, m, n, by)
    BY <1>4 DEF Request
  <2>2. Authorized(principal[c], Holders(m)) /\ AuthRequired => principal[c] # None
    BY DEF Authorized, Holders
  <2> QED
    BY <2>1, <2>2 DEF Receive, rows, GrantsKnown, Granted, Inv, TypeOK
<1>5. ASSUME NEW c \in Channels, Register(c) \/ Unregister(c) \/ Discover(c) \/ CallFails(c)
      PROVE  GrantsKnown'
  <2>1. /\ at[c] = "call" /\ call[c] \in Call
        /\ at' = [at EXCEPT ![c] = "sync"]
        /\ UNCHANGED <<relay_registry, link, principal, registered>>
    BY <1>5 DEF Register, Unregister, Discover, CallFails, Replied, Inv, CallsKnown
  <2>2. /\ \A d \in Channels \ {c} : call'[d] = call[d] /\ reply'[d] = reply[d]
                                     /\ granted'[d] = granted[d]
        /\ granted[c] \subseteq granted'[c]
        /\ granted'[c] # granted[c] =>
             granted'[c] = granted[c] \cup {[node |-> call[c].node, usr |-> call[c].usr]}
    BY <1>5 DEF Register, Unregister, Discover, CallFails, Replied, Inv, TypeOK
  <2>3. reply'[c] # "error" =>
          /\ call'[c] = call[c]
          /\ call[c].method = "Register" =>
               [node |-> call[c].node, usr |-> call[c].usr] \in granted'[c]
    BY <1>5 DEF Register, Unregister, Discover, CallFails, Replied, Inv, TypeOK
  <2> SUFFICES ASSUME NEW d \in Channels PROVE GrantsKnown!(d)'
    BY DEF GrantsKnown
  <2>4. \A n : Granted(d, n) => Granted(d, n)'
    BY <2>1, <2>2 DEF Granted
  <2>5. \A n \in registered'[d] : Granted(d, n)'
    BY <2>1, <2>4 DEF GrantsKnown
  <2>6. CASE d = c
    <3>1. AuthRequired => principal[c] # None /\ call[c].usr = UsrId(principal[c])
      BY <2>1 DEF GrantsKnown
    <3>2. reply'[c] # "error" /\ call'[c].method = "Register" => Granted(c, call[c].node)'
      BY <2>1, <2>3, <3>1 DEF Granted
    <3> QED
      BY <2>1, <2>3, <2>5, <2>6, <3>1, <3>2 DEF Inv, TypeOK
  <2>7. CASE d # c
    BY <2>1, <2>2, <2>4, <2>5, <2>7 DEF GrantsKnown, Inv, TypeOK
  <2> QED
    BY <2>6, <2>7
<1>6. ASSUME NEW c \in Channels, SyncRelayRegistry(c)
      PROVE  GrantsKnown'
  <2>1. /\ at[c] = "sync" /\ at' = [at EXCEPT ![c] = "respond"]
        /\ call' = [call EXCEPT ![c] = None] /\ reply' = [reply EXCEPT ![c] = "none"]
        /\ UNCHANGED <<hub_resource, link, principal, granted>>
        /\ \/ /\ reply[c] # "error" /\ call[c].method = "Register"
              /\ registered' = [registered EXCEPT ![c] = @ \cup {call[c].node}]
           \/ registered' = [registered EXCEPT ![c] = @ \ {call[c].node}]
           \/ UNCHANGED registered
    BY <1>6 DEF SyncRelayRegistry
  <2> QED
    BY <2>1 DEF GrantsKnown, Granted, Inv, TypeOK
<1>7. ASSUME NEW n \in Nodes, NEW e \in Events, Consume(n, e)
      PROVE  GrantsKnown'
  BY <1>7 DEF Consume, GrantsKnown, Granted
<1>8. CASE Restart
  BY <1>8 DEF Restart, GrantsKnown, Granted
<1>9. CASE UNCHANGED vars
  BY <1>9 DEF vars, GrantsKnown, Granted
<1> QED
  BY <1>1, <1>2, <1>3, <1>4, <1>5, <1>6, <1>7, <1>8, <1>9 DEF Next, Step, Handle

LEMMA InitGrants == Init => GrantsKnown
BY DEF Init, GrantsKnown

\* Whatever users, apps, events and breaks do, an entry of the relay registry
\* leads to a connection on which the database accepted the node, where
\* authentication is required for the principal the connection has.
THEOREM RoutesAreRegistrants == Spec => []RouteIsRegistrants
<1>1. Inv /\ GrantsKnown => RouteIsRegistrants
  BY DEF Inv, EntriesKnown, GrantsKnown, RouteIsRegistrants
<1> QED
  BY <1>1, InitInv, NextKeeps, InitGrants, GrantsKnownKeep, PTL DEF Spec

(***************************************************************************)
(* When a node that has registered stays reachable                         *)
(***************************************************************************)
\* The channel is about to bring its request for the node into the registry.
Entering(c, n) ==
  /\ at[c] = "sync" /\ reply[c] # "error"
  /\ call[c].by = "node_id" /\ call[c].method # "Discover" /\ call[c].node = n

\* A node registered on one channel is registered on no other, and no other is
\* about to enter or remove it: it reconnects only when the channel it was
\* registered on has ended.
OneHome ==
  \A n \in Nodes, c \in Channels, d \in Channels :
    n \in registered[c] /\ c # d => n \notin registered[d] /\ ~Entering(d, n)

\* The registry has what the channel remembers.
Homed == \A n \in Nodes, c \in Channels : n \in registered[c] => relay_registry[n] = c

\* One channel's entering or ending leaves the nodes of the others alone.
LEMMA HomedKeeps ==
  ASSUME Inv, OneHome, Homed, [Next]_vars
  PROVE  Homed'
<1> USE DEF Inv
<1>1. ASSUME UNCHANGED <<relay_registry, registered>>
      PROVE  Homed'
  BY <1>1 DEF Homed
<1>2. ASSUME NEW c \in Channels, Cleanup(c)
      PROVE  Homed'
  <2> SUFFICES ASSUME NEW n \in Nodes, NEW d \in Channels, n \in registered'[d]
               PROVE  relay_registry'[n] = d
    BY DEF Homed
  <2>1. d # c /\ n \in registered[d]
    BY <1>2 DEF Cleanup, TypeOK
  <2>2. n \notin registered[c]
    BY <2>1 DEF OneHome
  <2> QED
    BY <1>2, <2>1, <2>2 DEF Cleanup, Homed, TypeOK
<1>3. ASSUME NEW c \in Channels, SyncRelayRegistry(c)
      PROVE  Homed'
  <2>2. CASE UNCHANGED <<relay_registry, registered>>
    BY <2>2, <1>1
  <2>3. CASE ~UNCHANGED <<relay_registry, registered>>
    <3> DEFINE n == call[c].node
    <3>1. Entering(c, n)
      BY <1>3, <2>3 DEF SyncRelayRegistry, Entering
    <3>0. call[c] \in Call
      BY <3>1 DEF Entering, CallsKnown
    <3>2. \A d \in Channels \ {c} : n \notin registered[d]
      BY <3>0, <3>1 DEF OneHome, Call
    <3>3. \/ /\ relay_registry' = [relay_registry EXCEPT ![n] = c]
             /\ registered' = [registered EXCEPT ![c] = @ \cup {n}]
          \/ /\ relay_registry' = [relay_registry EXCEPT ![n] = None]
             /\ registered' = [registered EXCEPT ![c] = @ \ {n}]
      BY <1>3, <2>3 DEF SyncRelayRegistry
    <3>4. n \in Nodes
      BY <3>0 DEF Call
    <3> HIDE DEF n
    <3> QED
      BY <3>2, <3>3, <3>4 DEF Homed, TypeOK
  <2> QED
    BY <2>2, <2>3
<1>4. ASSUME Restart
      PROVE  Homed'
  BY <1>4 DEF Restart, Homed
<1>5. ASSUME UNCHANGED vars
      PROVE  Homed'
  BY <1>5, <1>1 DEF vars
<1>6. ASSUME NEW c \in Channels,
             Open(c) \/ Lose(c) \/ Request(c) \/ Register(c) \/ Unregister(c) \/ Discover(c)
             \/ CallFails(c) \/ Respond(c) \/ \E p \in Users \cup Apps : Authenticate(c, p)
      PROVE  Homed'
  BY <1>6, <1>1 DEF Open, Lose, Request, Receive, Register, Unregister, Discover, CallFails,
     Replied, Respond, Authenticate, rows
<1>7. ASSUME NEW n \in Nodes, NEW e \in Events, Consume(n, e)
      PROVE  Homed'
  BY <1>7, <1>1 DEF Consume
<1> QED
  BY <1>2, <1>3, <1>4, <1>5, <1>6, <1>7 DEF Next, Step, Handle

\* So a node loses its entry while its connection lives only by registering on
\* a second one meanwhile: with one at a time it stays reachable, whatever else
\* channels do, and however they end.
THEOREM OneHomeIsReachable == Spec /\ []OneHome => []NodeStaysReachable
<1>1. Init => Homed
  BY DEF Init, Homed
<1>2. Inv /\ OneHome /\ Homed /\ [Next]_vars => Homed'
  BY HomedKeeps
<1>3. Inv /\ Homed => NodeStaysReachable
  BY RegistryAssumption DEF Homed, NodeStaysReachable
<1> QED
  BY <1>1, <1>2, <1>3, InitInv, NextKeeps, PTL DEF Spec

(***************************************************************************)
(* Relays                                                                  *)
(***************************************************************************)
\* Two sequences hold 0..k between them, in order.
Line(out, in, k) ==
  /\ Len(out) + Len(in) = k + 1
  /\ \A i \in 1..Len(out) : out[i] = i - 1
  /\ \A i \in 1..Len(in) : in[i] = Len(out) + i - 1

LEMMA LineGrows ==
  ASSUME NEW out \in Seq(Nat), NEW in \in Seq(Nat), NEW k \in Nat, Line(out, in, k)
  PROVE  Line(out, Append(in, k + 1), k + 1)
<1> DEFINE s == Append(in, k + 1)
<1>1. /\ Len(s) = Len(in) + 1 /\ s[Len(in) + 1] = k + 1
      /\ \A i \in 1..Len(in) : s[i] = in[i]
  BY AppendProperties
<1>2. Len(in) \in Nat /\ Len(out) \in Nat
  OBVIOUS
<1> HIDE DEF s
<1> QED
  BY <1>1, <1>2 DEF Line

LEMMA LineMoves ==
  ASSUME NEW out \in Seq(Nat), NEW in \in Seq(Nat), NEW k \in Nat, Line(out, in, k),
         in # <<>>
  PROVE  Line(Append(out, Head(in)), Tail(in), k)
<1> DEFINE h == Head(in)
           o == Append(out, h)
           t == Tail(in)
<1>1. h \in Nat /\ h = in[1] /\ Len(t) = Len(in) - 1 /\ \A i \in 1..Len(t) : t[i] = in[i + 1]
  BY HeadTailProperties
<1>2. Len(in) \in Nat \ {0} /\ Len(out) \in Nat
  BY EmptySeq
<1> HIDE DEF t, h
<1>3. Len(o) = Len(out) + 1 /\ o[Len(out) + 1] = h /\ \A i \in 1..Len(out) : o[i] = out[i]
  BY <1>1, AppendProperties
<1> HIDE DEF o
<1>4. h = Len(out)
  BY <1>1, <1>2 DEF Line
<1>5. Len(o) + Len(t) = k + 1
  <2> DEFINE a == Len(out)
             b == Len(in)
             c == Len(o)
             d == Len(t)
  <2>1. a \in Nat /\ b \in Nat /\ a + b = k + 1
    BY <1>2 DEF Line
  <2>2. c = a + 1 /\ d = b - 1
    BY <1>1, <1>3
  <2> HIDE DEF a, b, c, d
  <2>3. c + d = k + 1
    BY <2>1, <2>2
  <2> QED
    BY <2>3 DEF c, d
<1>6. ASSUME NEW i \in 1..Len(o) PROVE o[i] = i - 1
  <2>1. CASE i = Len(out) + 1
    BY <1>2, <1>3, <1>4, <2>1
  <2>2. CASE i \in 1..Len(out)
    BY <1>3, <2>2 DEF Line
  <2> QED
    BY <1>2, <1>3, <2>1, <2>2
<1>7. ASSUME NEW i \in 1..Len(t) PROVE t[i] = Len(o) + i - 1
  <2>1. i + 1 \in 1..Len(in) /\ t[i] = in[i + 1]
    BY <1>1, <1>2
  <2>2. in[i + 1] = Len(out) + (i + 1) - 1
    BY <2>1 DEF Line
  <2> QED
    BY <1>2, <1>3, <2>1, <2>2
<1>8. Line(o, t, k)
  BY <1>5, <1>6, <1>7 DEF Line
<1> QED
  BY <1>8 DEF o, h, t

\* What the source has sent is with the hub or the target, in order.
Fed(q) ==
  /\ q.at \notin {"idle", "open"} => q.to \in Nodes
  /\ q.at \in {"idle", "open"} => q.sent = 0 /\ q.inbox = <<>>
  /\ q.at \in {"lookup", "dial", "greet"} =>
       Len(q.inbox) = q.sent /\ \A i \in 1..q.sent : q.inbox[i] = i
  /\ q.at \in {"idle", "open", "lookup", "dial", "greet"} => q.out = <<>>
  /\ q.at = "forward" => Line(q.out, q.inbox, q.sent)

RelayInv == RelayTypeOK /\ \A r \in Relays : Fed(relay[r])

LEMMA NoRelayFed == NoRelay \in RelayState /\ Fed(NoRelay)
BY RelayAssumption DEF NoRelay, RelayState, Fed

\* A relay's own step is one of the handler's or of the source's.
LEMMA RelayMoves ==
  ASSUME RelayInv, NEW r \in Relays, NEW q, q \in RelayState, Fed(q), Become(r, q)
  PROVE  RelayInv'
BY DEF RelayInv, RelayTypeOK, Become

\* A frame that comes in is the next one.
LEMMA SendFed ==
  ASSUME NEW q \in RelayState, Fed(q), NEW n \in RelayState,
         q.at \in {"lookup", "dial", "greet", "forward"},
         n.at = q.at, n.to = q.to, n.out = q.out, n.sent = q.sent + 1,
         n.inbox = Append(q.inbox, q.sent + 1)
  PROVE  Fed(n)
<1>1. q.inbox \in Seq(Nat) /\ q.out \in Seq(Nat) /\ q.sent \in Nat
  BY RelayAssumption DEF RelayState
<1>2. CASE q.at \in {"lookup", "dial", "greet"}
  <2> DEFINE s == Append(q.inbox, q.sent + 1)
  <2>1. Len(q.inbox) = q.sent /\ (\A i \in 1..q.sent : q.inbox[i] = i)
        /\ q.out = <<>> /\ q.to \in Nodes
    BY <1>2 DEF Fed
  <2>2. /\ Len(s) = Len(q.inbox) + 1 /\ s[Len(q.inbox) + 1] = q.sent + 1
        /\ \A i \in 1..Len(q.inbox) : s[i] = q.inbox[i]
    BY <1>1, AppendProperties
  <2> HIDE DEF s
  <2>3. Len(s) = q.sent + 1 /\ \A i \in 1..(q.sent + 1) : s[i] = i
    BY <1>1, <2>1, <2>2
  <2> QED
    BY <1>2, <2>1, <2>3 DEF Fed, s
<1>3. CASE q.at = "forward"
  BY <1>1, <1>3, LineGrows DEF Fed
<1> QED
  BY <1>2, <1>3

\* The frame that goes out is the first one.
LEMMA ForwardFed ==
  ASSUME NEW q \in RelayState, Fed(q), NEW n \in RelayState,
         q.at = "forward", q.inbox # <<>>,
         n.at = q.at, n.to = q.to, n.sent = q.sent,
         n.inbox = Tail(q.inbox), n.out = Append(q.out, Head(q.inbox))
  PROVE  Fed(n)
<1>1. q.inbox \in Seq(Nat) /\ q.out \in Seq(Nat) /\ q.sent \in Nat
  BY RelayAssumption DEF RelayState
<1> QED
  BY <1>1, LineMoves DEF Fed

\* Every other step leaves the frames where they are, or starts with none.
LEMMA QuietFed ==
  ASSUME NEW q \in RelayState, Fed(q), NEW n \in RelayState,
         n.sent = q.sent, n.inbox = q.inbox, n.out = q.out,
         \/ n.at = q.at /\ n.to = q.to
         \/ q.at = "open" /\ n.at = "lookup" /\ n.to \in Nodes
         \/ q.at = "lookup" /\ n.at = "dial" /\ n.to = q.to
         \/ q.at = "dial" /\ n.at = "greet" /\ n.to = q.to
  PROVE  Fed(n)
<1>1. CASE n.at = q.at /\ n.to = q.to
  BY <1>1 DEF Fed
<1>2. CASE q.at = "open" /\ n.at = "lookup" /\ n.to \in Nodes
  BY <1>2 DEF Fed
<1>3. CASE q.at \in {"lookup", "dial"} /\ n.at \in {"dial", "greet"} /\ n.to = q.to
  BY <1>3 DEF Fed
<1> QED
  BY <1>1, <1>2, <1>3

LEMMA GreetFed ==
  ASSUME NEW q \in RelayState, Fed(q), NEW n \in RelayState,
         n.sent = q.sent, n.inbox = q.inbox, n.out = << 0 >>,
         q.at = "greet", n.at = "forward", n.to = q.to
  PROVE  Fed(n)
<1>1. Len(<< 0 >>) = 1 /\ << 0 >>[1] = 0
  OBVIOUS
<1>2. q.sent \in Nat
  BY RelayAssumption DEF RelayState
<1>3. Line(<< 0 >>, q.inbox, q.sent)
  BY <1>1, <1>2 DEF Fed, Line
<1> QED
  BY <1>3 DEF Fed

LEMMA RelayStepKeeps ==
  ASSUME RelayInv, Inv, NEW r \in Relays, RelayStep(r)
  PROVE  RelayInv'
<1> USE RelayAssumption
<1> DEFINE q == relay[r]
<1>0. q \in RelayState /\ Fed(q)
  BY DEF RelayInv, RelayTypeOK
<1>1. CASE End(r)
  BY <1>1, NoRelayFed, RelayMoves DEF End
<1>2. CASE \E c \in Channels : OpenRelay(r, c)
  <2>1. PICK c \in Channels : OpenRelay(r, c)
    BY <1>2
  <2> DEFINE n == [NoRelay EXCEPT !.at = "open", !.source = c]
  <2>2. n \in RelayState
    BY NoRelayFed DEF NoRelay, RelayState
  <2>3. n.at = "open" /\ n.sent = 0 /\ n.inbox = <<>> /\ n.out = <<>>
    BY DEF NoRelay
  <2> HIDE DEF n
  <2>4. Fed(n)
    BY <2>3 DEF Fed
  <2> USE DEF n
  <2> QED
    BY <2>1, <2>2, <2>4, RelayMoves DEF OpenRelay
<1>3. CASE \E w \in Nodes : Declare(r, w)
  <2>1. PICK w \in Nodes : Declare(r, w)
    BY <1>3
  <2> DEFINE n == [q EXCEPT !.at = "lookup", !.to = w]
  <2>2. n \in RelayState
    BY <1>0 DEF RelayState
  <2>3. Fed(n)
    BY <1>0, <2>1, <2>2, QuietFed DEF Declare, RelayState
  <2> QED
    BY <2>1, <2>2, <2>3, RelayMoves DEF Declare
<1>4. CASE Send(r)
  <2> DEFINE n == [q EXCEPT !.sent = q.sent + 1, !.inbox = Append(q.inbox, q.sent + 1)]
  <2>1. /\ q.at \in {"lookup", "dial", "greet", "forward"} /\ q.sent < MaxFrames
        /\ Become(r, n)
    BY <1>4 DEF Send
  <2>2. q.sent + 1 \in 1..MaxFrames
    BY <1>0, <2>1 DEF RelayState
  <2> DEFINE s == Append(q.inbox, q.sent + 1)
             k == q.sent + 1
  <2>3. s \in Seq(1..MaxFrames) /\ k \in 0..MaxFrames
    BY <1>0, <2>2, AppendProperties DEF RelayState
  <2> HIDE DEF s, k
  <2>4. [q EXCEPT !.sent = k, !.inbox = s] \in RelayState
    BY <1>0, <2>3 DEF RelayState
  <2> USE DEF s, k
  <2>5. Fed(n)
    BY <1>0, <2>1, <2>4, SendFed DEF RelayState
  <2> QED
    BY <2>1, <2>4, <2>5, RelayMoves
<1>5. CASE Finish(r)
  <2> DEFINE n == [q EXCEPT !.closed = TRUE]
  <2>1. n \in RelayState
    BY <1>0 DEF RelayState
  <2>2. Fed(n)
    BY <1>0, <2>1, QuietFed DEF RelayState
  <2> QED
    BY <1>5, <2>1, <2>2, RelayMoves DEF Finish
<1>6. CASE LookUp(r) /\ ~End(r)
  <2> DEFINE d == relay_registry[q.to]
             t == IF link[d] THEN d ELSE None
             n == [q EXCEPT !.at = "dial", !.target = t]
  <2>1. q.at = "lookup" /\ d # None /\ Become(r, n)
    BY <1>6 DEF LookUp
  <2>2. t \in Channels \cup {None}
    <3>1. d \in Channels
      BY <1>0, <2>1 DEF Inv, TypeOK, Fed
    <3> QED
      BY <3>1
  <2> HIDE DEF t
  <2>3. n \in RelayState
    BY <1>0, <2>2 DEF RelayState
  <2>4. Fed(n)
    BY <1>0, <2>1, <2>3, QuietFed DEF RelayState
  <2> QED
    BY <2>1, <2>3, <2>4, RelayMoves
<1>7. CASE Dial(r) /\ ~End(r)
  <2> DEFINE n == [q EXCEPT !.at = "greet"]
  <2>1. n \in RelayState
    BY <1>0 DEF RelayState
  <2>2. Fed(n)
    BY <1>0, <1>7, <2>1, QuietFed DEF Dial, RelayState
  <2> QED
    BY <1>7, <2>1, <2>2, RelayMoves DEF Dial
<1>8. CASE Greet(r) /\ ~End(r)
  <2> DEFINE n == [q EXCEPT !.at = "forward", !.out = <<0>>]
  <2>1. <<0>> \in Seq(0..MaxFrames)
    OBVIOUS
  <2>2. n \in RelayState
    BY <1>0, <2>1 DEF RelayState
  <2>3. Fed(n)
    BY <1>0, <1>8, <2>2, GreetFed DEF Greet, RelayState
  <2> QED
    BY <1>8, <2>2, <2>3, RelayMoves DEF Greet
<1>9. CASE Forward(r) /\ ~End(r)
  <2> DEFINE n == [q EXCEPT !.inbox = Tail(q.inbox), !.out = Append(q.out, Head(q.inbox))]
  <2>1. q.at = "forward" /\ q.inbox # <<>> /\ Become(r, n)
    BY <1>9 DEF Forward
  <2>2. Tail(q.inbox) \in Seq(1..MaxFrames) /\ Head(q.inbox) \in 1..MaxFrames
    BY <1>0, <2>1, HeadTailProperties DEF RelayState
  <2>3. Head(q.inbox) \in 0..MaxFrames /\ q.out \in Seq(0..MaxFrames)
    BY <1>0, <2>2 DEF RelayState
  <2>4. Append(q.out, Head(q.inbox)) \in Seq(0..MaxFrames)
    BY <2>3, AppendProperties
  <2>5. n \in RelayState
    BY <1>0, <2>2, <2>4 DEF RelayState
  <2>6. Fed(n)
    BY <1>0, <2>1, <2>5, ForwardFed DEF RelayState
  <2> QED
    BY <2>1, <2>5, <2>6, RelayMoves
<1> QED
  BY <1>1, <1>2, <1>3, <1>4, <1>5, <1>6, <1>7, <1>8, <1>9
     DEF RelayStep, HandleRelay, NoTarget, SourceEnds

\* A connection that goes takes only ends of relays with it.
LEMMA CutKeeps ==
  ASSUME RelayInv, relay' = [r \in Relays |-> Cut(relay[r])]
  PROVE  RelayInv'
<1> SUFFICES ASSUME NEW r \in Relays PROVE Cut(relay[r]) \in RelayState /\ Fed(Cut(relay[r]))
  BY DEF RelayInv, RelayTypeOK
<1> DEFINE q == relay[r]
           n == Cut(q)
<1>1. q \in RelayState /\ Fed(q)
  BY DEF RelayInv, RelayTypeOK
<1>2. n \in RelayState
  BY <1>1 DEF Cut, RelayState
<1>3. n.at = q.at /\ n.to = q.to /\ n.sent = q.sent /\ n.inbox = q.inbox /\ n.out = q.out
  BY <1>1 DEF Cut, RelayState
<1> QED
  BY <1>1, <1>2, <1>3, QuietFed

LEMMA RelayInductive ==
  /\ RelayInit => Inv /\ RelayInv
  /\ Inv /\ RelayInv /\ [RelayNext]_relayVars => (Inv /\ RelayInv)'
<1>1. RelayInit => Inv /\ RelayInv
  BY InitInv, NoRelayFed DEF RelayInit, RelayInv, RelayTypeOK
<1>2. ASSUME Inv, RelayInv, [RelayNext]_relayVars PROVE (Inv /\ RelayInv)'
  <2>1. [Next]_vars
    BY <1>2 DEF RelayNext, RelayStep, HandleRelay, OpenRelay, Declare, Send, Finish, NoTarget,
         LookUp, Dial, Greet, Forward, SourceEnds, End, Become, Next, relayVars
  <2>2. Inv'
    BY <1>2, <2>1, NextKeeps
  <2>3. CASE Restart /\ relay' = [r \in Relays |-> NoRelay]
    BY <2>2, <2>3, NoRelayFed DEF RelayInv, RelayTypeOK
  <2>4. CASE UNCHANGED relayVars
    BY <1>2, <2>2, <2>4 DEF relayVars, RelayInv, RelayTypeOK
  <2> QED
    BY <1>2, <2>2, <2>3, <2>4, CutKeeps, RelayStepKeeps DEF RelayNext
<1> QED
  BY <1>1, <1>2

\* Every relay names a node it has looked up and ends that are connections.
THEOREM RelaysTypeOK == RelaySpec => []RelayTypeOK
<1>1. RelayInv => RelayTypeOK
  BY DEF RelayInv
<1> QED
  BY <1>1, RelayInductive, PTL DEF RelaySpec

\* For any number of relays and frames: what a target has got, followed by what
\* the hub still holds, is the hub's declaration and the source's frames.
THEOREM RelaysForwardInOrder == RelaySpec => []ForwardedInOrder
<1>1. RelayInv => ForwardedInOrder
  <2> SUFFICES ASSUME RelayInv, NEW r \in Relays, relay[r].at = "forward"
               PROVE  relay[r].out \o relay[r].inbox
                        = [i \in 1..(relay[r].sent + 1) |-> i - 1]
    BY DEF ForwardedInOrder
  <2> DEFINE o == relay[r].out
             n == relay[r].inbox
             k == relay[r].sent
  <2>1. o \in Seq(Nat) /\ n \in Seq(Nat) /\ k \in Nat /\ Line(o, n, k)
    BY RelayAssumption DEF RelayInv, RelayTypeOK, RelayState, Fed
  <2> HIDE DEF o, n, k
  <2>2. /\ o \o n \in Seq(Nat) /\ Len(o \o n) = Len(o) + Len(n)
        /\ \A i \in 1..(Len(o) + Len(n)) :
             (o \o n)[i] = IF i <= Len(o) THEN o[i] ELSE n[i - Len(o)]
    BY <2>1, ConcatProperties
  <2>3. Len(o) \in Nat /\ Len(n) \in Nat
    BY <2>1
  <2> DEFINE s == o \o n
  <2>4. s \in [1..(k + 1) -> Nat]
    BY <2>1, <2>2, LenProperties DEF Line
  <2> HIDE DEF s
  <2>5. \A i \in 1..(k + 1) : s[i] = i - 1
    BY <2>1, <2>2, <2>3 DEF Line, s
  <2>6. s = [i \in 1..(k + 1) |-> i - 1]
    BY <2>4, <2>5
  <2> QED
    BY <2>6 DEF s, o, n, k
<1> QED
  BY <1>1, RelayInductive, PTL DEF RelaySpec

\* The target of a relay is live and was granted the node the source named.
Reaches(q) ==
  /\ q.at \in {"idle", "open", "lookup"} => q.target = None
  /\ q.target # None => link[q.target] /\ Granted(q.target, q.to)

Reached == \A r \in Relays : Reaches(relay[r])

\* A live connection keeps what it was granted, and stays who it is once that
\* matters.
LEMMA GrantStays ==
  ASSUME Inv, GrantsKnown, Step, NEW c \in Channels, link[c], NEW n, Granted(c, n)
  PROVE  Granted(c, n)'
<1> USE RegistryAssumption
<1>1. ASSUME NEW d \in Channels, Cleanup(d) PROVE Granted(c, n)'
  <2>1. d # c
    BY <1>1 DEF Cleanup, Inv, CallsKnown
  <2> QED
    BY <1>1, <2>1 DEF Cleanup, Granted, Inv, TypeOK
<1>2. ASSUME NEW d \in Channels, NEW p \in Users \cup Apps, Authenticate(d, p)
      PROVE  Granted(c, n)'
  <2>1. principal[d] = None /\ principal' = [principal EXCEPT ![d] = p] /\ UNCHANGED granted
    BY <1>2 DEF Authenticate
  <2>2. d = c => ~AuthRequired
    BY <2>1 DEF GrantsKnown, Granted
  <2> QED
    BY <2>1, <2>2 DEF Granted, Inv, TypeOK
<1>3. ASSUME UNCHANGED principal, granted[c] \subseteq granted'[c] PROVE Granted(c, n)'
  BY <1>3 DEF Granted
<1>4. ASSUME NEW d \in Channels, Open(d) \/ Lose(d) \/ Request(d)
      PROVE  Granted(c, n)'
  BY <1>3, <1>4 DEF Open, Lose, Request, Receive
<1>5. ASSUME NEW d \in Channels, Handle(d)
      PROVE  Granted(c, n)'
  BY <1>3, <1>5 DEF Handle, Register, Unregister, Discover, CallFails, Replied,
     SyncRelayRegistry, Respond, Inv, TypeOK
<1>6. ASSUME NEW m \in Nodes, NEW e \in Events, Consume(m, e)
      PROVE  Granted(c, n)'
  BY <1>3, <1>6 DEF Consume
<1> QED
  BY <1>1, <1>2, <1>4, <1>5, <1>6 DEF Step

\* A relay reaches on through its own steps, and through those of the registry.
LEMMA ReachedInStep ==
  ASSUME Inv, GrantsKnown, RelayInv, Reached, NEW r \in Relays, RelayStep(r)
  PROVE  \E n : Become(r, n) /\ Reaches(n)
<1> DEFINE q == relay[r]
<1>0. q \in RelayState /\ Fed(q) /\ Reaches(q)
  BY DEF RelayInv, RelayTypeOK, Reached
<1>1. CASE End(r)
  BY <1>1 DEF End, NoRelay, Reaches
<1>2. CASE \E c \in Channels : OpenRelay(r, c)
  <2>1. PICK c \in Channels : OpenRelay(r, c)
    BY <1>2
  <2> DEFINE n == [NoRelay EXCEPT !.at = "open", !.source = c]
  <2>2. Become(r, n) /\ n.target = None
    BY <2>1 DEF OpenRelay, NoRelay
  <2> QED
    BY <2>2 DEF Reaches
<1>3. CASE \E w \in Nodes : Declare(r, w)
  <2>1. PICK w \in Nodes : Declare(r, w)
    BY <1>3
  <2> DEFINE n == [q EXCEPT !.at = "lookup", !.to = w]
  <2>2. q.target = None
    BY <1>0, <2>1 DEF Declare, Reaches
  <2>3. n.at = "lookup" /\ n.target = None
    BY <1>0, <2>2 DEF RelayState
  <2> QED
    BY <2>1, <2>3 DEF Declare, Reaches
<1>4. ASSUME NEW n, Become(r, n), n.target = q.target, n.to = q.to,
             n.at = q.at \/ n.at \in {"greet", "forward"}
      PROVE  Reaches(n)
  BY <1>0, <1>4 DEF Reaches
<1>5. CASE Send(r)
  <2> DEFINE n == [q EXCEPT !.sent = q.sent + 1, !.inbox = Append(q.inbox, q.sent + 1)]
  <2>1. Become(r, n)
    BY <1>5 DEF Send
  <2>2. n.target = q.target /\ n.to = q.to /\ n.at = q.at
    BY <1>0 DEF RelayState
  <2> QED
    BY <1>4, <2>1, <2>2
<1>6. CASE Finish(r)
  <2> DEFINE n == [q EXCEPT !.closed = TRUE]
  <2>1. Become(r, n) /\ n.target = q.target /\ n.to = q.to /\ n.at = q.at
    BY <1>0, <1>6 DEF Finish, RelayState
  <2> QED
    BY <1>4, <2>1
<1>7. CASE LookUp(r) /\ ~End(r)
  <2> DEFINE d == relay_registry[q.to]
             t == IF link[d] THEN d ELSE None
             n == [q EXCEPT !.at = "dial", !.target = t]
  <2>1. q.at = "lookup" /\ d # None /\ Become(r, n) /\ q.to \in Nodes
    BY <1>0, <1>7 DEF LookUp, Fed
  <2>2. d \in Channels /\ q.to \in registered[d]
    BY <2>1 DEF Inv, TypeOK, EntriesKnown
  <2>3. Granted(d, q.to)
    BY <2>2 DEF GrantsKnown
  <2>4. t # None => t = d /\ link[t]
    OBVIOUS
  <2>5. n.at = "dial" /\ n.target = t /\ n.to = q.to
    BY <1>0 DEF RelayState
  <2> HIDE DEF n, t, d
  <2>6. Reaches(n)
    BY <2>1, <2>3, <2>4, <2>5 DEF Reaches
  <2> QED
    BY <2>1, <2>6
<1>8. CASE Dial(r) /\ ~End(r)
  <2> DEFINE n == [q EXCEPT !.at = "greet"]
  <2>1. Become(r, n) /\ n.target = q.target /\ n.to = q.to /\ n.at = "greet"
    BY <1>0, <1>8 DEF Dial, RelayState
  <2> QED
    BY <1>4, <2>1
<1>9. CASE Greet(r) /\ ~End(r)
  <2> DEFINE n == [q EXCEPT !.at = "forward", !.out = <<0>>]
  <2>1. Become(r, n) /\ n.target = q.target /\ n.to = q.to /\ n.at = "forward"
    BY <1>0, <1>9 DEF Greet, RelayState
  <2> QED
    BY <1>4, <2>1
<1>10. CASE Forward(r) /\ ~End(r)
  <2> DEFINE n == [q EXCEPT !.inbox = Tail(q.inbox), !.out = Append(q.out, Head(q.inbox))]
  <2>1. Become(r, n)
    BY <1>10 DEF Forward
  <2>2. n.target = q.target /\ n.to = q.to /\ n.at = q.at
    BY <1>0 DEF RelayState
  <2> QED
    BY <1>4, <2>1, <2>2
<1> QED
  BY <1>1, <1>2, <1>3, <1>5, <1>6, <1>7, <1>8, <1>9, <1>10
     DEF RelayStep, HandleRelay, NoTarget, SourceEnds

LEMMA ReachedKeeps ==
  ASSUME Inv, GrantsKnown, RelayInv, Reached, [RelayNext]_relayVars
  PROVE  Reached'
<1>1. ASSUME Step, relay' = [r \in Relays |-> Cut(relay[r])] PROVE Reached'
  <2> SUFFICES ASSUME NEW r \in Relays PROVE Reaches(relay[r])'
    BY DEF Reached
  <2> DEFINE q == relay[r]
             c == q.target
  <2>1. q \in RelayState /\ Reaches(q)
    BY DEF RelayInv, RelayTypeOK, Reached
  <2>2. relay'[r].at = q.at /\ relay'[r].to = q.to
        /\ relay'[r].target = IF Gone(c) THEN None ELSE c
    BY <1>1, <2>1 DEF Cut, RelayState
  <2>3. CASE relay'[r].target = None
    BY <2>3 DEF Reaches
  <2>4. CASE relay'[r].target # None
    <3>1. c \in Channels /\ c # None /\ ~Gone(c) /\ relay'[r].target = c
      BY <2>1, <2>2, <2>4 DEF RelayState
    <3>2. /\ link[c] /\ Granted(c, q.to)
          /\ q.at \notin {"idle", "open", "lookup"}
      BY <2>1, <3>1 DEF Reaches
    <3>3. link' \in [Channels -> BOOLEAN]
      BY <1>1, NextKeeps DEF Next, Inv, TypeOK
    <3>4. link'[c]
      BY <3>1, <3>2, <3>3 DEF Gone
    <3> DEFINE n == q.to
    <3>5. Granted(c, n)
      BY <3>2
    <3> HIDE DEF n, c
    <3>6. \E g \in granted'[c] :
            g.node = n /\ (AuthRequired => g.usr = UsrId(principal'[c]))
      BY <1>1, <3>1, <3>2, <3>5, GrantStays DEF Granted, UsrId
    <3>7. relay'[r].target = c /\ relay'[r].to = n
      BY <2>2, <3>1 DEF n
    <3> QED
      BY <2>2, <3>2, <3>4, <3>6, <3>7 DEF Reaches, Granted, UsrId
  <2> QED
    BY <2>3, <2>4
<1>2. ASSUME NEW r \in Relays, RelayStep(r) PROVE Reached'
  <2>1. PICK n : Become(r, n) /\ Reaches(n)
    BY <1>2, ReachedInStep
  <2>2. UNCHANGED vars /\ relay' = [relay EXCEPT ![r] = n] /\ DOMAIN relay = Relays
    BY <2>1 DEF Become, RelayInv, RelayTypeOK
  <2> QED
    BY <2>1, <2>2 DEF vars, Reached, Reaches, Granted, UsrId
<1>3. ASSUME Restart, relay' = [r \in Relays |-> NoRelay] PROVE Reached'
  BY <1>3 DEF Reached, Reaches, NoRelay
<1>4. CASE UNCHANGED relayVars
  BY <1>4 DEF relayVars, vars, Reached, Reaches, Granted, UsrId
<1> QED
  BY <1>1, <1>2, <1>3, <1>4 DEF RelayNext

\* For any users, apps, nodes and relays, with Unregister and events: a relay
\* writes to a connection on which the node was registered and accepted.
THEOREM RelaysReachRegistrants == RelaySpec => []RelayToRegistrant
<1> DEFINE I == Inv /\ GrantsKnown /\ RelayInv /\ Reached
<1>1. RelayInit => I
  BY InitGrants, RelayInductive DEF RelayInit, Reached, Reaches, NoRelay
<1>2. I /\ [RelayNext]_relayVars => I'
  <2> SUFFICES ASSUME I, [RelayNext]_relayVars PROVE I'
    OBVIOUS
  <2>1. [Next]_vars
    BY DEF RelayNext, RelayStep, HandleRelay, OpenRelay, Declare, Send, Finish, NoTarget,
         LookUp, Dial, Greet, Forward, SourceEnds, End, Become, Next, relayVars
  <2> QED
    BY <2>1, RelayInductive, GrantsKnownKeep, ReachedKeeps
<1>3. I => RelayToRegistrant
  BY DEF RelayToRegistrant, Reached, Reaches
<1> QED
  BY <1>1, <1>2, <1>3, PTL DEF RelaySpec
=============================================================================
