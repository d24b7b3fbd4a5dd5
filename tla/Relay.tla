-------------------------------- MODULE Relay ------------------------------
(***************************************************************************)
(* The `relay` channel of the Unison surface (unison_server.rs): a source  *)
(* names a node, the hub finds the node's connection in the relay          *)
(* registry, opens a stream to it and forwards the source's frames, one    *)
(* way and unread.                                                         *)
(*                                                                         *)
(* Composed with NodeRegistry, which fills the registry and has the        *)
(* connections.  A relay keeps the connection it has looked up, whatever   *)
(* the registry says later; connections break between any two steps.  The  *)
(* streams are the library's: reliable and in order while both ends live.  *)
(***************************************************************************)
EXTENDS NodeRegistry, Sequences

CONSTANTS
  Relays,        \* relay channels, each used again
  MaxFrames      \* how many frames a source sends

ASSUME RelayAssumption == MaxFrames \in Nat

VARIABLES relay  \* relay channel -> what its handler knows

relayVars == <<vars, relay>>

\* `source` and `target` are connections, None once gone; `inbox` has the frames
\* sent and not yet received, `out` what was written to the target, 0 being the
\* hub's own declaration of the source; `closed` says the source has finished.
RelayState ==
  [at : {"idle", "open", "lookup", "dial", "greet", "forward"},
   source : Channels \cup {None}, to : Nodes \cup {None}, target : Channels \cup {None},
   sent : 0..MaxFrames, closed : BOOLEAN,
   inbox : Seq(1..MaxFrames), out : Seq(0..MaxFrames)]

NoRelay ==
  [at |-> "idle", source |-> None, to |-> None, target |-> None,
   sent |-> 0, closed |-> FALSE, inbox |-> <<>>, out |-> <<>>]

RelayInit == Init /\ relay = [r \in Relays |-> NoRelay]

Become(r, q) == relay' = [relay EXCEPT ![r] = q] /\ UNCHANGED vars

(***************************************************************************)
(* The source                                                              *)
(***************************************************************************)
\* The handler authorizes the connection; a source it refuses is answered and
\* the channel ends.
OpenRelay(r, c) ==
  /\ relay[r].at = "idle" /\ link[c]
  /\ Authorized(principal[c], Readers)
  /\ Become(r, [NoRelay EXCEPT !.at = "open", !.source = c])

\* The first frame, {to, from}.
Declare(r, n) ==
  /\ relay[r].at = "open" /\ relay[r].source # None
  /\ Become(r, [relay[r] EXCEPT !.at = "lookup", !.to = n])

\* The source does not wait to be told that the relay is established.
Send(r) ==
  LET q == relay[r] IN
  /\ q.at \in {"lookup", "dial", "greet", "forward"}
  /\ q.source # None /\ ~q.closed /\ q.sent < MaxFrames
  /\ Become(r, [q EXCEPT !.sent = @ + 1, !.inbox = Append(@, q.sent + 1)])

\* The source ends its stream; what it has sent is still received.
Finish(r) ==
  /\ relay[r].at # "idle" /\ relay[r].source # None /\ ~relay[r].closed
  /\ Become(r, [relay[r] EXCEPT !.closed = TRUE])

(***************************************************************************)
(* handle_relay                                                            *)
(***************************************************************************)
\* Whatever happens, the handler returns and the streams are dropped.
End(r) == Become(r, NoRelay)

\* No first frame, or one without `to`.
NoTarget(r) == relay[r].at = "open" /\ End(r)

\* A node without an entry is offline.  An entry may lead to a connection that
\* is gone and not yet cleaned up.
LookUp(r) ==
  LET d == relay_registry[relay[r].to] IN
  /\ relay[r].at = "lookup"
  /\ \/ d = None /\ End(r)
     \/ /\ d # None
        /\ Become(r, [relay[r] EXCEPT !.at = "dial", !.target = IF link[d] THEN d ELSE None])

\* open_server_stream.
Dial(r) ==
  /\ relay[r].at = "dial"
  /\ End(r) \/ Become(r, [relay[r] EXCEPT !.at = "greet"])

\* Mutant: the source is not declared.
GreetNot(r) ==
  /\ relay[r].at = "greet"
  /\ End(r) \/ Become(r, [relay[r] EXCEPT !.at = "forward"])

\* The target is told who sends, then the source that the relay stands.
Greet(r) ==
  /\ relay[r].at = "greet"
  /\ End(r) \/ Become(r, [relay[r] EXCEPT !.at = "forward", !.out = <<0>>])

\* A write that fails ends the relay; one to a connection not yet known to be
\* gone does not.
Forward(r) ==
  LET q == relay[r] IN
  /\ q.at = "forward" /\ q.inbox # <<>>
  /\ \/ Become(r, [q EXCEPT !.inbox = Tail(@), !.out = Append(@, Head(q.inbox))])
     \/ End(r)

\* Mutant: only a source that says so ends the relay.
SourceEndsPolitely(r) ==
  /\ relay[r].at = "forward" /\ relay[r].closed /\ relay[r].inbox = <<>>
  /\ End(r)

\* recv_frame fails: after the last frame of a stream that was finished, at any
\* time on a connection that is gone.
SourceEnds(r) ==
  /\ relay[r].at = "forward"
  /\ relay[r].source = None \/ (relay[r].closed /\ relay[r].inbox = <<>>)
  /\ End(r)

HandleRelay(r) ==
  LookUp(r) \/ Dial(r) \/ Greet(r) \/ Forward(r) \/ SourceEnds(r)

\* What the handler does without waiting for anybody.  Opening a stream to the
\* target and writing to it have no timeout: they may wait for as long as the
\* target lives and does not read, and return when its connection is gone.
Unhindered(r) ==
  \/ LookUp(r) \/ SourceEnds(r)
  \/ relay[r].target = None /\ (Dial(r) \/ Greet(r) \/ Forward(r))

\* At "open" the handler waits for the source.
AwaitOpen(r) ==
  /\ relay[r].source = None \/ relay[r].closed
  /\ NoTarget(r)

RelayStep(r) ==
  \/ \E c \in Channels : OpenRelay(r, c)
  \/ \E n \in Nodes : Declare(r, n)
  \/ Send(r) \/ Finish(r) \/ NoTarget(r) \/ HandleRelay(r)

(***************************************************************************)
(* The registry's channels and the relays                                  *)
(***************************************************************************)
\* A relay loses the end whose connection goes in this step.
Gone(c) == c # None /\ link[c] /\ ~link'[c]

Cut(q) ==
  [q EXCEPT !.source = IF Gone(@) THEN None ELSE @,
            !.target = IF Gone(@) THEN None ELSE @]

RelayNext ==
  \/ Step /\ relay' = [r \in Relays |-> Cut(relay[r])]
  \/ Restart /\ relay' = [r \in Relays |-> NoRelay]
  \/ \E r \in Relays : RelayStep(r)

RelaySpec == RelayInit /\ [][RelayNext]_relayVars

\* A handler that waits for nobody goes on.  Nothing makes a source send or
\* finish, or a live target take what it is sent.
FairRelaySpec ==
  RelaySpec /\ \A r \in Relays : WF_relayVars(Unhindered(r)) /\ WF_relayVars(AwaitOpen(r))

(***************************************************************************)
(* Properties                                                              *)
(***************************************************************************)
RelayTypeOK == relay \in [Relays -> RelayState]

\* The connection a relay writes to is one on which the node that the source
\* named was registered and the database accepted it, where authentication is
\* required for the user the connection belongs to: between the lookup and any
\* write the node may be registered elsewhere, unregistered or rewritten by an
\* event, connections come and go and channels are used again.
RelayToRegistrant ==
  \A r \in Relays :
    relay[r].target # None => Granted(relay[r].target, relay[r].to)

\* What the target gets is the hub's declaration and then the source's frames,
\* none lost, doubled or overtaken, those that were sent before the relay was
\* established included.
ForwardedInOrder ==
  \A r \in Relays :
    relay[r].at = "forward" =>
      relay[r].out \o relay[r].inbox = [i \in 1..(relay[r].sent + 1) |-> i - 1]

\* The handler waits for a live target to accept the stream or a frame.
WaitsForTarget(r) ==
  /\ relay[r].target # None
  /\ relay[r].at \in {"dial", "greet"} \/ (relay[r].at = "forward" /\ relay[r].inbox # <<>>)

\* A relay whose source is gone or has finished comes to its end, unless it
\* waits for a live target, and then once that is gone too.
RelayEnds ==
  \A r \in Relays :
    relay[r].at # "idle" /\ (relay[r].source = None \/ relay[r].closed)
      ~> relay[r].at = "idle" \/ WaitsForTarget(r)
=============================================================================
