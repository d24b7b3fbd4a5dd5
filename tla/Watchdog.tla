------------------------------ MODULE Watchdog ------------------------------
(***************************************************************************)
(* The connection to a remote SurrealDB that all of the server shares, and *)
(* the watchdog that replaces it (db.rs).  Requests take the connection of *)
(* the moment and keep it for one query.  `check` pings, and when the ping *)
(* fails opens a new connection under the mutex `reconnecting`, unless the *)
(* generation shows that somebody else has done so.  Each await, and each  *)
(* read or write of the shared fields, is a step of its own.               *)
(*                                                                         *)
(* A connection is the number of reconnections before it was opened.       *)
(***************************************************************************)
EXTENDS Integers, FiniteSets

CONSTANTS
  Dog,        \* the watchdog task, the one that sleeps, ticks and is kicked
  Callers,    \* others that call the public `check`: start-up, tests
  Clients,    \* requests, the consumer, channels: what queries the database
  MaxFaults,  \* bound on the faults of the database, a ping too slow included
  None

Checkers == Callers \cup {Dog}

ASSUME WatchdogAssumption ==
  /\ Dog \notin Callers
  /\ MaxFaults \in Nat
  /\ None \notin Checkers

VARIABLES
  up,          \* whether the database answers
  broken,      \* connections whose session the database has forgotten
  faults,      \* faults so far
  conn,        \* Inner.conn
  generation,  \* Inner.generation
  health,      \* Inner.health: ok, reconnects
  lock,        \* who holds Inner.reconnecting, or None
  kicked,      \* the permit Inner.kick stores
  chk,         \* checker -> its step in `check` and its local variables
  cli          \* client -> its step, the connection it took, how it went

database == <<up, broken, faults>>
shared == <<conn, generation, health, lock, kicked>>
vars == <<database, shared, chk, cli>>

Critical == {"open", "swap", "bump", "count"}
Steps == {"idle", "take", "ping", "wait", "retake", "reping", "record", "gap"}

Init ==
  /\ up = TRUE /\ broken = {} /\ faults = 0
  /\ conn = 0 /\ generation = 0
  /\ health = [ok |-> TRUE, reconnects |-> 0]
  /\ lock = None
  /\ kicked = FALSE
  /\ chk = [k \in Checkers |->
              [at |-> "idle", seen |-> 0, over |-> 0, ok |-> TRUE]]
  /\ cli = [c \in Clients |-> [at |-> "idle", over |-> 0, saw |-> "ok"]]

\* A query over connection c is answered.
Answers(c) == up /\ c \notin broken

(***************************************************************************)
(* The database                                                            *)
(***************************************************************************)
\* Connections there are: the shared one, older ones still held, and the one
\* about to be shared.
Opened == 0 .. IF \E k \in Checkers : chk[k].at = "swap" THEN conn + 1 ELSE conn

\* The database stops; what it comes back with may have forgotten sessions.
GoDown(lost) ==
  /\ up /\ faults < MaxFaults
  /\ up' = FALSE
  /\ broken' = broken \cup lost
  /\ faults' = faults + 1
  /\ UNCHANGED <<shared, chk, cli>>

ComeUp ==
  /\ ~up
  /\ up' = TRUE
  /\ UNCHANGED <<broken, faults, shared, chk, cli>>

\* It answers, but not on these sessions: expired, or not found.
LoseSessions(lost) ==
  /\ lost \cap broken = {} /\ lost # {}
  /\ faults < MaxFaults
  /\ broken' = broken \cup lost
  /\ faults' = faults + 1
  /\ UNCHANGED <<up, shared, chk, cli>>

(***************************************************************************)
(* Clients                                                                 *)
(***************************************************************************)
Request(c) ==
  /\ cli[c].at = "idle"
  /\ cli' = [cli EXCEPT ![c] = [at |-> "query", over |-> conn, saw |-> "ok"]]
  /\ UNCHANGED <<database, shared, chk>>

\* Unanswered queries are held by the SDK and cut off by guard_db, which kicks
\* for a slow database as well.
Query(c) ==
  /\ cli[c].at = "query"
  /\ \E saw \in {"ok", "session", "down"} :
       /\ saw = "ok" => Answers(cli[c].over)
       /\ saw = "session" => up /\ cli[c].over \in broken
       /\ cli' = [cli EXCEPT ![c].at = IF saw = "ok" THEN "idle" ELSE "kick",
                             ![c].saw = saw]
  /\ UNCHANGED <<database, shared, chk>>

\* Mutant: notify_waiters, which keeps no permit.
KickWaiting(c) ==
  /\ cli[c].at = "kick"
  /\ kicked' = (kicked \/ chk[Dog].at = "idle")
  /\ cli' = [cli EXCEPT ![c].at = "idle"]
  /\ UNCHANGED <<database, conn, generation, health, lock, chk>>

\* notify_one: any number of kicks leave one permit.
Kick(c) ==
  /\ cli[c].at = "kick"
  /\ kicked' = TRUE
  /\ cli' = [cli EXCEPT ![c].at = "idle"]
  /\ UNCHANGED <<database, conn, generation, health, lock, chk>>

(***************************************************************************)
(* check                                                                   *)
(***************************************************************************)
CheckOnly == <<database, cli>>

Move(k, step) == chk' = [chk EXCEPT ![k].at = step]

\* The watchdog's period is over, or it was kicked; others just call.
Begin(k) ==
  /\ chk[k].at = "idle"
  /\ \/ UNCHANGED kicked
     \/ k = Dog /\ kicked /\ kicked' = FALSE
  /\ chk' = [chk EXCEPT ![k].at = "take", ![k].seen = generation]
  /\ UNCHANGED <<CheckOnly, conn, generation, health, lock>>

Take(k) ==
  /\ chk[k].at \in {"take", "retake"}
  /\ chk' = [chk EXCEPT ![k].at = IF @ = "take" THEN "ping" ELSE "reping",
                        ![k].over = conn]
  /\ UNCHANGED <<CheckOnly, shared>>

\* Mutant: the generation is read after the ping.
PingReadsLate(k) ==
  /\ chk[k].at = "ping"
  /\ chk' = [chk EXCEPT ![k].at = IF Answers(chk[k].over) THEN "record" ELSE "wait",
                        ![k].ok = Answers(chk[k].over),
                        ![k].seen = generation]
  /\ UNCHANGED <<CheckOnly, shared>>

\* The first ping: when it fails, wait for the mutex.
Ping(k) ==
  /\ chk[k].at = "ping"
  /\ chk' = [chk EXCEPT ![k].at = IF Answers(chk[k].over) THEN "record" ELSE "wait",
                        ![k].ok = Answers(chk[k].over)]
  /\ UNCHANGED <<CheckOnly, shared>>

\* The ping after reconnect_from.
Reping(k) ==
  /\ chk[k].at = "reping"
  /\ chk' = [chk EXCEPT ![k].at = "record", ![k].ok = Answers(chk[k].over)]
  /\ UNCHANGED <<CheckOnly, shared>>

\* A database that answers, but not within PING_TIMEOUT.
PingTimesOut(k) ==
  /\ chk[k].at \in {"ping", "reping"}
  /\ up /\ faults < MaxFaults
  /\ faults' = faults + 1
  /\ chk' = [chk EXCEPT ![k].at = IF @ = "ping" THEN "wait" ELSE "record",
                        ![k].ok = FALSE]
  /\ UNCHANGED <<up, broken, shared, cli>>

\* Mutant: whoever has the mutex opens a connection.
LockAndOpen(k) ==
  /\ chk[k].at = "wait"
  /\ lock = None
  /\ lock' = k /\ Move(k, "open")
  /\ UNCHANGED <<CheckOnly, conn, generation, health, kicked>>

\* The mutex, and at once the comparison; who need not reconnect lets it go.
Lock(k) ==
  /\ chk[k].at = "wait"
  /\ lock = None
  /\ IF generation = chk[k].seen
     THEN lock' = k /\ Move(k, "open") ELSE Move(k, "retake") /\ UNCHANGED lock
  /\ UNCHANGED <<CheckOnly, conn, generation, health, kicked>>

OpenSucceeds(k) ==
  /\ chk[k].at = "open"
  /\ up
  /\ Move(k, "swap")
  /\ UNCHANGED <<CheckOnly, shared>>

\* Mutant: the mutex is kept when the connection cannot be opened.
OpenFailsLocked(k) ==
  /\ chk[k].at = "open"
  /\ chk' = [chk EXCEPT ![k].at = "record", ![k].ok = FALSE]
  /\ UNCHANGED <<CheckOnly, shared>>

\* Refused, at the connection or at the signin, or not done within
\* CONNECT_TIMEOUT: a database that answers others may do this too.
OpenFails(k) ==
  /\ chk[k].at = "open"
  /\ lock' = None
  /\ chk' = [chk EXCEPT ![k].at = "record", ![k].ok = FALSE]
  /\ UNCHANGED <<CheckOnly, conn, generation, health, kicked>>

Swap(k) ==
  /\ chk[k].at = "swap"
  /\ conn' = conn + 1
  /\ Move(k, "bump")
  /\ UNCHANGED <<CheckOnly, generation, health, lock, kicked>>

Bump(k) ==
  /\ chk[k].at = "bump"
  /\ generation' = generation + 1
  /\ Move(k, "count")
  /\ UNCHANGED <<CheckOnly, conn, health, lock, kicked>>

Count(k) ==
  /\ chk[k].at = "count"
  /\ health' = [health EXCEPT !.reconnects = @ + 1]
  /\ lock' = None
  /\ Move(k, "retake")
  /\ UNCHANGED <<CheckOnly, conn, generation, kicked>>

\* The watchdog then sleeps for MIN_CHECK_GAP.
Record(k) ==
  /\ chk[k].at = "record"
  /\ health' = [health EXCEPT !.ok = chk[k].ok]
  /\ Move(k, IF k = Dog THEN "gap" ELSE "idle")
  /\ UNCHANGED <<CheckOnly, conn, generation, lock, kicked>>

Wake ==
  /\ chk[Dog].at = "gap"
  /\ Move(Dog, "idle")
  /\ UNCHANGED <<CheckOnly, shared>>

InCheck(k) ==
  \/ Take(k) \/ Ping(k) \/ Lock(k) \/ OpenSucceeds(k) \/ OpenFails(k)
  \/ Swap(k) \/ Bump(k) \/ Count(k) \/ Reping(k) \/ Record(k)

Next ==
  \/ \E lost \in SUBSET Opened : GoDown(lost) \/ LoseSessions(lost)
  \/ ComeUp
  \/ \E c \in Clients : Request(c) \/ Query(c) \/ Kick(c)
  \/ \E k \in Checkers : Begin(k) \/ InCheck(k) \/ PingTimesOut(k)
  \/ Wake

Spec == Init /\ [][Next]_vars

\* The database comes back and does not refuse new connections for ever, the
\* ticker of the watchdog ticks for ever, a call of a checker returns or times
\* out, and tokio's mutex is first come, first served.  Clients owe nothing.
FairSpec ==
  /\ Spec
  /\ WF_vars(ComeUp)
  /\ WF_vars(Begin(Dog)) /\ WF_vars(Wake)
  /\ \A k \in Checkers :
       WF_vars(InCheck(k)) /\ SF_vars(Lock(k)) /\ SF_vars(OpenSucceeds(k))

(***************************************************************************)
(* Properties                                                              *)
(***************************************************************************)
DatabaseOK ==
  up \in BOOLEAN /\ faults \in 0..MaxFaults /\ broken \subseteq 0..(conn + 1)

SharedOK ==
  /\ conn \in Nat /\ generation \in Nat
  /\ health \in [ok : BOOLEAN, reconnects : Nat]
  /\ lock \in Checkers \cup {None}
  /\ kicked \in BOOLEAN

CheckersOK ==
  /\ chk \in [Checkers -> [at : Steps \cup Critical, seen : Nat, over : Nat,
                           ok : BOOLEAN]]
  /\ \A k \in Checkers : chk[k].at \in Critical <=> lock = k

ClientsOK ==
  cli \in [Clients -> [at : {"idle", "query", "kick"}, over : Nat,
                      saw : {"ok", "session", "down"}]]

\* The types, and that whoever is between open and count has the mutex.
TypeOK == DatabaseOK /\ SharedOK /\ CheckersOK /\ ClientsOK

\* The connection is replaced only by a checker whose ping failed on that very
\* connection: a slow checker does not throw away what another has just opened.
ReplacesOnlyFailed ==
  [][conn' # conn =>
       \E k \in Checkers : lock = k /\ chk[k].over = conn /\ ~chk[k].ok]_vars

\* db_resilience.rs:108, one reconnect for one breakage: a fault of the
\* database costs at most one new connection (and session), however many
\* checks and kicks it causes.  Each ping that a slow database lets run into its
\* timeout is a fault of its own: while it stays slow, every check may replace
\* the connection again.
OneReconnectPerFault == conn <= faults

\* A request that finds the shared connection's session gone wakes the watchdog
\* whatever it is doing: it does not sleep on with its last check good.
FailureNoticed ==
  \A c \in Clients :
    cli[c].at = "idle" /\ cli[c].saw = "session" /\ cli[c].over = conn =>
      kicked \/ chk[Dog].at # "idle" \/ ~chk[Dog].ok

\* Once the database has no more faults the server comes to have a connection
\* that answers, keeps it, and /health says so.
Recovers == <>[](Answers(conn) /\ health.ok)
=============================================================================
