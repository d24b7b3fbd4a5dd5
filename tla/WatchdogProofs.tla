--------------------------- MODULE WatchdogProofs ---------------------------
(***************************************************************************)
(* Proofs about Watchdog, for any number of checkers, clients and faults:  *)
(* a connection is replaced only by one whose ping failed on it, at most   *)
(* once for each fault, and no failure that a client met is slept over.    *)
(***************************************************************************)
EXTENDS Watchdog, TLAPS

(***************************************************************************)
(* The inductive invariant                                                 *)
(***************************************************************************)
\* The generation lags behind the connection only between Swap and Bump.
GenerationFollows ==
  /\ generation = conn \/ generation + 1 = conn
  /\ generation # conn => lock # None /\ chk[lock].at = "bump"
  /\ \A k \in Checkers : chk[k].at = "bump" => generation # conn

\* What a checker in `check` knows: it read the generation before it took the
\* connection, so once the mutex and the comparison have let it through, the
\* ping that failed was on the connection of now.
CheckerKnows ==
  \A k \in Checkers :
    /\ chk[k].seen <= generation /\ chk[k].over <= conn
    /\ chk[k].at \in {"ping", "wait"} => chk[k].seen <= chk[k].over
    /\ chk[k].at \in {"wait", "open", "swap"} => ~chk[k].ok
    /\ chk[k].at \in {"open", "swap"} =>
         chk[k].seen = generation /\ chk[k].over = conn /\ generation = conn

\* Each connection so far cost a fault, and one that does not answer, or did
\* not answer a checker, has had a fault of its own.
FaultsPaidFor ==
  /\ conn <= faults
  /\ ~Answers(conn) => conn < faults
  /\ \A k \in Checkers :
       /\ chk[k].at \in {"wait", "open", "swap"} /\ chk[k].over = conn => conn < faults
       /\ chk[k].at = "swap" /\ ~Answers(conn + 1) => conn + 1 < faults
  /\ conn + 1 \in broken => lock # None /\ chk[lock].at = "swap"

\* A client with a failure to report on the shared connection is one whose kick
\* is pending, or the watchdog has begun a check since, which cannot end well.
ClientsHeard ==
  \A c \in Clients :
    /\ cli[c].over <= conn
    /\ cli[c].saw = "session" => cli[c].over \in broken
    /\ cli[c].at = "idle" /\ cli[c].saw = "session" /\ cli[c].over = conn /\ ~kicked =>
         /\ chk[Dog].at \in {"ping", "reping"} => chk[Dog].over = conn
         /\ chk[Dog].at \in {"record", "gap", "idle"} => ~chk[Dog].ok

Inv == TypeOK /\ GenerationFollows /\ CheckerKnows /\ FaultsPaidFor /\ ClientsHeard

LEMMA DogChecks == Dog \in Checkers
BY DEF Checkers

\* The initial state satisfies the invariant.
LEMMA InitInv == Init => Inv
<1> SUFFICES ASSUME Init PROVE Inv
  OBVIOUS
<1>1. TypeOK
  <2>1. DatabaseOK
    BY WatchdogAssumption DEF Init, DatabaseOK
  <2>2. SharedOK
    BY DEF Init, SharedOK
  <2>3. CheckersOK
    BY WatchdogAssumption DEF Init, CheckersOK, Steps, Critical
  <2>4. ClientsOK
    BY DEF Init, ClientsOK
  <2> QED
    BY <2>1, <2>2, <2>3, <2>4 DEF TypeOK
<1>2. GenerationFollows /\ CheckerKnows
  BY DEF Init, GenerationFollows, CheckerKnows
<1>3. FaultsPaidFor
  BY WatchdogAssumption DEF Init, FaultsPaidFor, Answers
<1>4. ClientsHeard
  BY DEF Init, ClientsHeard
<1> QED
  BY <1>1, <1>2, <1>3, <1>4 DEF Inv

\* What the database does keeps the invariant.
LEMMA DatabaseKeeps ==
  ASSUME Inv, \/ \E lost \in SUBSET Opened : GoDown(lost) \/ LoseSessions(lost)
              \/ ComeUp
  PROVE  Inv'
<1> USE WatchdogAssumption DEF Inv, shared
<1>1. ASSUME NEW lost \in SUBSET Opened, GoDown(lost) PROVE Inv'
  <2>1. TypeOK'
    <3>0. faults' \in 0..MaxFaults /\ broken' \subseteq 0..(conn' + 1)
      BY <1>1 DEF GoDown, TypeOK, DatabaseOK, SharedOK, Opened
    <3>1. DatabaseOK'
      BY <1>1, <3>0 DEF GoDown, DatabaseOK
    <3> QED
      BY <1>1, <3>1 DEF GoDown, TypeOK, SharedOK, CheckersOK, ClientsOK
  <2>2. GenerationFollows' /\ CheckerKnows'
    BY <1>1 DEF TypeOK, DatabaseOK, SharedOK, CheckersOK, ClientsOK, GoDown, GenerationFollows, CheckerKnows
  <2>3. FaultsPaidFor'
    BY <1>1 DEF TypeOK, DatabaseOK, SharedOK, CheckersOK, ClientsOK, GoDown, Opened, FaultsPaidFor, CheckerKnows, Answers, Critical
  <2>4. ClientsHeard'
    BY <1>1 DEF TypeOK, DatabaseOK, SharedOK, CheckersOK, ClientsOK, GoDown, ClientsHeard
  <2> QED BY <2>1, <2>2, <2>3, <2>4
<1>2. ASSUME NEW lost \in SUBSET Opened, LoseSessions(lost) PROVE Inv'
  <2>1. TypeOK'
    <3>1. DatabaseOK'
      BY <1>2 DEF LoseSessions, TypeOK, DatabaseOK, SharedOK, Opened
    <3> QED
      BY <1>2, <3>1 DEF LoseSessions, TypeOK, SharedOK, CheckersOK, ClientsOK
  <2>2. GenerationFollows' /\ CheckerKnows'
    BY <1>2 DEF TypeOK, DatabaseOK, SharedOK, CheckersOK, ClientsOK, LoseSessions, GenerationFollows, CheckerKnows
  <2>3. FaultsPaidFor'
    BY <1>2 DEF TypeOK, DatabaseOK, SharedOK, CheckersOK, ClientsOK, LoseSessions, Opened, FaultsPaidFor, CheckerKnows, Answers, Critical
  <2>4. ClientsHeard'
    BY <1>2 DEF TypeOK, DatabaseOK, SharedOK, CheckersOK, ClientsOK, LoseSessions, ClientsHeard
  <2> QED BY <2>1, <2>2, <2>3, <2>4
<1>3. CASE ComeUp
  BY <1>3 DEF ComeUp, TypeOK, DatabaseOK, SharedOK, CheckersOK, ClientsOK, GenerationFollows, CheckerKnows, FaultsPaidFor, ClientsHeard,
              Answers
<1> QED BY <1>1, <1>2, <1>3

\* A client takes the connection, is answered or not, and kicks.
LEMMA ClientKeeps ==
  ASSUME Inv, NEW c \in Clients, Request(c) \/ Query(c) \/ Kick(c)
  PROVE  Inv'
<1> USE DEF Inv, TypeOK, database, shared
<1>1. CASE Request(c)
  <2>1. TypeOK'
    BY <1>1 DEF Request, DatabaseOK, SharedOK, CheckersOK, ClientsOK
  <2>2. GenerationFollows' /\ CheckerKnows' /\ FaultsPaidFor'
    BY <1>1 DEF Request, GenerationFollows, CheckerKnows, FaultsPaidFor, Answers
  <2>3. ClientsHeard'
    BY <1>1 DEF Request, ClientsHeard, ClientsOK, SharedOK
  <2> QED
    BY <2>1, <2>2, <2>3
<1>2. CASE Query(c)
  <2>1. TypeOK'
    <3>1. \E step \in {"idle", "kick"}, how \in {"ok", "session", "down"} :
            cli' = [cli EXCEPT ![c].at = step, ![c].saw = how]
      BY <1>2 DEF Query
    <3>2. ClientsOK'
      <4>1. PICK step \in {"idle", "kick"}, how \in {"ok", "session", "down"} :
              cli' = [cli EXCEPT ![c].at = step, ![c].saw = how]
        BY <3>1
      <4> QED
        BY <4>1 DEF ClientsOK
    <3> QED
      BY <1>2, <3>2 DEF Query, DatabaseOK, SharedOK, CheckersOK
  <2>2. GenerationFollows' /\ CheckerKnows' /\ FaultsPaidFor'
    BY <1>2 DEF Query, GenerationFollows, CheckerKnows, FaultsPaidFor, Answers
  <2>3. ClientsHeard'
    BY <1>2 DEF Query, ClientsHeard, ClientsOK, Answers
  <2> QED
    BY <2>1, <2>2, <2>3
<1>3. CASE Kick(c)
  <2>1. TypeOK'
    BY <1>3 DEF Kick, DatabaseOK, SharedOK, CheckersOK, ClientsOK
  <2>2. GenerationFollows' /\ CheckerKnows' /\ FaultsPaidFor'
    BY <1>3 DEF Kick, GenerationFollows, CheckerKnows, FaultsPaidFor, Answers
  <2>3. ClientsHeard'
    BY <1>3 DEF Kick, ClientsHeard, ClientsOK
  <2> QED
    BY <2>1, <2>2, <2>3
<1> QED
  BY <1>1, <1>2, <1>3

\* A check begins: with the generation of now, before the connection is taken.
LEMMA BeginKeeps ==
  ASSUME Inv, NEW k \in Checkers, Begin(k)
  PROVE  Inv'
<1> USE WatchdogAssumption DEF Inv, TypeOK, CheckOnly, database, shared, Move
<1>1. TypeOK'
  <2>1. DatabaseOK' /\ ClientsOK'
    BY DEF Begin, DatabaseOK, ClientsOK
  <2>2. SharedOK'
    BY DEF Begin, SharedOK, CheckersOK
  <2>3. CheckersOK'
    <3>1. chk' \in [Checkers -> [at : Steps \cup Critical, seen : Nat, over : Nat,
                               ok : BOOLEAN]]
      <4> DEFINE next == [chk[k] EXCEPT !.at = "take", !.seen = generation]
      <4>1. next \in [at : Steps \cup Critical, seen : Nat, over : Nat, ok : BOOLEAN]
        BY DEF Begin, SharedOK, CheckersOK, Steps
      <4>2. chk' = [chk EXCEPT ![k] = next]
        BY DEF Begin, CheckersOK
      <4> QED
        BY <4>1, <4>2 DEF CheckersOK
    <3>2. \A j \in Checkers : chk'[j].at \in Critical <=> lock' = j
      BY DEF Begin, CheckersOK, Critical
    <3> QED
      BY <3>1, <3>2 DEF CheckersOK
  <2> QED
    BY <2>1, <2>2, <2>3
<1>2. GenerationFollows'
  BY DEF Begin, GenerationFollows, SharedOK, CheckersOK, Critical
<1>3. CheckerKnows'
  BY DEF Begin, GenerationFollows, CheckerKnows, SharedOK, CheckersOK, Critical
<1>4. FaultsPaidFor'
  BY DEF Begin, GenerationFollows, CheckerKnows, FaultsPaidFor, Answers, DatabaseOK, SharedOK,
         CheckersOK, Critical
<1>5. ClientsHeard'
  BY DogChecks DEF Begin, CheckerKnows, ClientsHeard, Answers, SharedOK, CheckersOK, ClientsOK
<1> QED
  BY <1>1, <1>2, <1>3, <1>4, <1>5

\* The connection of now is taken for a ping.
LEMMA TakeKeeps ==
  ASSUME Inv, NEW k \in Checkers, Take(k)
  PROVE  Inv'
<1> USE WatchdogAssumption DEF Inv, TypeOK, CheckOnly, database, shared, Move
<1>1. TypeOK'
  <2>1. DatabaseOK' /\ ClientsOK'
    BY DEF Take, DatabaseOK, ClientsOK
  <2>2. SharedOK'
    BY DEF Take, SharedOK, CheckersOK
  <2>3. CheckersOK'
    <3>1. chk' \in [Checkers -> [at : Steps \cup Critical, seen : Nat, over : Nat,
                               ok : BOOLEAN]]
      <4> DEFINE next == [chk[k] EXCEPT !.at = IF @ = "take" THEN "ping" ELSE "reping", !.over = conn]
      <4>1. next \in [at : Steps \cup Critical, seen : Nat, over : Nat, ok : BOOLEAN]
        BY DEF Take, SharedOK, CheckersOK, Steps
      <4>2. chk' = [chk EXCEPT ![k] = next]
        BY DEF Take, CheckersOK
      <4> QED
        BY <4>1, <4>2 DEF CheckersOK
    <3>2. \A j \in Checkers : chk'[j].at \in Critical <=> lock' = j
      BY DEF Take, CheckersOK, Critical
    <3> QED
      BY <3>1, <3>2 DEF CheckersOK
  <2> QED
    BY <2>1, <2>2, <2>3
<1>2. GenerationFollows'
  BY DEF Take, GenerationFollows, SharedOK, CheckersOK, Critical
<1>3. CheckerKnows'
  BY DEF Take, GenerationFollows, CheckerKnows, SharedOK, CheckersOK, Critical
<1>4. FaultsPaidFor'
  BY DEF Take, GenerationFollows, CheckerKnows, FaultsPaidFor, Answers, DatabaseOK, SharedOK,
         CheckersOK, Critical
<1>5. ClientsHeard'
  BY DogChecks DEF Take, CheckerKnows, ClientsHeard, Answers, SharedOK, CheckersOK, ClientsOK
<1> QED
  BY <1>1, <1>2, <1>3, <1>4, <1>5

\* The first ping is answered, or not.
LEMMA PingKeeps ==
  ASSUME Inv, NEW k \in Checkers, Ping(k)
  PROVE  Inv'
<1> USE WatchdogAssumption DEF Inv, TypeOK, CheckOnly, database, shared, Move
<1>1. TypeOK'
  <2>1. DatabaseOK' /\ ClientsOK'
    BY DEF Ping, DatabaseOK, ClientsOK
  <2>2. SharedOK'
    BY DEF Ping, SharedOK, CheckersOK
  <2>3. CheckersOK'
    <3>1. \/ chk' = [chk EXCEPT ![k].at = "record", ![k].ok = TRUE]
          \/ chk' = [chk EXCEPT ![k].at = "wait", ![k].ok = FALSE]
      BY DEF Ping, Answers
    <3>2. chk' \in [Checkers -> [at : Steps \cup Critical, seen : Nat, over : Nat,
                               ok : BOOLEAN]]
      BY <3>1 DEF CheckersOK, Steps
    <3>3. \A j \in Checkers : chk'[j].at \in Critical <=> lock' = j
      BY DEF Ping, CheckersOK, Critical
    <3> QED
      BY <3>2, <3>3 DEF CheckersOK
  <2> QED
    BY <2>1, <2>2, <2>3
<1>2. GenerationFollows'
  BY DEF Ping, GenerationFollows, SharedOK, CheckersOK, Critical
<1>3. CheckerKnows'
  BY DEF Ping, GenerationFollows, CheckerKnows, SharedOK, CheckersOK, Critical
<1>4. FaultsPaidFor'
  BY DEF Ping, GenerationFollows, CheckerKnows, FaultsPaidFor, Answers, DatabaseOK, SharedOK,
         CheckersOK, Critical
<1>5. ClientsHeard'
  BY DogChecks DEF Ping, CheckerKnows, ClientsHeard, Answers, SharedOK, CheckersOK, ClientsOK
<1> QED
  BY <1>1, <1>2, <1>3, <1>4, <1>5

\* A ping runs into its timeout: a fault that pays for the connection to come.
LEMMA PingTimesOutKeeps ==
  ASSUME Inv, NEW k \in Checkers, PingTimesOut(k)
  PROVE  Inv'
<1> USE WatchdogAssumption DEF Inv, TypeOK, CheckOnly, database, shared, Move
<1>1. TypeOK'
  <2>1. DatabaseOK' /\ ClientsOK'
    BY DEF PingTimesOut, DatabaseOK, ClientsOK, SharedOK
  <2>2. SharedOK'
    BY DEF PingTimesOut, SharedOK, CheckersOK
  <2>3. CheckersOK'
    <3>1. \/ chk' = [chk EXCEPT ![k].at = "record", ![k].ok = FALSE]
          \/ chk' = [chk EXCEPT ![k].at = "wait", ![k].ok = FALSE]
      BY DEF PingTimesOut, CheckersOK
    <3>2. chk' \in [Checkers -> [at : Steps \cup Critical, seen : Nat, over : Nat,
                               ok : BOOLEAN]]
      BY <3>1 DEF CheckersOK, Steps
    <3>3. \A j \in Checkers : chk'[j].at \in Critical <=> lock' = j
      BY DEF PingTimesOut, CheckersOK, Critical
    <3> QED
      BY <3>2, <3>3 DEF CheckersOK
  <2> QED
    BY <2>1, <2>2, <2>3
<1>2. GenerationFollows'
  BY DEF PingTimesOut, GenerationFollows, SharedOK, CheckersOK, Critical
<1>3. CheckerKnows'
  BY DEF PingTimesOut, GenerationFollows, CheckerKnows, SharedOK, CheckersOK, Critical
<1>4. FaultsPaidFor'
  BY DEF PingTimesOut, GenerationFollows, CheckerKnows, FaultsPaidFor, Answers, DatabaseOK, SharedOK,
         CheckersOK, Critical
<1>5. ClientsHeard'
  BY DogChecks DEF PingTimesOut, CheckerKnows, ClientsHeard, Answers, SharedOK, CheckersOK, ClientsOK
<1> QED
  BY <1>1, <1>2, <1>3, <1>4, <1>5

\* The mutex is free: the generation says whether to reconnect.
LEMMA LockKeeps ==
  ASSUME Inv, NEW k \in Checkers, Lock(k)
  PROVE  Inv'
<1> USE WatchdogAssumption DEF Inv, TypeOK, CheckOnly, database, shared, Move
<1>1. TypeOK'
  BY DEF Lock, DatabaseOK, SharedOK, CheckersOK, ClientsOK, Steps, Critical
<1>2. GenerationFollows'
  BY DEF Lock, GenerationFollows, SharedOK, CheckersOK, Critical
<1>3. CheckerKnows'
  BY DEF Lock, GenerationFollows, CheckerKnows, SharedOK, CheckersOK, Critical
<1>4. FaultsPaidFor'
  BY DEF Lock, GenerationFollows, CheckerKnows, FaultsPaidFor, Answers, DatabaseOK, SharedOK,
         CheckersOK, Critical
<1>5. ClientsHeard'
  BY DogChecks DEF Lock, CheckerKnows, ClientsHeard, Answers, SharedOK, CheckersOK, ClientsOK
<1> QED
  BY <1>1, <1>2, <1>3, <1>4, <1>5

\* A new connection is opened.
LEMMA OpenSucceedsKeeps ==
  ASSUME Inv, NEW k \in Checkers, OpenSucceeds(k)
  PROVE  Inv'
<1> USE WatchdogAssumption DEF Inv, TypeOK, CheckOnly, database, shared, Move
<1>1. TypeOK'
  BY DEF OpenSucceeds, DatabaseOK, SharedOK, CheckersOK, ClientsOK, Steps, Critical
<1>2. GenerationFollows'
  BY DEF OpenSucceeds, GenerationFollows, SharedOK, CheckersOK, Critical
<1>3. CheckerKnows'
  BY DEF OpenSucceeds, GenerationFollows, CheckerKnows, SharedOK, CheckersOK, Critical
<1>4. FaultsPaidFor'
  BY DEF OpenSucceeds, GenerationFollows, CheckerKnows, FaultsPaidFor, Answers, DatabaseOK, SharedOK,
         CheckersOK, Critical
<1>5. ClientsHeard'
  BY DogChecks DEF OpenSucceeds, CheckerKnows, ClientsHeard, Answers, SharedOK, CheckersOK, ClientsOK
<1> QED
  BY <1>1, <1>2, <1>3, <1>4, <1>5

\* The database is away.
LEMMA OpenFailsKeeps ==
  ASSUME Inv, NEW k \in Checkers, OpenFails(k)
  PROVE  Inv'
<1> USE WatchdogAssumption DEF Inv, TypeOK, CheckOnly, database, shared, Move
<1>1. TypeOK'
  <2>1. DatabaseOK' /\ ClientsOK'
    BY DEF OpenFails, DatabaseOK, ClientsOK
  <2>2. SharedOK'
    BY DEF OpenFails, SharedOK, CheckersOK
  <2>3. CheckersOK'
    <3>1. chk' \in [Checkers -> [at : Steps \cup Critical, seen : Nat, over : Nat,
                               ok : BOOLEAN]]
      <4> DEFINE next == [chk[k] EXCEPT !.at = "record", !.ok = FALSE]
      <4>1. next \in [at : Steps \cup Critical, seen : Nat, over : Nat, ok : BOOLEAN]
        BY DEF OpenFails, SharedOK, CheckersOK, Steps
      <4>2. chk' = [chk EXCEPT ![k] = next]
        BY DEF OpenFails, CheckersOK
      <4> QED
        BY <4>1, <4>2 DEF CheckersOK
    <3>2. \A j \in Checkers : chk'[j].at \in Critical <=> lock' = j
      BY DEF OpenFails, CheckersOK, Critical
    <3> QED
      BY <3>1, <3>2 DEF CheckersOK
  <2> QED
    BY <2>1, <2>2, <2>3
<1>2. GenerationFollows'
  BY DEF OpenFails, GenerationFollows, SharedOK, CheckersOK, Critical
<1>3. CheckerKnows'
  BY DEF OpenFails, GenerationFollows, CheckerKnows, SharedOK, CheckersOK, Critical
<1>4. FaultsPaidFor'
  BY DEF OpenFails, GenerationFollows, CheckerKnows, FaultsPaidFor, Answers, DatabaseOK, SharedOK,
         CheckersOK, Critical
<1>5. ClientsHeard'
  BY DogChecks DEF OpenFails, CheckerKnows, ClientsHeard, Answers, SharedOK, CheckersOK, ClientsOK
<1> QED
  BY <1>1, <1>2, <1>3, <1>4, <1>5

\* The new connection is shared.
LEMMA SwapKeeps ==
  ASSUME Inv, NEW k \in Checkers, Swap(k)
  PROVE  Inv'
<1> USE WatchdogAssumption DEF Inv, TypeOK, CheckOnly, database, shared, Move
<1>1. TypeOK'
  BY DEF Swap, DatabaseOK, SharedOK, CheckersOK, ClientsOK, Steps, Critical
<1>2. GenerationFollows'
  BY DEF Swap, GenerationFollows, SharedOK, CheckersOK, Critical
<1>3. CheckerKnows'
  BY DEF Swap, GenerationFollows, CheckerKnows, SharedOK, CheckersOK, Critical
<1>4. FaultsPaidFor'
  BY DEF Swap, GenerationFollows, CheckerKnows, FaultsPaidFor, Answers, DatabaseOK, SharedOK,
         CheckersOK, Critical
<1>5. ClientsHeard'
  BY DogChecks DEF Swap, CheckerKnows, ClientsHeard, Answers, SharedOK, CheckersOK, ClientsOK
<1> QED
  BY <1>1, <1>2, <1>3, <1>4, <1>5

\* The generation catches up.
LEMMA BumpKeeps ==
  ASSUME Inv, NEW k \in Checkers, Bump(k)
  PROVE  Inv'
<1> USE WatchdogAssumption DEF Inv, TypeOK, CheckOnly, database, shared, Move
<1>1. TypeOK'
  BY DEF Bump, DatabaseOK, SharedOK, CheckersOK, ClientsOK, Steps, Critical
<1>2. GenerationFollows'
  BY DEF Bump, GenerationFollows, SharedOK, CheckersOK, Critical
<1>3. CheckerKnows'
  BY DEF Bump, GenerationFollows, CheckerKnows, SharedOK, CheckersOK, Critical
<1>4. FaultsPaidFor'
  BY DEF Bump, GenerationFollows, CheckerKnows, FaultsPaidFor, Answers, DatabaseOK, SharedOK,
         CheckersOK, Critical
<1>5. ClientsHeard'
  BY DogChecks DEF Bump, CheckerKnows, ClientsHeard, Answers, SharedOK, CheckersOK, ClientsOK
<1> QED
  BY <1>1, <1>2, <1>3, <1>4, <1>5

\* The reconnection is counted and the mutex let go.
LEMMA CountKeeps ==
  ASSUME Inv, NEW k \in Checkers, Count(k)
  PROVE  Inv'
<1> USE WatchdogAssumption DEF Inv, TypeOK, CheckOnly, database, shared, Move
<1>1. TypeOK'
  BY DEF Count, DatabaseOK, SharedOK, CheckersOK, ClientsOK, Steps, Critical
<1>2. GenerationFollows'
  BY DEF Count, GenerationFollows, SharedOK, CheckersOK, Critical
<1>3. CheckerKnows'
  BY DEF Count, GenerationFollows, CheckerKnows, SharedOK, CheckersOK, Critical
<1>4. FaultsPaidFor'
  BY DEF Count, GenerationFollows, CheckerKnows, FaultsPaidFor, Answers, DatabaseOK, SharedOK,
         CheckersOK, Critical
<1>5. ClientsHeard'
  BY DogChecks DEF Count, CheckerKnows, ClientsHeard, Answers, SharedOK, CheckersOK, ClientsOK
<1> QED
  BY <1>1, <1>2, <1>3, <1>4, <1>5

\* The second ping is answered, or not.
LEMMA RepingKeeps ==
  ASSUME Inv, NEW k \in Checkers, Reping(k)
  PROVE  Inv'
<1> USE WatchdogAssumption DEF Inv, TypeOK, CheckOnly, database, shared, Move
<1>1. TypeOK'
  <2>1. DatabaseOK' /\ ClientsOK'
    BY DEF Reping, DatabaseOK, ClientsOK
  <2>2. SharedOK'
    BY DEF Reping, SharedOK, CheckersOK
  <2>3. CheckersOK'
    <3>1. \/ chk' = [chk EXCEPT ![k].at = "record", ![k].ok = TRUE]
          \/ chk' = [chk EXCEPT ![k].at = "record", ![k].ok = FALSE]
      BY DEF Reping, Answers
    <3>2. chk' \in [Checkers -> [at : Steps \cup Critical, seen : Nat, over : Nat,
                               ok : BOOLEAN]]
      BY <3>1 DEF CheckersOK, Steps
    <3>3. \A j \in Checkers : chk'[j].at \in Critical <=> lock' = j
      BY DEF Reping, CheckersOK, Critical
    <3> QED
      BY <3>2, <3>3 DEF CheckersOK
  <2> QED
    BY <2>1, <2>2, <2>3
<1>2. GenerationFollows'
  BY DEF Reping, GenerationFollows, SharedOK, CheckersOK, Critical
<1>3. CheckerKnows'
  BY DEF Reping, GenerationFollows, CheckerKnows, SharedOK, CheckersOK, Critical
<1>4. FaultsPaidFor'
  BY DEF Reping, GenerationFollows, CheckerKnows, FaultsPaidFor, Answers, DatabaseOK, SharedOK,
         CheckersOK, Critical
<1>5. ClientsHeard'
  BY DogChecks DEF Reping, CheckerKnows, ClientsHeard, Answers, SharedOK, CheckersOK, ClientsOK
<1> QED
  BY <1>1, <1>2, <1>3, <1>4, <1>5

\* The result is recorded; the watchdog goes to sleep.
LEMMA RecordKeeps ==
  ASSUME Inv, NEW k \in Checkers, Record(k)
  PROVE  Inv'
<1> USE WatchdogAssumption DEF Inv, TypeOK, CheckOnly, database, shared, Move
<1>1. TypeOK'
  <2>1. DatabaseOK' /\ ClientsOK'
    BY DEF Record, DatabaseOK, ClientsOK
  <2>2. SharedOK'
    BY DEF Record, SharedOK, CheckersOK
  <2>3. CheckersOK'
    BY DEF Record, SharedOK, CheckersOK, Steps, Critical
  <2> QED
    BY <2>1, <2>2, <2>3
<1>2. GenerationFollows'
  BY DEF Record, GenerationFollows, SharedOK, CheckersOK, Critical
<1>3. CheckerKnows'
  BY DEF Record, GenerationFollows, CheckerKnows, SharedOK, CheckersOK, Critical
<1>4. FaultsPaidFor'
  BY DEF Record, GenerationFollows, CheckerKnows, FaultsPaidFor, Answers, DatabaseOK, SharedOK,
         CheckersOK, Critical
<1>5. ClientsHeard'
  BY DogChecks DEF Record, CheckerKnows, ClientsHeard, Answers, SharedOK, CheckersOK, ClientsOK
<1> QED
  BY <1>1, <1>2, <1>3, <1>4, <1>5

\* The watchdog has slept enough.
LEMMA WakeKeeps ==
  ASSUME Inv, Wake
  PROVE  Inv'
<1> USE DogChecks DEF Inv, TypeOK, CheckOnly, database, shared, Move, Wake
<1>1. TypeOK'
  <2>1. DatabaseOK' /\ ClientsOK' /\ SharedOK'
    BY DEF DatabaseOK, ClientsOK, SharedOK
  <2>2. CheckersOK'
    BY DEF CheckersOK, Steps, Critical
  <2> QED
    BY <2>1, <2>2
<1>2. GenerationFollows' /\ CheckerKnows'
  BY DEF GenerationFollows, CheckerKnows, SharedOK, CheckersOK
<1>3. FaultsPaidFor'
  BY DEF FaultsPaidFor, Answers, CheckersOK, SharedOK
<1>4. ClientsHeard'
  BY DEF ClientsHeard, CheckersOK, SharedOK
<1> QED
  BY <1>1, <1>2, <1>3, <1>4

\* Every step keeps the invariant.
LEMMA NextInv == Inv /\ [Next]_vars => Inv'
<1> SUFFICES ASSUME Inv, [Next]_vars PROVE Inv'
  OBVIOUS
<1>1. CASE \/ \E lost \in SUBSET Opened : GoDown(lost) \/ LoseSessions(lost)
           \/ ComeUp
  BY <1>1, DatabaseKeeps
<1>2. CASE \E c \in Clients : Request(c) \/ Query(c) \/ Kick(c)
  BY <1>2, ClientKeeps
<1>3. CASE \E k \in Checkers : Begin(k) \/ InCheck(k) \/ PingTimesOut(k)
  BY <1>3, BeginKeeps, TakeKeeps, PingKeeps, PingTimesOutKeeps, LockKeeps, OpenSucceedsKeeps, OpenFailsKeeps,
     SwapKeeps, BumpKeeps, CountKeeps, RepingKeeps, RecordKeeps DEF InCheck
<1>4. CASE Wake
  BY <1>4, WakeKeeps
<1>5. CASE UNCHANGED vars
  BY <1>5 DEF vars, database, shared, Inv, TypeOK, DatabaseOK, SharedOK, CheckersOK,
              ClientsOK, GenerationFollows, CheckerKnows, FaultsPaidFor, ClientsHeard, Answers
<1> QED
  BY <1>1, <1>2, <1>3, <1>4, <1>5 DEF Next

(***************************************************************************)
(* Theorems                                                                *)
(***************************************************************************)
LEMMA SpecInv == Spec => []Inv
BY InitInv, NextInv, PTL DEF Spec

\* The types, and the mutex: one checker at a time opens a connection.
THEOREM WatchdogTypeOK == Spec => []TypeOK
BY SpecInv, PTL DEF Inv

\* One reconnection for one fault, whatever the number of checkers and kicks.
THEOREM ReconnectsOnce == Spec => []OneReconnectPerFault
<1>1. Inv => OneReconnectPerFault
  BY DEF Inv, FaultsPaidFor, OneReconnectPerFault
<1> QED
  BY <1>1, SpecInv, PTL

\* A failure met on the shared connection is never slept over.
THEOREM FailuresNoticed == Spec => []FailureNoticed
<1>1. Inv => FailureNoticed
  BY DEF Inv, ClientsHeard, FailureNoticed
<1> QED
  BY <1>1, SpecInv, PTL

\* A new connection only ever takes the place of one that a ping failed on.
THEOREM ReplacesFailed == Spec => ReplacesOnlyFailed
<1> DEFINE Replaces == conn' # conn =>
              \E k \in Checkers : lock = k /\ chk[k].over = conn /\ ~chk[k].ok
<1>1. ASSUME Inv, Next PROVE Replaces
  <2>1. CASE \E k \in Checkers : Swap(k)
    <3>1. PICK k \in Checkers : Swap(k)
      BY <2>1
    <3>2. lock = k /\ chk[k].over = conn /\ ~chk[k].ok
      BY <1>1, <3>1 DEF Swap, Inv, TypeOK, CheckersOK, CheckerKnows, Critical
    <3> QED
      BY <3>2
  <2>2. CASE ~\E k \in Checkers : Swap(k)
    <3>1. conn' = conn
      BY <1>1, <2>2 DEF Next, GoDown, LoseSessions, ComeUp, Request, Query, Kick, Begin, InCheck,
        Take, Ping, PingTimesOut, Lock, OpenSucceeds, OpenFails, Bump, Count, Reping, Record, Wake, Move,
        CheckOnly, database, shared
    <3> QED
      BY <3>1
  <2> QED
    BY <2>1, <2>2
<1>2. Inv /\ [Next]_vars => [Replaces]_vars
  BY <1>1
<1> QED
  BY <1>2, SpecInv, PTL DEF Spec, ReplacesOnlyFailed
=============================================================================
