--------------------------- MODULE MigratorProofs --------------------------
(***************************************************************************)
(* Proofs about Migrator: migrations take effect in order, completely and  *)
(* before a server serves, for any number of servers, migrations,          *)
(* statements and failures.                                                *)
(***************************************************************************)
EXTENDS Migrator, TLAPS

\* What is recorded, and what a server goes by, are the first so many.
Prefixes ==
  /\ \E n \in 0..Last : recorded = 1..n
  /\ \A s \in Servers : applied[s] \subseteq recorded /\ \E k \in 0..Last : applied[s] = 1..k

\* A server has run what it counts, and counts all before it records.
Counted ==
  \A s \in Servers :
    /\ at[s] = "apply" => ran[s] < Statements
    /\ at[s] = "record" => Pending(s) # {} /\ ran[s] = Statements
    /\ at[s] \in {"apply", "record"} /\ Pending(s) # {} => ran[s] <= done[Current(s)]

\* A server that has been alone goes by all that is recorded, or by nothing.
Alone ==
  \A s \in Servers : alone[s] =>
    /\ \A d \in Servers \ {s} : at[d] = "down"
    /\ at[s] \in {"apply", "record"} => applied[s] = recorded \/ applied[s] = {}

Inv == TypeOK /\ Prefixes /\ Counted /\ Alone /\ InOrder /\ RecordedIsDone

\* The first migration that is not among the first k.
LEMMA CurrentIsNext ==
  ASSUME NEW s \in Servers, NEW k \in 0..Last, applied[s] = 1..k
  PROVE  /\ Pending(s) = (k + 1)..Last
         /\ Pending(s) # {} => k < Last /\ Current(s) = k + 1
<1>1. Pending(s) = (k + 1)..Last
  BY MigratorAssumption DEF Pending, Migrations
<1>2. ASSUME Pending(s) # {} PROVE k < Last /\ Current(s) = k + 1
  <2>1. k < Last /\ k + 1 \in Pending(s)
    BY <1>1, <1>2, MigratorAssumption
  <2>2. \A x \in Pending(s) : x \in Int /\ k + 1 <= x
    BY <1>1, MigratorAssumption
  <2>3. \A x \in Pending(s) : (\A y \in Pending(s) : x <= y) => x = k + 1
    BY <2>1, <2>2
  <2>4. Current(s) = CHOOSE x \in Pending(s) : \A y \in Pending(s) : x <= y
    BY DEF Current, Min
  <2> QED
    BY <2>1, <2>2, <2>3, <2>4
<1> QED
  BY <1>1, <1>2

\* The same for the next state.
LEMMA CurrentIsNextNext ==
  ASSUME NEW s \in Servers, NEW k \in 0..Last, applied'[s] = 1..k
  PROVE  /\ Pending(s)' = (k + 1)..Last
         /\ Pending(s)' # {} => k < Last /\ Current(s)' = k + 1
<1>1. Pending(s)' = (k + 1)..Last
  BY MigratorAssumption DEF Pending, Migrations
<1>2. ASSUME Pending(s)' # {} PROVE k < Last /\ Current(s)' = k + 1
  <2>1. k < Last /\ k + 1 \in Pending(s)'
    BY <1>1, <1>2, MigratorAssumption
  <2>2. \A x \in Pending(s)' : x \in Int /\ k + 1 <= x
    BY <1>1, MigratorAssumption
  <2>3. \A x \in Pending(s)' : (\A y \in Pending(s)' : x <= y) => x = k + 1
    BY <2>1, <2>2
  <2>4. Current(s)' = CHOOSE x \in Pending(s)' : \A y \in Pending(s)' : x <= y
    BY DEF Current, Min
  <2> QED
    BY <2>1, <2>2, <2>3, <2>4
<1> QED
  BY <1>1, <1>2

\* Nothing has run at the start.
LEMMA InitInv == Init => Inv
<1> SUFFICES ASSUME Init PROVE Inv
  OBVIOUS
<1>1. 1..0 = {} /\ 0 \in 0..Last
  BY MigratorAssumption
<1> QED
  BY <1>1, MigratorAssumption
     DEF Init, Inv, TypeOK, Prefixes, Counted, Alone, InOrder, RecordedIsDone

\* A start, and the reading of the names, well or badly.
LEMMA StartKeeps ==
  ASSUME Inv, NEW s \in Servers, Start(s)
  PROVE  Inv'
<1> USE DEF Inv, Start
<1>1. TypeOK'
  BY DEF TypeOK, Migrations
<1>2. Prefixes'
  BY DEF Prefixes
<1>3. Counted'
  BY DEF Counted, TypeOK, Pending, Current, Migrations
<1>4. Alone'
  BY DEF Alone, TypeOK
<1>5. InOrder' /\ RecordedIsDone'
  BY DEF InOrder, RecordedIsDone, TypeOK, Migrations
<1> QED
  BY <1>1, <1>2, <1>3, <1>4, <1>5

LEMMA ReadKeeps ==
  ASSUME Inv, NEW s \in Servers, Read(s)
  PROVE  Inv'
<1> USE DEF Inv, Read
<1>0. 1..0 = {} /\ 0 \in 0..Last
  BY MigratorAssumption
<1>1. TypeOK'
  <2>1. applied' \in [Servers -> SUBSET Migrations]
    BY DEF TypeOK
  <2>2. ran' \in [Servers -> 0..Statements]
    BY MigratorAssumption DEF TypeOK
  <2>3. at' \in [Servers -> {"down", "read", "apply", "record", "serving"}]
    BY DEF TypeOK
  <2> QED
    BY <2>1, <2>2, <2>3 DEF TypeOK, Migrations
<1>2. Prefixes'
  <2>1. /\ applied'[s] = recorded \/ applied'[s] = {}
        /\ \A t \in Servers \ {s} : applied'[t] = applied[t]
        /\ recorded' = recorded
    BY DEF TypeOK
  <2>2. \E k \in 0..Last : applied'[s] = 1..k
    BY <1>0, <2>1 DEF Prefixes
  <2> QED
    BY <2>1, <2>2 DEF Prefixes
<1>3. Counted'
  <2> SUFFICES ASSUME NEW t \in Servers PROVE Counted!(t)'
    BY DEF Counted
  <2>1. CASE t = s
    <3>1. PICK k \in 0..Last : applied'[s] = 1..k
      BY <1>2 DEF Prefixes
    <3>2. Pending(s)' # {} => Current(s)' \in Migrations
      BY <3>1, CurrentIsNextNext, MigratorAssumption DEF Migrations
    <3>3. at'[s] = "apply" /\ ran'[s] = 0
      BY DEF TypeOK
    <3> QED
      BY <1>1, <2>1, <3>2, <3>3, MigratorAssumption DEF TypeOK
  <2>2. CASE t # s
    BY <2>2 DEF Counted, TypeOK, Pending, Current
  <2> QED
    BY <2>1, <2>2
<1>4. Alone'
  BY DEF Alone, TypeOK
<1>5. InOrder' /\ RecordedIsDone'
  BY DEF InOrder, RecordedIsDone, TypeOK, Migrations
<1> QED
  BY <1>1, <1>2, <1>3, <1>4, <1>5

\* A statement is run only where all earlier migrations are complete.
LEMMA ApplyKeeps ==
  ASSUME Inv, NEW s \in Servers, Apply(s)
  PROVE  Inv'
<1> DEFINE m == Current(s)
<1>1. PICK k \in 0..Last : applied[s] = 1..k
  BY DEF Inv, Prefixes
<1>2. k < Last /\ m = k + 1 /\ m \in Migrations
  BY <1>1, CurrentIsNext, MigratorAssumption DEF Apply, Migrations
<1>3. \A j \in 1..(m - 1) : done[j] = Statements
  BY <1>1, <1>2 DEF Inv, Prefixes, RecordedIsDone
<1>4. /\ at[s] = "apply" /\ Pending(s) # {}
      /\ ran[s] \in 0..Statements /\ ran[s] < Statements /\ ran'[s] = ran[s] + 1
      /\ done[m] \in 0..Statements
      /\ done'[m] = IF done[m] > ran[s] THEN done[m] ELSE ran[s] + 1
  BY <1>2 DEF Inv, Apply, TypeOK, Counted
<1> HIDE DEF m
<1>5. /\ \A n \in Migrations \ {m} : done'[n] = done[n]
      /\ done' \in [Migrations -> 0..Statements]
  BY <1>2, <1>4, MigratorAssumption DEF Inv, Apply, TypeOK, m
<1>6. \A n \in Migrations : done'[n] >= done[n] /\ done'[n] \in 0..Statements /\ done[n] \in 0..Statements
  BY <1>4, <1>5, MigratorAssumption DEF Inv, TypeOK
<1>7. \A n \in Migrations : done[n] = Statements => done'[n] = Statements
  BY <1>6, MigratorAssumption
<1>8. /\ \A t \in Servers \ {s} : at'[t] = at[t] /\ ran'[t] = ran[t]
      /\ UNCHANGED <<recorded, applied, alone, faults>>
      /\ at'[s] = IF ran[s] + 1 = Statements THEN "record" ELSE "apply"
  BY <1>4 DEF Inv, Apply, TypeOK
<1>9. TypeOK'
  BY <1>4, <1>5, MigratorAssumption DEF Inv, TypeOK, Apply, Migrations
<1>10. Prefixes'
  BY <1>8 DEF Inv, Prefixes
<1>11. Counted'
  <2> SUFFICES ASSUME NEW t \in Servers PROVE Counted!(t)'
    BY DEF Counted
  <2>1. Pending(t)' = Pending(t) /\ Current(t)' = Current(t)
    BY <1>8 DEF Pending, Current
  <2>2. CASE t = s
    BY <1>4, <1>8, <2>1, <2>2, MigratorAssumption DEF m
  <2>3. CASE t # s
    <3>1. Pending(t) # {} => Current(t) \in Migrations
      <4>1. PICK j \in 0..Last : applied[t] = 1..j
        BY DEF Inv, Prefixes
      <4> QED
        BY <4>1, CurrentIsNext, MigratorAssumption DEF Migrations
    <3>2. ran[t] \in 0..Statements
      BY DEF Inv, TypeOK
    <3> QED
      BY <1>6, <1>8, <2>1, <2>3, <3>1, <3>2, MigratorAssumption DEF Inv, Counted
  <2> QED
    BY <2>2, <2>3
<1>12. Alone'
  BY <1>4, <1>8 DEF Inv, Alone
<1>13. InOrder'
  <2> SUFFICES ASSUME NEW n \in Migrations, done'[n] > 0, NEW j \in 1..(n - 1)
               PROVE  done'[j] = Statements
    BY DEF InOrder
  <2>1. j \in Migrations
    BY MigratorAssumption DEF Migrations
  <2>2. CASE n = m
    BY <1>3, <1>7, <2>1, <2>2
  <2>3. CASE n # m
    BY <1>5, <1>7, <2>1, <2>3 DEF Inv, InOrder
  <2> QED
    BY <2>2, <2>3
<1>14. RecordedIsDone'
  <2>1. recorded \subseteq Migrations
    BY DEF Inv, TypeOK
  <2>2. \A t \in Servers : at'[t] = "serving" => at[t] = "serving"
    BY <1>8
  <2> QED
    BY <1>7, <1>8, <2>1, <2>2 DEF Inv, RecordedIsDone
<1> QED
  BY <1>9, <1>10, <1>11, <1>12, <1>13, <1>14 DEF Inv

----------------------------------------------------------------

\* A server that ends its start takes nothing back.
LEMMA StandsDown ==
  ASSUME Inv, NEW s \in Servers, at' = [at EXCEPT ![s] = "down"],
         UNCHANGED <<recorded, done, applied, ran, alone>>
  PROVE  Inv'
<1> USE DEF Inv
<1>1. TypeOK' /\ Prefixes' /\ InOrder'
  BY DEF TypeOK, Prefixes, InOrder, Migrations
<1>2. Counted'
  BY DEF Counted, TypeOK, Pending, Current, Migrations
<1>3. Alone'
  BY DEF Alone, TypeOK
<1>4. RecordedIsDone'
  BY DEF RecordedIsDone, TypeOK, Migrations
<1> QED
  BY <1>1, <1>2, <1>3, <1>4

\* A name is recorded by a server that has run all its statements, and is the
\* first not recorded.
LEMMA RecordKeeps ==
  ASSUME Inv, NEW s \in Servers, Record(s)
  PROVE  Inv'
<1>1. PICK k \in 0..Last : applied[s] = 1..k
  BY DEF Inv, Prefixes
<1>2. /\ at[s] = "record" /\ Pending(s) # {} /\ ran[s] = Statements
      /\ ran[s] <= done[Current(s)]
  BY DEF Inv, Record, Counted
<1>3. k < Last /\ Current(s) = k + 1 /\ k + 1 \in Migrations
  BY <1>1, <1>2, CurrentIsNext, MigratorAssumption DEF Migrations
<1>4. CASE Current(s) \in recorded
  <2>1. /\ at' = [at EXCEPT ![s] = "down"]
        /\ UNCHANGED <<recorded, done, applied, ran, alone>>
    BY <1>4 DEF Record
  <2> QED
    BY <2>1, StandsDown
<1>5. CASE Current(s) \notin recorded
  <2>1. PICK n \in 0..Last : recorded = 1..n
    BY DEF Inv, Prefixes
  <2>2. n = k
    <3>1. 1..k \subseteq 1..n /\ k + 1 \notin 1..n
      BY <1>1, <1>3, <1>5, <2>1 DEF Inv, Prefixes
    <3>2. k <= n
      BY <3>1
    <3> QED
      BY <3>1, <3>2
  <2>3. /\ recorded' = 1..(k + 1) /\ applied'[s] = 1..(k + 1) /\ k + 1 \in 0..Last
        /\ at'[s] = "apply" /\ ran'[s] = 0
        /\ \A t \in Servers \ {s} :
             at'[t] = at[t] /\ ran'[t] = ran[t] /\ applied'[t] = applied[t]
        /\ UNCHANGED <<done, alone, faults>>
    <3>1. (1..k) \cup {k + 1} = 1..(k + 1)
      BY <1>3
    <3>2. Recorded(s) /\ UNCHANGED <<done, alone, faults>>
      BY <1>5 DEF Record
    <3>3. recorded' = 1..(k + 1) /\ k + 1 \in 0..Last
      BY <1>3, <2>1, <2>2, <3>1, <3>2, MigratorAssumption DEF Recorded
    <3>4. /\ applied' = [applied EXCEPT ![s] = 1..(k + 1)]
          /\ ran' = [ran EXCEPT ![s] = 0]
          /\ at' = [at EXCEPT ![s] = "apply"]
      BY <1>1, <1>3, <3>1, <3>2 DEF Recorded
    <3> QED
      BY <3>2, <3>3, <3>4 DEF Inv, TypeOK
  <2>4. TypeOK'
    <3>1. Recorded(s) /\ UNCHANGED <<done, alone, faults>>
      BY <1>5 DEF Record
    <3> QED
      BY <1>3, <2>3, <3>1, MigratorAssumption DEF Recorded, Inv, TypeOK, Migrations
  <2>5. recorded \subseteq recorded'
    BY <2>1, <2>2, <2>3
  <2>6. Prefixes'
    BY <2>3, <2>5 DEF Inv, Prefixes
  <2>7. done[k + 1] = Statements
    BY <1>2, <1>3, MigratorAssumption DEF Inv, TypeOK
  <2>8. Counted'
    <3> SUFFICES ASSUME NEW t \in Servers PROVE Counted!(t)'
      BY DEF Counted
    <3>1. CASE t = s
      <4>1. Pending(s)' # {} => Current(s)' \in Migrations
        BY <2>3, CurrentIsNextNext, MigratorAssumption DEF Migrations
      <4>2. at'[t] = "apply" /\ ran'[t] = 0 /\ 0 < Statements
        BY <2>3, <3>1, MigratorAssumption
      <4>3. Pending(t)' # {} => done'[Current(t)'] \in 0..Statements
        BY <2>4, <3>1, <4>1 DEF TypeOK
      <4> QED
        BY <4>2, <4>3
    <3>2. CASE t # s
      <4>1. Pending(t)' = Pending(t) /\ Current(t)' = Current(t)
        BY <2>3, <3>2 DEF Pending, Current
      <4> QED
        BY <2>3, <3>2, <4>1 DEF Inv, Counted
    <3> QED
      BY <3>1, <3>2
  <2>9. Alone'
    <3> SUFFICES ASSUME NEW t \in Servers, alone'[t]
                 PROVE  /\ \A d \in Servers \ {t} : at'[d] = "down"
                        /\ at'[t] \in {"apply", "record"} =>
                             applied'[t] = recorded' \/ applied'[t] = {}
      BY DEF Alone
    <3>1. \A d \in Servers \ {t} : at[d] = "down"
      BY <2>3 DEF Inv, Alone
    <3>2. t = s
      BY <1>2, <3>1
    <3> QED
      BY <2>3, <3>1, <3>2
  <2>10. InOrder'
    BY <2>3 DEF Inv, InOrder
  <2>11. RecordedIsDone'
    <3>1. \A j \in recorded' : done[j] = Statements
      BY <2>1, <2>2, <2>3, <2>7 DEF Inv, RecordedIsDone
    <3>2. \A t \in Servers : at'[t] = "serving" => recorded' = Migrations
      BY <2>3, <2>4, <2>5 DEF Inv, RecordedIsDone, TypeOK
    <3> QED
      BY <2>3, <3>1, <3>2 DEF RecordedIsDone
  <2> QED
    BY <2>4, <2>6, <2>8, <2>9, <2>10, <2>11 DEF Inv
<1> QED
  BY <1>4, <1>5

\* A server that goes by every migration serves; each is recorded.
LEMMA ServeKeeps ==
  ASSUME Inv, NEW s \in Servers, Serve(s)
  PROVE  Inv'
<1> USE DEF Inv, Serve
<1>1. TypeOK' /\ Prefixes' /\ InOrder'
  BY DEF TypeOK, Prefixes, InOrder, Migrations
<1>2. Counted'
  BY DEF Counted, TypeOK, Pending, Current, Migrations
<1>3. Alone'
  BY DEF Alone, TypeOK
<1>4. recorded = Migrations
  BY DEF Pending, Prefixes, TypeOK
<1>5. RecordedIsDone'
  BY <1>4 DEF RecordedIsDone, TypeOK, Migrations
<1> QED
  BY <1>1, <1>2, <1>3, <1>5

\* A start that ends leaves what it has done, and perhaps the name it was
\* about to record.
LEMMA FailKeeps ==
  ASSUME Inv, NEW s \in Servers, Fail(s)
  PROVE  Inv'
<1>1. /\ at[s] # "down" /\ at'[s] = "down"
      /\ \A t \in Servers \ {s} : at'[t] = at[t]
      /\ UNCHANGED <<done, applied, ran, alone>>
  BY DEF Fail, Inv, TypeOK
<1>2. CASE UNCHANGED recorded
  BY <1>2, StandsDown DEF Fail
<1>3. CASE at[s] = "record" /\ recorded' = recorded \cup {Current(s)}
  <2>1. PICK k \in 0..Last : applied[s] = 1..k
    BY DEF Inv, Prefixes
  <2>2. Pending(s) # {} /\ ran[s] = Statements /\ ran[s] <= done[Current(s)]
    BY <1>3 DEF Inv, Counted
  <2>3. k < Last /\ Current(s) = k + 1 /\ k + 1 \in Migrations
    BY <2>1, <2>2, CurrentIsNext, MigratorAssumption DEF Migrations
  <2>4. done[k + 1] = Statements
    BY <2>2, <2>3, MigratorAssumption DEF Inv, TypeOK
  <2>5. PICK n \in 0..Last : recorded = 1..n
    BY DEF Inv, Prefixes
  <2>6. \E j \in 0..Last : recorded' = 1..j
    <3>1. k <= n
      BY <2>1, <2>5 DEF Inv, Prefixes
    <3>2. CASE k < n
      BY <1>3, <2>3, <2>5, <3>2
    <3>3. CASE k = n
      <4>1. k + 1 \in 0..Last /\ (1..k) \cup {k + 1} = 1..(k + 1)
        BY <2>3, MigratorAssumption
      <4> QED
        BY <1>3, <2>3, <2>5, <3>3, <4>1
    <3> QED
      BY <3>1, <3>2, <3>3
  <2>7. recorded \subseteq recorded' /\ recorded' \subseteq Migrations
    BY <1>3, <2>3 DEF Inv, TypeOK
  <2>8. TypeOK'
    BY <1>1, <2>7 DEF Fail, Inv, TypeOK, Migrations
  <2>9. Prefixes'
    BY <1>1, <2>6, <2>7 DEF Inv, Prefixes
  <2>10. Counted'
    <3> SUFFICES ASSUME NEW t \in Servers PROVE Counted!(t)'
      BY DEF Counted
    <3>1. Pending(t)' = Pending(t) /\ Current(t)' = Current(t)
      BY <1>1 DEF Pending, Current
    <3> QED
      BY <1>1, <3>1 DEF Inv, Counted
  <2>11. Alone'
    <3>1. \A t \in Servers \ {s} : ~alone[t]
      BY <1>1 DEF Inv, Alone
    <3> QED
      BY <1>1, <3>1 DEF Inv, Alone
  <2>12. InOrder'
    BY <1>1 DEF Inv, InOrder
  <2>13. RecordedIsDone'
    <3>1. \A j \in recorded' : done[j] = Statements
      BY <1>3, <2>3, <2>4 DEF Inv, RecordedIsDone
    <3>2. \A t \in Servers : at'[t] = "serving" => recorded' = Migrations
      BY <1>1, <2>7 DEF Inv, RecordedIsDone
    <3> QED
      BY <1>1, <3>1, <3>2 DEF RecordedIsDone
  <2> QED
    BY <2>8, <2>9, <2>10, <2>11, <2>12, <2>13 DEF Inv
<1> QED
  BY <1>2, <1>3 DEF Fail

\* Every step keeps the invariant.
LEMMA NextKeeps == Inv /\ [Next]_vars => Inv'
<1> SUFFICES ASSUME Inv, [Next]_vars PROVE Inv'
  OBVIOUS
<1>1. ASSUME NEW s \in Servers, Advance(s) PROVE Inv'
  BY <1>1, StartKeeps, ReadKeeps, ApplyKeeps, RecordKeeps, ServeKeeps DEF Advance
<1>2. ASSUME NEW s \in Servers, Fail(s) PROVE Inv'
  BY <1>2, FailKeeps
<1>3. CASE UNCHANGED vars
  BY <1>3 DEF vars, Inv, TypeOK, Prefixes, Counted, Alone, InOrder, RecordedIsDone,
     Pending, Current, Migrations
<1> QED
  BY <1>1, <1>2, <1>3 DEF Next

THEOREM InvHolds == Spec => []Inv
BY InitInv, NextKeeps, PTL DEF Spec

\* The variables keep their types: no migration is recorded that there is not,
\* no statement counted that a migration does not have.
THEOREM MigratorTypeOK == Spec => []TypeOK
<1>1. Inv => TypeOK
  BY DEF Inv
<1> QED
  BY <1>1, InvHolds, PTL

\* No statement of a migration is ever run before those of all earlier ones.
THEOREM MigrationsInOrder == Spec => []InOrder
<1>1. Inv => InOrder
  BY DEF Inv
<1> QED
  BY <1>1, InvHolds, PTL

\* Recorded means complete, and serving means all recorded.
THEOREM ServesComplete == Spec => []RecordedIsDone
<1>1. Inv => RecordedIsDone
  BY DEF Inv
<1> QED
  BY <1>1, InvHolds, PTL

\* A server that starts alone runs no recorded migration again but the first.
THEOREM RunsOnce == Spec => NotAgain
<1> DEFINE Once == \A s \in Servers :
      alone[s] /\ at[s] = "apply" /\ ran'[s] = ran[s] + 1
        => Current(s) = 1 \/ Current(s) \notin recorded
<1>1. Inv /\ [Next]_vars => [Once]_vars
  <2> SUFFICES ASSUME Inv, Next, NEW s \in Servers,
                      alone[s], at[s] = "apply", ran'[s] = ran[s] + 1
               PROVE  Current(s) = 1 \/ Current(s) \notin recorded
    OBVIOUS
  <2>1. ran[s] \in Nat /\ ran[s] + 1 # ran[s] /\ ran[s] + 1 # 0
    BY MigratorAssumption DEF Inv, TypeOK
  <2>2. Pending(s) # {}
    <3>1. PICK t \in Servers : Advance(t) \/ Fail(t)
      BY DEF Next
    <3>2. Apply(t)
      BY <2>1, <3>1 DEF Advance, Start, Read, Record, Recorded, Serve, Fail, Inv, TypeOK
    <3>3. t = s
      BY <2>1, <3>2 DEF Apply, Inv, TypeOK
    <3> QED
      BY <3>2, <3>3 DEF Apply
  <2>3. PICK k \in 0..Last : applied[s] = 1..k
    BY DEF Inv, Prefixes
  <2>4. k < Last /\ Current(s) = k + 1
    BY <2>2, <2>3, CurrentIsNext
  <2>5. applied[s] = recorded \/ applied[s] = {}
    BY DEF Inv, Alone
  <2>6. CASE applied[s] = recorded
    BY <2>3, <2>4, <2>6
  <2>7. CASE applied[s] = {}
    BY <2>3, <2>4, <2>7
  <2> QED
    BY <2>5, <2>6, <2>7
<1> QED
  BY <1>1, InvHolds, PTL DEF NotAgain, Spec
=============================================================================
