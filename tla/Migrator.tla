------------------------------ MODULE Migrator -----------------------------
(***************************************************************************)
(* The start of a server (main.rs) up to the point where it serves: the    *)
(* migrations it finds unapplied are applied in the order of their names,  *)
(* each in one call of several statements and recorded in a later call     *)
(* (db.rs, run_pending_migrations).  Any error ends the start, and the     *)
(* platform starts the server again.                                       *)
(*                                                                         *)
(* Two servers may start at once, as when one takes over from another, and *)
(* a start may end between any two steps.  Statements are not undone: a    *)
(* call that ends early leaves what it has done.                           *)
(***************************************************************************)
EXTENDS Integers, FiniteSets, FiniteSetsExt

CONSTANTS
  Servers,
  Last,         \* migrations are 1..Last, in the order of their names
  Statements,   \* how many statements each has
  MaxFaults     \* how many starts end early and reads fail

ASSUME MigratorAssumption == Last \in Nat \ {0} /\ Statements \in Nat \ {0}

VARIABLES
  recorded,     \* the names in _migrations
  done,         \* migration -> how many of its statements have taken effect
  at,           \* server -> where its start is
  applied,      \* server -> the names it goes by, and those it has added
  ran,          \* server -> statements of the migration it is applying
  alone,        \* server -> no other has been up since it read the names (history)
  faults

vars == <<recorded, done, at, applied, ran, alone, faults>>

Migrations == 1..Last

Init ==
  /\ recorded = {} /\ faults = 0
  /\ done = [m \in Migrations |-> 0]
  /\ at = [s \in Servers |-> "down"]
  /\ applied = [s \in Servers |-> {}]
  /\ ran = [s \in Servers |-> 0]
  /\ alone = [s \in Servers |-> FALSE]

Pending(s) == Migrations \ applied[s]

\* Mutant: the files are taken as the directory lists them.
CurrentUnsorted(s) == CHOOSE m \in Pending(s) : \A k \in Pending(s) : k <= m

\* The first file in the order of names that is not applied.
Current(s) == Min(Pending(s))

(***************************************************************************)
(* Steps of a start                                                        *)
(***************************************************************************)
Start(s) ==
  /\ at[s] = "down"
  /\ at' = [at EXCEPT ![s] = "read"]
  /\ alone' = [t \in Servers |-> t = s /\ \A d \in Servers \ {s} : at[d] = "down"]
  /\ UNCHANGED <<recorded, done, applied, ran, faults>>

\* applied_migrations: a read that fails counts as none applied.
Read(s) ==
  /\ at[s] = "read"
  /\ \/ /\ applied' = [applied EXCEPT ![s] = recorded]
        /\ UNCHANGED faults
     \/ /\ faults < MaxFaults /\ faults' = faults + 1
        /\ applied' = [applied EXCEPT ![s] = {}]
  /\ at' = [at EXCEPT ![s] = "apply"]
  /\ ran' = [ran EXCEPT ![s] = 0]
  /\ UNCHANGED <<recorded, done, alone>>

\* Mutant: the name is written before the statements are run.
ApplyRecorded(s) ==
  LET m == Current(s) IN
  /\ at[s] = "apply" /\ Pending(s) # {}
  /\ ran' = [ran EXCEPT ![s] = @ + 1]
  /\ done' = [done EXCEPT ![m] = IF @ > ran[s] THEN @ ELSE ran[s] + 1]
  /\ at' = IF ran[s] + 1 = Statements THEN [at EXCEPT ![s] = "record"] ELSE at
  /\ recorded' = recorded \cup {m}
  /\ UNCHANGED <<applied, alone, faults>>

\* The next statement of the current migration.  All can be run again.
Apply(s) ==
  LET m == Current(s) IN
  /\ at[s] = "apply" /\ Pending(s) # {}
  /\ ran' = [ran EXCEPT ![s] = @ + 1]
  /\ done' = [done EXCEPT ![m] = IF @ > ran[s] THEN @ ELSE ran[s] + 1]
  /\ at' = IF ran[s] + 1 = Statements THEN [at EXCEPT ![s] = "record"] ELSE at
  /\ UNCHANGED <<recorded, applied, alone, faults>>

Recorded(s) ==
  /\ recorded' = recorded \cup {Current(s)}
  /\ applied' = [applied EXCEPT ![s] = @ \cup {Current(s)}]
  /\ ran' = [ran EXCEPT ![s] = 0]
  /\ at' = [at EXCEPT ![s] = "apply"]

\* Mutant: a name that is there is tried again until it is not.
RecordRetries(s) ==
  /\ at[s] = "record" /\ Current(s) \notin recorded
  /\ Recorded(s)
  /\ UNCHANGED <<done, alone, faults>>

\* Mutant: a name that is there already is no error.
RecordAnyway(s) ==
  /\ at[s] = "record"
  /\ Recorded(s)
  /\ UNCHANGED <<done, alone, faults>>

\* _migrations has one row a name: a second CREATE fails, and the start with it.
Record(s) ==
  /\ at[s] = "record"
  /\ \/ Current(s) \notin recorded /\ Recorded(s)
     \/ /\ Current(s) \in recorded
        /\ at' = [at EXCEPT ![s] = "down"]
        /\ UNCHANGED <<recorded, applied, ran>>
  /\ UNCHANGED <<done, alone, faults>>

Serve(s) ==
  /\ at[s] = "apply" /\ Pending(s) = {}
  /\ at' = [at EXCEPT ![s] = "serving"]
  /\ UNCHANGED <<recorded, done, applied, ran, alone, faults>>

\* The process ends, or a call fails, the CREATE perhaps after it took effect.
Fail(s) ==
  /\ at[s] \in {"read", "apply", "record", "serving"} /\ faults < MaxFaults
  /\ faults' = faults + 1
  /\ at' = [at EXCEPT ![s] = "down"]
  /\ \/ UNCHANGED recorded
     \/ at[s] = "record" /\ recorded' = recorded \cup {Current(s)}
  /\ UNCHANGED <<done, applied, ran, alone>>

Advance(s) == Start(s) \/ Read(s) \/ Apply(s) \/ Record(s) \/ Serve(s)

Next == \E s \in Servers : Advance(s) \/ Fail(s)

\* A server that is down is started again, and a start goes on.
Spec == Init /\ [][Next]_vars /\ \A s \in Servers : WF_vars(Advance(s))

(***************************************************************************)
(* Properties                                                              *)
(***************************************************************************)
TypeOK ==
  /\ recorded \subseteq Migrations
  /\ done \in [Migrations -> 0..Statements]
  /\ at \in [Servers -> {"down", "read", "apply", "record", "serving"}]
  /\ applied \in [Servers -> SUBSET Migrations]
  /\ ran \in [Servers -> 0..Statements]
  /\ alone \in [Servers -> BOOLEAN]

\* A migration relies on those before it: none of its statements is run, by any
\* server, on a database where an earlier one is not complete.
InOrder ==
  \A m \in Migrations :
    done[m] > 0 => \A k \in 1..(m - 1) : done[k] = Statements

\* A name is in _migrations only once the migration has taken effect in full,
\* and a server serves only a database with every migration, whatever starts
\* have failed before it and whoever else was starting.
RecordedIsDone ==
  /\ \A m \in recorded : done[m] = Statements
  /\ \A s \in Servers : at[s] = "serving" => recorded = Migrations

\* What a migration does once is not done again over what was changed since:
\* without a second server, the only recorded migration to be run again is the
\* first, which defines what it defines a second time, after a failed read.
NotAgain ==
  [][\A s \in Servers :
       alone[s] /\ at[s] = "apply" /\ ran'[s] = ran[s] + 1
         => Current(s) = 1 \/ Current(s) \notin recorded]_vars

\* However starts collide and fail, every server comes to serve.
AllServe == \A s \in Servers : <>[](at[s] = "serving")
=============================================================================
