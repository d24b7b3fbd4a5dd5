------------------------------ MODULE Ingestion -----------------------------
(***************************************************************************)
(* From POST /v1/events to the registry: append (event_log.rs) checks for  *)
(* duplicates and creates a row of hub_event in three database calls, and  *)
(* the consumer (consumer.rs), one task of the server, polls the rows not  *)
(* yet settled, applies them one by one to hub_resource and marks them.    *)
(* Any database call may fail, before or after it took effect; the server  *)
(* may stop between any two steps and starts again with what the database  *)
(* holds.                                                                  *)
(*                                                                         *)
(* A key is compared as the code compares it, by itself: ADR-004:27 says   *)
(* (app_id, key), and two apps that choose one key are one sender here.    *)
(***************************************************************************)
EXTENDS Integers, Sequences, FiniteSets, SequencesExt

CONSTANTS
  Envelopes,   \* events a product may send: [id, key, res, op]
  EventIds, Keys, Resources,
  Posts,       \* slots of POST requests in flight, each used again
  Poison,      \* envelopes the registry refuses every time
  Faults,      \* which of the consumer's calls may fail: "apply", "mark", "record"
  MaxRetries,  \* failures after which an event is dead (5 in the code)
  Batch,       \* rows per poll (100 in the code)
  MaxClock,    \* bound on the clock
  MaxHeld,     \* bound on the CREATEs of timed-out requests still held
  MaxCrashes,  \* bound on the server's restarts
  None

ASSUME IngestionAssumption ==
  /\ Envelopes \subseteq
       [id : EventIds, key : Keys, res : Resources, op : {"put", "delete"}]
  /\ Poison \subseteq Envelopes
  /\ Faults \subseteq {"apply", "mark", "record"}
  /\ MaxRetries \in Nat \ {0}
  /\ Batch \in Nat \ {0}
  /\ MaxClock \in Nat /\ MaxHeld \in Nat /\ MaxCrashes \in Nat
  /\ IsFiniteSet(EventIds)
  /\ None \notin Envelopes
  /\ None \notin [env : Envelopes, received_at : 0..MaxClock,
                  retry_count : 0..MaxRetries, status : {"pending", "processed", "dead"}]

VARIABLES
  hub_event,     \* event id -> row of the log, or None
  hub_resource,  \* resource -> the envelope whose payload it shows, or None
  post,          \* POST slot -> what the handler knows and does next
  held,          \* CREATEs of timed-out requests the SDK still holds
  consumer,      \* the consumer's step and the rest of its batch
  clock,         \* now_ms() of the server
  crashes,       \* restarts so far
  applied,       \* history: event ids whose effect has reached hub_resource
  tries          \* history: event id -> applies of it that failed, to MaxRetries

vars ==
  <<hub_event, hub_resource, post, held, consumer, clock, crashes, applied, tries>>

Row ==
  [env : Envelopes, received_at : 0..MaxClock, retry_count : 0..MaxRetries,
   status : {"pending", "processed", "dead"}]

Post ==
  [at : {"idle", "has_key", "has_id", "create"}, env : Envelopes \cup {None},
   stamp : 0..MaxClock,
   answer : {"none", "accepted", "duplicate", "error", "timed_out"}]

NoPost == [at |-> "idle", env |-> None, stamp |-> 0, answer |-> "none"]
NoBatch == [at |-> "idle", batch |-> <<>>]

Init ==
  /\ hub_event = [i \in EventIds |-> None]
  /\ hub_resource = [x \in Resources |-> None]
  /\ post = [p \in Posts |-> NoPost]
  /\ held = {}
  /\ consumer = NoBatch
  /\ clock = 0
  /\ crashes = 0
  /\ applied = {}
  /\ tries = [i \in EventIds |-> 0]

(***************************************************************************)
(* The log                                                                 *)
(***************************************************************************)
Logged == {i \in EventIds : hub_event[i] # None}

HasIdempotency(k) == \E i \in Logged : hub_event[i].env.key = k

\* What the unique indexes of migration 003 refuse.
IndexRefuses(e) == e.id \in Logged \/ HasIdempotency(e.key)

\* Mutant: UPSERT where the code has CREATE.
CreateOrReplace(e, stamp) ==
  hub_event' = [hub_event EXCEPT ![e.id] =
    [env |-> e, received_at |-> stamp, retry_count |-> 0, status |-> "pending"]]

Create(e, stamp) ==
  /\ ~IndexRefuses(e)
  /\ hub_event' = [hub_event EXCEPT ![e.id] =
       [env |-> e, received_at |-> stamp, retry_count |-> 0, status |-> "pending"]]

(***************************************************************************)
(* POST /v1/events                                                         *)
(***************************************************************************)
PostVars == <<hub_resource, consumer, crashes, applied, tries>>

Send(p, e) ==
  /\ post[p].at = "idle"
  /\ post' = [post EXCEPT ![p] = [NoPost EXCEPT !.at = "has_key", !.env = e]]
  /\ UNCHANGED <<hub_event, held, clock, PostVars>>

Finish(p, answer) ==
  post' = [post EXCEPT ![p].at = "idle", ![p].stamp = 0, ![p].answer = answer]

CheckKey(p) ==
  /\ post[p].at = "has_key"
  /\ IF HasIdempotency(post[p].env.key)
     THEN Finish(p, "duplicate") ELSE post' = [post EXCEPT ![p].at = "has_id"]
  /\ UNCHANGED <<hub_event, held, clock, PostVars>>

\* received_at is read here, before the CREATE is sent.
CheckId(p) ==
  /\ post[p].at = "has_id"
  /\ IF post[p].env.id \in Logged
     THEN Finish(p, "duplicate")
     ELSE post' = [post EXCEPT ![p].at = "create", ![p].stamp = clock]
  /\ UNCHANGED <<hub_event, held, clock, PostVars>>

\* Mutant: the error of a refused CREATE is dropped.
CreateUnchecked(p) ==
  /\ post[p].at = "create"
  /\ \/ Create(post[p].env, post[p].stamp)
     \/ IndexRefuses(post[p].env) /\ UNCHANGED hub_event
  /\ Finish(p, "accepted")
  /\ UNCHANGED <<held, clock, PostVars>>

\* A CREATE the index refuses is an error (500), not a duplicate (409).
CreateRow(p) ==
  /\ post[p].at = "create"
  /\ \/ Create(post[p].env, post[p].stamp) /\ Finish(p, "accepted")
     \/ IndexRefuses(post[p].env) /\ Finish(p, "error") /\ UNCHANGED hub_event
  /\ UNCHANGED <<held, clock, PostVars>>

\* Whichever call it is at, the database may answer with an error or be out of
\* reach (500 or 503); a CREATE may have landed all the same.
PostFails(p) ==
  /\ post[p].at # "idle"
  /\ \/ UNCHANGED hub_event
     \/ post[p].at = "create" /\ Create(post[p].env, post[p].stamp)
  /\ Finish(p, "error")
  /\ UNCHANGED <<held, clock, PostVars>>

\* guard_db answers 504; a CREATE under way stays with the SDK.
Timeout(p) ==
  /\ post[p].at # "idle"
  /\ held' = held \cup IF post[p].at = "create"
                       THEN {[env |-> post[p].env, stamp |-> post[p].stamp]} ELSE {}
  /\ Cardinality(held') <= MaxHeld
  /\ Finish(p, "timed_out")
  /\ UNCHANGED <<hub_event, clock, PostVars>>

HeldLands(c) ==
  /\ held' = held \ {c}
  /\ Create(c.env, c.stamp)
  /\ UNCHANGED <<post, clock, PostVars>>

HeldIsLost(c) ==
  /\ held' = held \ {c}
  /\ UNCHANGED <<hub_event, post, clock, PostVars>>

(***************************************************************************)
(* The consumer                                                            *)
(***************************************************************************)
ConsumerVars == <<post, held, clock, crashes, tries>>

Unsettled == {i \in Logged : hub_event[i].status = "pending"}

\* Mutant: no ORDER BY.
AnyOrder(s) == TRUE

\* ORDER BY received_at; rows of the same millisecond come in any order.
InOrder(s) ==
  \A j, k \in 1..Len(s) :
    j < k => hub_event[s[j]].received_at <= hub_event[s[k]].received_at

Poll ==
  /\ consumer.at = "idle"
  /\ Unsettled # {}
  /\ \E s \in SetToSeqs(Unsettled) :
       /\ InOrder(s)
       /\ consumer' = [at |-> "apply",
                       batch |-> SubSeq(s, 1, IF Len(s) < Batch THEN Len(s) ELSE Batch)]
  /\ UNCHANGED <<hub_event, hub_resource, applied, ConsumerVars>>

\* The row the consumer is at.
Turn(i) == consumer.batch # <<>> /\ Head(consumer.batch) = i

NextInBatch ==
  consumer' = IF Len(consumer.batch) = 1 THEN NoBatch
              ELSE [at |-> "apply", batch |-> Tail(consumer.batch)]

\* apply_event: an UPSERT or a DELETE of the resource.
TakesEffect(i) ==
  LET e == hub_event[i].env IN
  /\ e \notin Poison
  /\ hub_resource' =
       [hub_resource EXCEPT ![e.res] = IF e.op = "put" THEN e ELSE None]
  /\ applied' = applied \cup {i}

Apply(i) ==
  /\ consumer.at = "apply" /\ Turn(i)
  /\ TakesEffect(i)
  /\ consumer' = [consumer EXCEPT !.at = "mark"]
  /\ UNCHANGED <<hub_event, ConsumerVars>>

\* Mutant: an event that fails to apply is skipped and marked.
ApplySkips(i) ==
  /\ consumer.at = "apply" /\ Turn(i)
  /\ hub_event[i].env \in Poison \/ "apply" \in Faults
  /\ consumer' = [consumer EXCEPT !.at = "mark"]
  /\ UNCHANGED <<hub_event, hub_resource, applied, ConsumerVars>>

\* The effect may have landed although the call failed.
ApplyFails(i) ==
  /\ consumer.at = "apply" /\ Turn(i)
  /\ \/ /\ hub_event[i].env \in Poison \/ "apply" \in Faults
        /\ UNCHANGED <<hub_resource, applied>>
     \/ "apply" \in Faults /\ TakesEffect(i)
  /\ tries' = [tries EXCEPT ![i] = IF @ < MaxRetries THEN @ + 1 ELSE @]
  /\ consumer' = [consumer EXCEPT !.at = "record"]
  /\ UNCHANGED <<hub_event, post, held, clock, crashes>>

MarkProcessed(i) ==
  /\ consumer.at = "mark" /\ Turn(i)
  /\ hub_event' = [hub_event EXCEPT ![i].status = "processed"]
  /\ NextInBatch
  /\ UNCHANGED <<hub_resource, applied, ConsumerVars>>

MarkFails(i) ==
  /\ consumer.at = "mark" /\ Turn(i)
  /\ "mark" \in Faults
  /\ \/ UNCHANGED hub_event
     \/ hub_event' = [hub_event EXCEPT ![i].status = "processed"]
  /\ NextInBatch
  /\ UNCHANGED <<hub_resource, applied, ConsumerVars>>

\* record_failure counts (up to MaxRetries, more makes no difference) and at
\* the limit sets failed_at, which takes the row out of every later poll.
Counted(i) ==
  LET n == hub_event[i].retry_count IN IF n < MaxRetries THEN n + 1 ELSE n

\* Mutant: dead one failure early.
FailureRecordedEarly(i) ==
  hub_event' = [hub_event EXCEPT
    ![i].retry_count = Counted(i),
    ![i].status = IF Counted(i) + 1 >= MaxRetries THEN "dead" ELSE @]

\* Mutant: failures are counted and nothing is ever given up.
FailureOnlyCounted(i) ==
  hub_event' = [hub_event EXCEPT ![i].retry_count = Counted(i)]

FailureRecorded(i) ==
  hub_event' = [hub_event EXCEPT
    ![i].retry_count = Counted(i),
    ![i].status = IF Counted(i) >= MaxRetries THEN "dead" ELSE @]

RecordFailure(i) ==
  /\ consumer.at = "record" /\ Turn(i)
  /\ FailureRecorded(i)
  /\ NextInBatch
  /\ UNCHANGED <<hub_resource, applied, ConsumerVars>>

\* Two statements, no transaction: none of them runs, or the first, or both.
RecordFails(i) ==
  /\ consumer.at = "record" /\ Turn(i)
  /\ "record" \in Faults
  /\ \/ UNCHANGED hub_event
     \/ hub_event' = [hub_event EXCEPT ![i].retry_count = Counted(i)]
     \/ FailureRecorded(i)
  /\ NextInBatch
  /\ UNCHANGED <<hub_resource, applied, ConsumerVars>>

(***************************************************************************)
(* Restart and time                                                        *)
(***************************************************************************)
\* Requests end without an answer, the batch and the held calls are gone.
Crash ==
  /\ crashes < MaxCrashes
  /\ crashes' = crashes + 1
  /\ post' = [p \in Posts |-> NoPost]
  /\ held' = {}
  /\ consumer' = NoBatch
  /\ UNCHANGED <<hub_event, hub_resource, clock, applied, tries>>

Tick ==
  /\ clock < MaxClock
  /\ clock' = clock + 1
  /\ UNCHANGED <<hub_event, held, post, PostVars>>

Next ==
  \/ \E p \in Posts, e \in Envelopes : Send(p, e)
  \/ \E p \in Posts : CheckKey(p) \/ CheckId(p) \/ CreateRow(p) \/ PostFails(p) \/ Timeout(p)
  \/ \E c \in held : HeldLands(c)
  \/ \E c \in held : HeldIsLost(c)
  \/ Poll
  \/ \E i \in EventIds : Apply(i) \/ ApplyFails(i) \/ MarkProcessed(i) \/ MarkFails(i)
                           \/ RecordFailure(i) \/ RecordFails(i)
  \/ Crash
  \/ Tick

Spec == Init /\ [][Next]_vars

\* The poll loop runs on, and a call that is tried again and again succeeds
\* now and then (the watchdog of db.rs reconnects).
FairSpec ==
  /\ Spec
  /\ WF_vars(Poll)
  /\ \A i \in EventIds :
       /\ WF_vars(Apply(i) \/ ApplyFails(i))
       /\ WF_vars(MarkProcessed(i) \/ MarkFails(i)) /\ SF_vars(MarkProcessed(i))
       /\ WF_vars(RecordFailure(i) \/ RecordFails(i)) /\ SF_vars(RecordFailure(i))

(***************************************************************************)
(* Properties                                                              *)
(***************************************************************************)
LogOK == hub_event \in [EventIds -> Row \cup {None}] /\ applied \subseteq EventIds

PostsOK ==
  /\ post \in [Posts -> Post]
  /\ held \subseteq [env : Envelopes, stamp : 0..MaxClock]
  /\ clock \in 0..MaxClock

ConsumerOK ==
  /\ consumer \in [at : {"idle", "apply", "mark", "record"}, batch : Seq(EventIds)]
  /\ consumer.at = "idle" <=> consumer.batch = <<>>

\* The types, and that the consumer is at a row while it has any left.
TypeOK ==
  /\ LogOK /\ PostsOK /\ ConsumerOK
  /\ hub_resource \in [Resources -> Envelopes \cup {None}]
  /\ crashes \in 0..MaxCrashes
  /\ tries \in [EventIds -> 0..MaxRetries]

\* The unique indexes: a row is found by its id, and by its key no other.
OneRowPerKey ==
  \A i, j \in Logged :
    /\ hub_event[i].env.id = i
    /\ hub_event[i].env.key = hub_event[j].env.key => i = j

\* What an answer says stays true while requests race, time out, fail and land
\* late: 202, this event is in the log; 409, an event with its id or its key is,
\* whichever app's.  An error or no answer promises neither.
AnswersHold ==
  \A p \in Posts :
    /\ post[p].answer = "accepted" =>
         post[p].env.id \in Logged /\ hub_event[post[p].env.id].env = post[p].env
    /\ post[p].answer = "duplicate" => IndexRefuses(post[p].env)

\* At least once: an event is settled as processed only after it took effect.
ProcessedTookEffect ==
  \A i \in Logged : hub_event[i].status = "processed" => i \in applied

\* An event is given up only after MaxRetries applies of it have failed, over
\* however many restarts, polls and half-done record_failures.
DeadHadTries ==
  \A i \in Logged : hub_event[i].status = "dead" => tries[i] = MaxRetries

\* A row of the log is never lost, replaced or settled twice.
RowsOnlySettle ==
  [][\A i \in Logged :
       /\ hub_event'[i] # None
       /\ hub_event'[i].env = hub_event[i].env
       /\ hub_event'[i].received_at = hub_event[i].received_at
       /\ hub_event[i].status # "pending" => hub_event'[i] = hub_event[i]]_vars

\* ADR-004:34, per-resource monotonic: an event does not take effect after a
\* later one of the same resource.
PerResourceOrder ==
  [][\A i \in Logged :
       (hub_resource' # hub_resource \/ applied' # applied) /\ Turn(i) =>
         \A j \in applied :
           hub_event[j].env.res = hub_event[i].env.res =>
             hub_event[j].received_at <= hub_event[i].received_at]_vars

\* What the registry shows of a resource is what the newest event that took
\* effect made of it: applying again after a restart takes nothing back.
ShowsLatest ==
  \A x \in Resources :
    LET took == {j \in applied : hub_event[j].env.res = x} IN
    \/ took = {} /\ hub_resource[x] = None
    \/ \E i \in took :
         /\ \A j \in took : hub_event[j].received_at <= hub_event[i].received_at
         /\ hub_resource[x] =
              IF hub_event[i].env.op = "put" THEN hub_event[i].env ELSE None

\* A poison event does not hold up the others for good: every event is
\* processed or dead in the end.
EveryEventSettles ==
  \A i \in EventIds : i \in Unsettled ~> i \notin Unsettled
=============================================================================
