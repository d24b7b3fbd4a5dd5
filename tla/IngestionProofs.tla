-------------------------- MODULE IngestionProofs --------------------------
(***************************************************************************)
(* Proofs about Ingestion, for any events, requests, faults and restarts:  *)
(* rows that are only ever settled, answers that hold, events settled only *)
(* after they took effect or failed MaxRetries times, and the order of     *)
(* their effects.                                                          *)
(***************************************************************************)
EXTENDS Ingestion, FiniteSetTheorems, SequenceTheorems, TLAPS

(***************************************************************************)
(* The inductive invariant                                                 *)
(***************************************************************************)
\* A request under way has an event and no answer; an answer is about one.
PostsKnow ==
  \A p \in Posts :
    /\ post[p].at # "idle" => post[p].env \in Envelopes /\ post[p].answer = "none"
    /\ post[p].answer # "none" => post[p].env \in Envelopes

\* The rows the consumer has still before it are unsettled, each is there once,
\* and the one it is about to mark has taken effect.
BatchPending ==
  /\ \A m \in 1..Len(consumer.batch) : consumer.batch[m] \in Unsettled
  /\ \A m, n \in 1..Len(consumer.batch) :
       m # n => consumer.batch[m] # consumer.batch[n]
  /\ consumer.at = "mark" => Head(consumer.batch) \in applied

\* A row is given up with a full count.
DeadIsFull ==
  \A i \in Logged : hub_event[i].status = "dead" => hub_event[i].retry_count = MaxRetries

LogInv ==
  /\ LogOK
  /\ OneRowPerKey /\ ProcessedTookEffect /\ DeadIsFull
  /\ applied \subseteq Logged

Inv == TypeOK /\ LogInv /\ PostsKnow /\ AnswersHold /\ BatchPending

(***************************************************************************)
(* What may happen to the log                                              *)
(***************************************************************************)
\* Rows stay, with their event and time; settled ones stay as they are.
Kept ==
  \A i \in Logged :
    /\ hub_event'[i] # None
    /\ hub_event'[i].env = hub_event[i].env
    /\ hub_event'[i].received_at = hub_event[i].received_at
    /\ hub_event[i].status # "pending" => hub_event'[i] = hub_event[i]

LEMMA RowOf ==
  ASSUME LogOK
  PROVE  /\ \A i \in Logged : hub_event[i] \in Row
         /\ None \notin Row
         /\ \A r \in Row : r.env \in Envelopes /\ r.env.id \in EventIds
BY IngestionAssumption DEF LogOK, Logged, Row

\* A new row: its id and key were free, and nothing else changes.
LEMMA CreateKeeps ==
  ASSUME LogInv, NEW e \in Envelopes, NEW stamp \in 0..MaxClock, Create(e, stamp),
         applied' = applied
  PROVE  /\ LogInv' /\ Kept
         /\ hub_event'[e.id].env = e /\ e.id \in Logged'
         /\ \A i \in Logged : hub_event'[i] = hub_event[i]
<1> DEFINE row == [env |-> e, received_at |-> stamp, retry_count |-> 0, status |-> "pending"]
<1>1. e.id \in EventIds /\ e.id \notin Logged /\ ~HasIdempotency(e.key)
  BY IngestionAssumption DEF Create, IndexRefuses
<1>2. row \in Row /\ row # None
  BY IngestionAssumption DEF Row
<1>3. hub_event' = [hub_event EXCEPT ![e.id] = row]
  BY DEF Create
<1>4. row.env = e /\ row.status = "pending"
  OBVIOUS
<1> HIDE DEF row
<1>5. LogOK'
  BY <1>1, <1>2, <1>3 DEF LogInv, LogOK
<1>6. Logged' = Logged \cup {e.id} /\ \A i \in Logged : hub_event'[i] = hub_event[i]
  BY <1>1, <1>2, <1>3 DEF LogInv, LogOK, Logged
<1>7. hub_event'[e.id] = row
  BY <1>1, <1>3 DEF LogInv, LogOK
<1>8. OneRowPerKey'
  BY <1>1, <1>4, <1>6, <1>7 DEF LogInv, OneRowPerKey, HasIdempotency
<1>9. ProcessedTookEffect' /\ DeadIsFull'
  BY <1>1, <1>4, <1>6, <1>7 DEF LogInv, ProcessedTookEffect, DeadIsFull
<1>10. Kept
  BY <1>6 DEF Kept, Logged
<1> QED
  BY <1>4, <1>5, <1>6, <1>7, <1>8, <1>9, <1>10 DEF LogInv

\* The consumer settles or counts an unsettled row.
LEMMA SettleKeeps ==
  ASSUME LogInv, NEW i \in Unsettled, NEW row \in Row, hub_event' = [hub_event EXCEPT ![i] = row],
         row.env = hub_event[i].env, row.received_at = hub_event[i].received_at,
         row.status = "processed" => i \in applied,
         row.status = "dead" => row.retry_count = MaxRetries,
         applied' = applied
  PROVE  /\ LogInv' /\ Kept
         /\ \A j \in Logged \ {i} : hub_event'[j] = hub_event[j]
<1>1. i \in EventIds /\ i \in Logged /\ row # None
  BY RowOf DEF Unsettled, Logged, LogInv
<1>2. LogOK' /\ Logged' = Logged /\ hub_event'[i] = row
      /\ \A j \in Logged \ {i} : hub_event'[j] = hub_event[j]
  BY <1>1 DEF LogInv, LogOK, Logged
<1>3. OneRowPerKey'
  BY <1>1, <1>2 DEF LogInv, OneRowPerKey
<1>4. ProcessedTookEffect' /\ DeadIsFull'
  BY <1>1, <1>2 DEF LogInv, ProcessedTookEffect, DeadIsFull
<1>5. Kept
  BY <1>1, <1>2 DEF Kept, Unsettled, Logged
<1> QED
  BY <1>2, <1>3, <1>4, <1>5 DEF LogInv

\* An answer given stays true as long as rows stay.
AnswerHolds(p) ==
  /\ post[p].answer = "accepted" =>
       post[p].env.id \in Logged /\ hub_event[post[p].env.id].env = post[p].env
  /\ post[p].answer = "duplicate" => IndexRefuses(post[p].env)

LEMMA AnswersStay ==
  ASSUME LogInv, LogOK', Kept, AnswersHold, NEW p \in Posts,
         post'[p].answer = post[p].answer, post'[p].env = post[p].env
  PROVE  AnswerHolds(p)'
<1>1. \A i \in Logged : i \in Logged' /\ hub_event'[i].env = hub_event[i].env
  BY DEF Kept, Logged
<1>2. IndexRefuses(post[p].env) => IndexRefuses(post[p].env)'
  BY <1>1 DEF IndexRefuses, HasIdempotency
<1> QED
  BY <1>1, <1>2 DEF AnswersHold, AnswerHolds

LEMMA Zero == 0 \in 0..MaxClock
BY IngestionAssumption

LEMMA NothingLogged ==
  ASSUME LogInv, hub_event' = hub_event
  PROVE  Kept
BY DEF Kept, Logged

\* What the consumer has before it does not change with new rows.
LEMMA BatchStays ==
  ASSUME BatchPending, ConsumerOK, consumer' = consumer, applied' = applied,
         \A i \in Logged : hub_event'[i] = hub_event[i] /\ i \in Logged'
  PROVE  BatchPending'
<1>1. \A i \in Unsettled : i \in Unsettled'
  BY DEF Unsettled
<1> QED
  BY <1>1 DEF BatchPending, ConsumerOK

(***************************************************************************)
(* The steps of requests                                                   *)
(***************************************************************************)
\* A step of one slot that leaves the log alone, with what it may answer.
LEMMA PostStep ==
  ASSUME Inv, NEW p \in Posts, NEW r \in Post, post' = [post EXCEPT ![p] = r],
         r.at # "idle" => r.env \in Envelopes /\ r.answer = "none",
         r.answer # "none" => r.env \in Envelopes,
         r.answer # "accepted", r.answer = "duplicate" => IndexRefuses(r.env),
         UNCHANGED <<hub_event, clock, PostVars>>,
         held' \subseteq [env : Envelopes, stamp : 0..MaxClock]
  PROVE  Inv' /\ Kept
<1> USE DEF Inv, TypeOK, PostVars
<1>1. LogInv' /\ ConsumerOK' /\ BatchPending'
  BY DEF LogInv, LogOK, OneRowPerKey, ProcessedTookEffect, DeadIsFull, Logged, ConsumerOK,
         BatchPending, Unsettled
<1>2. PostsOK'
  BY DEF PostsOK
<1>3. post'[p] = r /\ \A q \in Posts \ {p} : post'[q] = post[q]
  BY DEF PostsOK
<1>4. PostsKnow'
  BY <1>3 DEF PostsKnow
<1>5. AnswersHold'
  BY <1>3 DEF AnswersHold, IndexRefuses, HasIdempotency, Logged
<1>6. Kept
  BY NothingLogged
<1>7. TypeOK'
  BY <1>1, <1>2 DEF LogInv
<1> HIDE DEF TypeOK
<1> QED
  BY <1>1, <1>4, <1>5, <1>6, <1>7

LEMMA SendKeeps ==
  ASSUME Inv, NEW p \in Posts, NEW e \in Envelopes, Send(p, e)
  PROVE  Inv' /\ Kept
<1> DEFINE r == [NoPost EXCEPT !.at = "has_key", !.env = e]
<1>1. r \in Post /\ r.env = e /\ r.answer = "none"
  BY Zero DEF Post, NoPost
<1> HIDE DEF r
<1>2. post' = [post EXCEPT ![p] = r] /\ UNCHANGED <<hub_event, held, clock, PostVars>>
  BY DEF Send, r
<1> QED
  BY <1>1, <1>2, PostStep DEF Inv, TypeOK, PostsOK

\* A slot that finishes without a new row.
LEMMA FinishKeeps ==
  ASSUME Inv, NEW p \in Posts, post[p].at # "idle",
         NEW answer \in {"duplicate", "error", "timed_out"}, Finish(p, answer),
         answer = "duplicate" => IndexRefuses(post[p].env),
         UNCHANGED <<hub_event, clock, PostVars>>,
         held' \subseteq [env : Envelopes, stamp : 0..MaxClock]
  PROVE  Inv' /\ Kept
<1> DEFINE r == [post[p] EXCEPT !.at = "idle", !.stamp = 0, !.answer = answer]
<1>1. post[p] \in Post /\ post[p].env \in Envelopes
  BY DEF Inv, TypeOK, PostsOK, PostsKnow
<1>2. r \in Post /\ r.env = post[p].env /\ r.answer = answer /\ r.at = "idle"
  BY <1>1, Zero DEF Post
<1>3. post' = [post EXCEPT ![p] = r]
  BY DEF Finish, Inv, TypeOK, PostsOK
<1> HIDE DEF r
<1> QED
  BY <1>1, <1>2, <1>3, PostStep

LEMMA CheckKeeps ==
  ASSUME Inv, NEW p \in Posts, CheckKey(p) \/ CheckId(p)
  PROVE  Inv' /\ Kept
<1>1. post[p] \in Post /\ post[p].env \in Envelopes /\ post[p].answer = "none"
      /\ post[p].at # "idle" /\ clock \in 0..MaxClock
      /\ held \subseteq [env : Envelopes, stamp : 0..MaxClock]
  BY DEF Inv, TypeOK, PostsOK, PostsKnow, CheckKey, CheckId
<1>2. UNCHANGED <<hub_event, held, clock, PostVars>>
  BY DEF CheckKey, CheckId
<1>3. CASE Finish(p, "duplicate") /\ IndexRefuses(post[p].env)
  BY <1>1, <1>2, <1>3, FinishKeeps
<1>4. CASE post' = [post EXCEPT ![p].at = "has_id"]
  <2> DEFINE r == [post[p] EXCEPT !.at = "has_id"]
  <2>1. r \in Post /\ r.env = post[p].env /\ r.answer = "none"
    BY <1>1 DEF Post
  <2>2. post' = [post EXCEPT ![p] = r]
    BY <1>4 DEF Inv, TypeOK, PostsOK
  <2> HIDE DEF r
  <2> QED
    BY <1>1, <1>2, <2>1, <2>2, PostStep
<1>5. CASE post' = [post EXCEPT ![p].at = "create", ![p].stamp = clock]
  <2> DEFINE r == [post[p] EXCEPT !.at = "create", !.stamp = clock]
  <2>1. r \in Post /\ r.env = post[p].env /\ r.answer = "none"
    BY <1>1 DEF Post
  <2>2. post' = [post EXCEPT ![p] = r]
    BY <1>5 DEF Inv, TypeOK, PostsOK
  <2> HIDE DEF r
  <2> QED
    BY <1>1, <1>2, <2>1, <2>2, PostStep
<1> QED
  BY <1>3, <1>4, <1>5 DEF CheckKey, CheckId, IndexRefuses

LEMMA TimeoutKeeps ==
  ASSUME Inv, NEW p \in Posts, Timeout(p)
  PROVE  Inv' /\ Kept
<1>1. post[p] \in Post /\ post[p].env \in Envelopes
      /\ held \subseteq [env : Envelopes, stamp : 0..MaxClock]
  BY DEF Inv, TypeOK, PostsOK, PostsKnow, Timeout
<1>2. held' \subseteq [env : Envelopes, stamp : 0..MaxClock]
  BY <1>1 DEF Timeout, Post
<1> QED
  BY <1>2, FinishKeeps DEF Timeout

\* A slot whose CREATE took effect, whatever it answers.
LEMMA LandsKeeps ==
  ASSUME Inv, NEW p \in Posts, post[p].at = "create", NEW answer \in {"accepted", "error"},
         Create(post[p].env, post[p].stamp), Finish(p, answer),
         UNCHANGED <<held, clock, PostVars>>
  PROVE  Inv' /\ Kept
<1> DEFINE e == post[p].env
           r == [post[p] EXCEPT !.at = "idle", !.stamp = 0, !.answer = answer]
<1>1. /\ post[p] \in Post /\ e \in Envelopes /\ post[p].stamp \in 0..MaxClock
      /\ held' \subseteq [env : Envelopes, stamp : 0..MaxClock]
  BY DEF Inv, TypeOK, PostsOK, PostsKnow, Post
<1>2. r \in Post /\ r.env = e /\ r.answer = answer /\ r.at = "idle"
  BY <1>1, Zero DEF Post
<1>3. post' = [post EXCEPT ![p] = r]
  BY DEF Finish, Inv, TypeOK, PostsOK
<1> HIDE DEF r
<1>4. /\ LogInv' /\ Kept /\ hub_event'[e.id].env = e /\ e.id \in Logged'
      /\ \A i \in Logged : hub_event'[i] = hub_event[i]
  BY <1>1, CreateKeeps DEF Inv, PostVars
<1>5. \A i \in Logged : i \in Logged'
  BY <1>4 DEF Logged, Kept
<1>6. ConsumerOK' /\ BatchPending'
  BY <1>4, <1>5, BatchStays DEF Inv, TypeOK, PostVars, ConsumerOK
<1>7. post'[p] = r /\ \A q \in Posts \ {p} : post'[q] = post[q]
  BY <1>3 DEF Inv, TypeOK, PostsOK
<1>8. PostsOK'
  BY <1>1, <1>2, <1>3 DEF Inv, TypeOK, PostsOK
<1>9. PostsKnow'
  BY <1>1, <1>2, <1>7 DEF Inv, PostsKnow
<1>10. ASSUME NEW q \in Posts PROVE AnswerHolds(q)'
  <2>1. CASE q = p
    BY <1>2, <1>4, <1>7, <2>1 DEF AnswerHolds
  <2>2. CASE q # p
    BY <1>4, <1>7, <2>2, AnswersStay DEF Inv, LogInv
  <2> QED
    BY <2>1, <2>2
<1>11. AnswersHold'
  BY <1>10 DEF AnswersHold, AnswerHolds
<1>12. TypeOK'
  BY <1>4, <1>6, <1>8 DEF Inv, TypeOK, LogInv, PostVars
<1> QED
  BY <1>4, <1>6, <1>9, <1>11, <1>12 DEF Inv

LEMMA CreateRowKeeps ==
  ASSUME Inv, NEW p \in Posts, CreateRow(p) \/ PostFails(p)
  PROVE  Inv' /\ Kept
<1>1. post[p].at # "idle" /\ UNCHANGED <<held, clock, PostVars>>
      /\ held \subseteq [env : Envelopes, stamp : 0..MaxClock]
  BY DEF Inv, TypeOK, PostsOK, CreateRow, PostFails
<1>2. CASE UNCHANGED hub_event /\ Finish(p, "error")
  BY <1>1, <1>2, FinishKeeps
<1>3. ASSUME NEW answer \in {"accepted", "error"}, post[p].at = "create",
             Create(post[p].env, post[p].stamp), Finish(p, answer)
      PROVE  Inv' /\ Kept
  BY <1>1, <1>3, LandsKeeps
<1> QED
  BY <1>2, <1>3 DEF CreateRow, PostFails

LEMMA HeldKeeps ==
  ASSUME Inv, NEW c \in held, HeldLands(c) \/ HeldIsLost(c)
  PROVE  Inv' /\ Kept
<1>1. c.env \in Envelopes /\ c.stamp \in 0..MaxClock
  BY DEF Inv, TypeOK, PostsOK
<1>2. /\ UNCHANGED <<post, clock, PostVars>>
      /\ held' = held \ {c}
  BY DEF HeldLands, HeldIsLost
<1>3. PostsOK' /\ PostsKnow'
  BY <1>2 DEF Inv, TypeOK, PostsOK, PostsKnow
<1>4. CASE HeldLands(c)
  <2>1. LogInv' /\ Kept /\ \A i \in Logged : hub_event'[i] = hub_event[i]
    BY <1>1, <1>2, <1>4, CreateKeeps DEF HeldLands, Inv, PostVars
  <2>2. \A i \in Logged : i \in Logged'
    BY <2>1 DEF Logged, Kept
  <2>3. ConsumerOK' /\ BatchPending'
    BY <1>2, <2>1, <2>2, BatchStays DEF Inv, TypeOK, PostVars, ConsumerOK
  <2>4. ASSUME NEW q \in Posts PROVE AnswerHolds(q)'
    BY <1>2, <2>1, AnswersStay DEF Inv, LogInv
  <2>5. AnswersHold'
    BY <2>4 DEF AnswersHold, AnswerHolds
  <2>6. TypeOK'
    BY <1>2, <1>3, <2>1, <2>3 DEF Inv, TypeOK, LogInv, PostVars
  <2> QED
    BY <1>3, <2>1, <2>3, <2>5, <2>6 DEF Inv
<1>5. CASE HeldIsLost(c)
  <2>1. hub_event' = hub_event
    BY <1>5 DEF HeldIsLost
  <2>2. LogInv' /\ Kept
    BY <1>2, <2>1, NothingLogged DEF Inv, PostVars, LogInv, LogOK, OneRowPerKey,
       ProcessedTookEffect, DeadIsFull, Logged
  <2>3. ConsumerOK' /\ BatchPending'
    BY <1>2, <2>1 DEF Inv, TypeOK, PostVars, ConsumerOK, BatchPending, Unsettled, Logged
  <2>4. AnswersHold'
    BY <1>2, <2>1 DEF Inv, AnswersHold, IndexRefuses, HasIdempotency, Logged
  <2>5. TypeOK'
    BY <1>2, <1>3, <2>2, <2>3 DEF Inv, TypeOK, LogInv, PostVars
  <2> QED
    BY <1>3, <2>2, <2>3, <2>4, <2>5 DEF Inv
<1> QED
  BY <1>4, <1>5

LEMMA TickKeeps ==
  ASSUME Inv, Tick
  PROVE  Inv' /\ Kept
<1> USE DEF Inv, PostVars
<1>1. UNCHANGED <<hub_event, held, post, hub_resource, consumer, crashes, applied, tries>>
  BY DEF Tick
<1>2. LogInv' /\ Kept
  BY <1>1, NothingLogged DEF LogInv, LogOK, OneRowPerKey, ProcessedTookEffect, DeadIsFull, Logged
<1>3. PostsOK'
  BY <1>1, IngestionAssumption DEF Tick, TypeOK, PostsOK
<1>4. TypeOK'
  BY <1>1, <1>2, <1>3 DEF TypeOK, ConsumerOK, LogInv
<1>5. PostsKnow' /\ AnswersHold' /\ BatchPending'
  BY <1>1 DEF PostsKnow, AnswersHold, IndexRefuses, HasIdempotency, Logged, BatchPending, Unsettled
<1> QED
  BY <1>2, <1>4, <1>5

(***************************************************************************)
(* The steps of the consumer                                               *)
(***************************************************************************)
\* Requests and their answers, while the consumer works.
LEMMA PostsStay ==
  ASSUME Inv, LogInv', Kept, UNCHANGED <<post, held, clock>>
  PROVE  PostsOK' /\ PostsKnow' /\ AnswersHold'
<1>1. PostsOK' /\ PostsKnow'
  BY DEF Inv, TypeOK, PostsOK, PostsKnow
<1>2. ASSUME NEW q \in Posts PROVE AnswerHolds(q)'
  BY AnswersStay DEF Inv, LogInv
<1> QED
  BY <1>1, <1>2 DEF AnswersHold, AnswerHolds

\* The row the consumer is at is unsettled.
LEMMA TurnIsPending ==
  ASSUME Inv, NEW i, Turn(i)
  PROVE  /\ i \in Unsettled /\ i \in Logged /\ hub_event[i] \in Row
         /\ consumer.batch \in Seq(EventIds) /\ consumer.batch # <<>>
         /\ i = consumer.batch[1]
<1>1. consumer.batch \in Seq(EventIds) /\ consumer.batch # <<>>
      /\ i = consumer.batch[1] /\ 1 \in 1..Len(consumer.batch)
  BY DEF Turn, Inv, TypeOK, ConsumerOK
<1>2. i \in Unsettled
  BY <1>1 DEF Inv, BatchPending
<1> QED
  BY <1>1, <1>2, RowOf DEF Unsettled, Inv, LogInv

\* Going on with the next row, once this one alone was dealt with.
LEMMA NextRow ==
  ASSUME Inv, NEW i, Turn(i), NextInBatch, applied' = applied,
         \A j \in Unsettled \ {i} : j \in Unsettled'
  PROVE  ConsumerOK' /\ BatchPending'
<1> DEFINE b == consumer.batch
<1>1. b \in Seq(EventIds) /\ b # <<>> /\ i = b[1]
  BY TurnIsPending
<1>2. /\ Tail(b) \in Seq(EventIds) /\ Len(Tail(b)) = Len(b) - 1 /\ Len(b) \in Nat
      /\ \A m \in 1..Len(Tail(b)) : Tail(b)[m] = b[m + 1]
  BY <1>1, HeadTailProperties, LenProperties
<1>3. CASE Len(b) = 1
  BY <1>3 DEF NextInBatch, NoBatch, ConsumerOK, BatchPending
<1>4. CASE Len(b) # 1
  <2>1. consumer' = [at |-> "apply", batch |-> Tail(b)]
    BY <1>4 DEF NextInBatch
  <2>2. Len(b) \in Nat \ {0}
    BY <1>1, EmptySeq
  <2>3. ConsumerOK'
    <3>1. Len(Tail(b)) # 0
      BY <1>2, <1>4, <2>2
    <3>2. Tail(b) # <<>>
      BY <3>1, EmptySeq
    <3>3. consumer'.at = "apply" /\ consumer'.batch = Tail(b)
      BY <2>1
    <3>4. consumer' \in [at : {"idle", "apply", "mark", "record"}, batch : Seq(EventIds)]
      BY <1>2, <2>1
    <3> QED
      BY <3>2, <3>3, <3>4 DEF ConsumerOK
  <2>4. \A m \in 1..Len(Tail(b)) : Tail(b)[m] \in Unsettled'
    BY <1>1, <1>2 DEF Inv, BatchPending
  <2>5. \A m, n \in 1..Len(Tail(b)) : m # n => Tail(b)[m] # Tail(b)[n]
    BY <1>1, <1>2 DEF Inv, BatchPending
  <2> QED
    BY <2>1, <2>3, <2>4, <2>5 DEF BatchPending
<1> QED
  BY <1>3, <1>4

\* The consumer's call changed the row it is at, or nothing, and it goes on.
LEMMA SettledKeeps ==
  ASSUME Inv, NEW i, Turn(i), NextInBatch, NEW row \in Row,
         hub_event' = hub_event \/ hub_event' = [hub_event EXCEPT ![i] = row],
         row.env = hub_event[i].env, row.received_at = hub_event[i].received_at,
         row.status = "processed" => i \in applied,
         row.status = "dead" => row.retry_count = MaxRetries,
         UNCHANGED <<hub_resource, applied, ConsumerVars>>
  PROVE  Inv' /\ Kept
<1> USE DEF ConsumerVars
<1>1. LogInv' /\ Kept /\ \A j \in Logged \ {i} : hub_event'[j] = hub_event[j]
  <2>1. CASE hub_event' = hub_event
    BY <2>1, NothingLogged DEF Inv, LogInv, LogOK, OneRowPerKey, ProcessedTookEffect,
       DeadIsFull, Logged
  <2>2. CASE hub_event' = [hub_event EXCEPT ![i] = row]
    BY <2>2, TurnIsPending, SettleKeeps DEF Inv
  <2> QED
    BY <2>1, <2>2
<1>2. \A j \in Unsettled \ {i} : j \in Unsettled'
  BY <1>1 DEF Unsettled, Logged, Kept
<1>3. ConsumerOK' /\ BatchPending'
  BY <1>2, NextRow
<1>4. PostsOK' /\ PostsKnow' /\ AnswersHold'
  BY <1>1, PostsStay
<1>5. TypeOK'
  BY <1>1, <1>3, <1>4 DEF Inv, TypeOK, LogInv
<1> QED
  BY <1>1, <1>3, <1>4, <1>5 DEF Inv

LEMMA MarkKeeps ==
  ASSUME Inv, NEW i \in EventIds, MarkProcessed(i) \/ MarkFails(i)
  PROVE  Inv' /\ Kept
<1> DEFINE row == [hub_event[i] EXCEPT !.status = "processed"]
<1>1. Turn(i) /\ consumer.at = "mark" /\ NextInBatch
      /\ UNCHANGED <<hub_resource, applied, ConsumerVars>>
  BY DEF MarkProcessed, MarkFails
<1>2. i \in applied
  BY <1>1 DEF Inv, BatchPending, Turn
<1>3. row \in Row /\ row.env = hub_event[i].env /\ row.received_at = hub_event[i].received_at
      /\ row.status = "processed"
  BY <1>1, TurnIsPending DEF Row
<1>4. hub_event' = hub_event \/ hub_event' = [hub_event EXCEPT ![i] = row]
  BY DEF MarkProcessed, MarkFails
<1> HIDE DEF row
<1> QED
  BY <1>1, <1>2, <1>3, <1>4, SettledKeeps

LEMMA RecordKeeps ==
  ASSUME Inv, NEW i \in EventIds, RecordFailure(i) \/ RecordFails(i)
  PROVE  Inv' /\ Kept
<1> DEFINE counted == [hub_event[i] EXCEPT !.retry_count = Counted(i)]
           given_up == [counted EXCEPT !.status = "dead"]
<1>1. Turn(i) /\ NextInBatch /\ UNCHANGED <<hub_resource, applied, ConsumerVars>>
  BY DEF RecordFailure, RecordFails
<1>2. hub_event[i] \in Row /\ hub_event[i].status = "pending"
  BY <1>1, TurnIsPending DEF Unsettled
<1>3. Counted(i) \in 0..MaxRetries
  BY <1>2, IngestionAssumption DEF Row, Counted
<1>4. counted \in Row /\ counted.env = hub_event[i].env /\ counted.status = "pending"
      /\ counted.received_at = hub_event[i].received_at
  BY <1>2, <1>3 DEF Row
<1>5. given_up \in Row /\ given_up.env = hub_event[i].env /\ given_up.status = "dead"
      /\ given_up.received_at = hub_event[i].received_at /\ given_up.retry_count = Counted(i)
  BY <1>2, <1>3 DEF Row
<1>6. \/ hub_event' = hub_event \/ hub_event' = [hub_event EXCEPT ![i] = counted]
      \/ Counted(i) >= MaxRetries /\ hub_event' = [hub_event EXCEPT ![i] = given_up]
  BY <1>2 DEF RecordFailure, RecordFails, FailureRecorded, Row, Inv, TypeOK, LogOK
<1> HIDE DEF counted, given_up
<1>7. CASE hub_event' = hub_event \/ hub_event' = [hub_event EXCEPT ![i] = counted]
  BY <1>1, <1>4, <1>7, SettledKeeps
<1>8. CASE Counted(i) >= MaxRetries /\ hub_event' = [hub_event EXCEPT ![i] = given_up]
  <2>1. Counted(i) = MaxRetries
    BY <1>3, <1>8, IngestionAssumption
  <2> QED
    BY <1>1, <1>5, <1>8, <2>1, SettledKeeps
<1> QED
  BY <1>6, <1>7, <1>8

LEMMA PollKeeps ==
  ASSUME Inv, Poll
  PROVE  Inv' /\ Kept
<1>1. PICK s \in SetToSeqs(Unsettled) :
        consumer' = [at |-> "apply",
                     batch |-> SubSeq(s, 1, IF Len(s) < Batch THEN Len(s) ELSE Batch)]
  BY DEF Poll
<1>2. UNCHANGED <<hub_event, hub_resource, applied, post, held, clock, crashes, tries>>
      /\ Unsettled # {}
  BY DEF Poll, ConsumerVars
<1> DEFINE c == Cardinality(Unsettled)
           n == IF c < Batch THEN c ELSE Batch
           b == SubSeq(s, 1, n)
<1>3. c \in Nat \ {0}
  <2>1. Unsettled \in SUBSET EventIds
    BY DEF Unsettled, Logged
  <2> QED
    BY <1>2, <2>1, FS_Subset, FS_CardinalityType, FS_EmptySet, IngestionAssumption
<1>4. s \in [1..c -> Unsettled] /\ \A j, k \in 1..c : j # k => s[j] # s[k]
  BY <1>1 DEF SetToSeqs
<1> HIDE DEF c
<1>5. Len(s) = c
  BY <1>3, <1>4
<1>6. n \in 1..c /\ n \in Int
  BY <1>3, IngestionAssumption
<1>7. consumer' = [at |-> "apply", batch |-> b]
  BY <1>1, <1>5
<1> HIDE DEF n
<1>8. b \in Seq(Unsettled) /\ Len(b) = n /\ \A m \in 1..n : b[m] = s[m]
  <2>1. \A m \in 1..n : s[m] \in Unsettled
    BY <1>3, <1>4, <1>6
  <2>2. 1 \in Int /\ n - 1 + 1 = n /\ 1 <= n
    BY <1>3, <1>6
  <2>3. /\ b \in Seq(Unsettled) /\ Len(b) = IF 1 <= n THEN n - 1 + 1 ELSE 0
        /\ \A m \in 1..n - 1 + 1 : b[m] = s[1 + m - 1]
    BY ONLY <1>6, <2>1, <2>2, SubSeqProperties
  <2>4. \A m \in 1..n : 1 + m - 1 = m
    OBVIOUS
  <2> QED
    BY <2>2, <2>3, <2>4
<1>9. b # <<>> /\ b \in Seq(EventIds)
  <2>1. b # <<>>
    <3>1. Len(b) # 0
      BY <1>3, <1>6, <1>8
    <3> HIDE DEF b
    <3> QED
      BY <3>1, EmptySeq
  <2>2. Unsettled \subseteq EventIds
    BY DEF Unsettled, Logged
  <2> QED
    BY <1>8, <2>1, <2>2
<1> HIDE DEF b
<1>10. ConsumerOK'
  BY <1>7, <1>9 DEF ConsumerOK
<1>11. /\ \A m \in 1..n : b[m] \in Unsettled
       /\ \A j, k \in 1..n : j # k => b[j] # b[k]
  BY <1>3, <1>4, <1>6, <1>8
<1>12. BatchPending'
  <2>1. Unsettled' = Unsettled
    BY <1>2 DEF Unsettled, Logged
  <2>2. consumer'.batch = b /\ consumer'.at # "mark"
    BY <1>7
  <2> QED
    BY <1>8, <1>11, <2>1, <2>2 DEF BatchPending
<1>13. LogInv' /\ Kept
  BY <1>2, NothingLogged DEF Inv, LogInv, LogOK, OneRowPerKey, ProcessedTookEffect,
     DeadIsFull, Logged
<1>14. PostsOK' /\ PostsKnow' /\ AnswersHold'
  BY <1>2, <1>13, PostsStay
<1>15. TypeOK'
  BY <1>2, <1>10, <1>13, <1>14 DEF Inv, TypeOK, LogInv
<1> QED
  BY <1>12, <1>13, <1>14, <1>15 DEF Inv

\* The consumer tries its row: at most that row takes effect, and it does
\* before the row is marked.
LEMMA TryKeeps ==
  ASSUME Inv, NEW i \in EventIds, Apply(i) \/ ApplyFails(i)
  PROVE  Inv' /\ Kept
<1>1. /\ Turn(i) /\ consumer.at = "apply"
      /\ UNCHANGED <<hub_event, post, held, clock, crashes>>
      /\ tries' = tries \/ tries' = [tries EXCEPT ![i] = IF @ < MaxRetries THEN @ + 1 ELSE @]
  BY DEF Apply, ApplyFails, ConsumerVars
<1>2. \/ UNCHANGED <<hub_resource, applied>> /\ consumer' = [consumer EXCEPT !.at = "record"]
      \/ TakesEffect(i) /\ consumer' = [consumer EXCEPT !.at = "record"]
      \/ TakesEffect(i) /\ consumer' = [consumer EXCEPT !.at = "mark"]
  BY DEF Apply, ApplyFails
<1>3. i \in Logged /\ hub_event[i].env \in Envelopes /\ hub_event[i].status = "pending"
  BY <1>1, TurnIsPending, RowOf DEF Unsettled, Inv, LogInv
<1>4. /\ hub_resource' \in [Resources -> Envelopes \cup {None}]
      /\ applied' = applied \/ (applied' = applied \cup {i} /\ hub_event[i].env \notin Poison)
  BY <1>2, <1>3 DEF TakesEffect, Inv, TypeOK
<1>5. Logged' = Logged
  BY <1>1 DEF Logged
<1>6. LogOK' /\ applied' \subseteq Logged'
  BY <1>1, <1>3, <1>4, <1>5 DEF Inv, LogInv, LogOK
<1>7. OneRowPerKey' /\ ProcessedTookEffect' /\ DeadIsFull'
  BY <1>1, <1>4, <1>5 DEF Inv, LogInv, OneRowPerKey, ProcessedTookEffect, DeadIsFull
<1>8. LogInv' /\ Kept
  BY <1>1, <1>6, <1>7, NothingLogged DEF Inv, LogInv
<1>9. /\ consumer'.batch = consumer.batch /\ consumer'.at \in {"mark", "record"}
      /\ consumer' \in [at : {"idle", "apply", "mark", "record"}, batch : Seq(EventIds)]
      /\ consumer'.at = "mark" => i \in applied'
  BY <1>2 DEF TakesEffect, Inv, TypeOK, ConsumerOK
<1>10. ConsumerOK'
  BY <1>1, <1>9 DEF ConsumerOK, Turn
<1>11. BatchPending'
  <2>1. Unsettled' = Unsettled
    BY <1>1 DEF Unsettled, Logged
  <2> QED
    BY <1>1, <1>9, <2>1 DEF Inv, BatchPending, Turn
<1>12. PostsOK' /\ PostsKnow' /\ AnswersHold'
  BY <1>1, <1>8, PostsStay
<1>13. tries' \in [EventIds -> 0..MaxRetries]
  BY <1>1, IngestionAssumption DEF Inv, TypeOK
<1>14. TypeOK'
  BY <1>1, <1>4, <1>8, <1>10, <1>12, <1>13 DEF Inv, TypeOK, LogInv
<1> QED
  BY <1>8, <1>11, <1>12, <1>14 DEF Inv

(***************************************************************************)
(* Restart, and the theorems                                               *)
(***************************************************************************)
LEMMA Fresh ==
  ASSUME PostsOK', post' = [p \in Posts |-> NoPost], consumer' = NoBatch
  PROVE  PostsKnow' /\ AnswersHold' /\ ConsumerOK' /\ BatchPending'
<1>1. \A p \in Posts : post'[p].at = "idle" /\ post'[p].answer = "none"
  BY DEF NoPost
<1>2. PostsKnow' /\ AnswersHold'
  BY <1>1 DEF PostsKnow, AnswersHold
<1>3. consumer'.at = "idle" /\ consumer'.batch = <<>> /\ Len(consumer'.batch) = 0
  BY DEF NoBatch
<1>4. ConsumerOK'
  BY DEF NoBatch, ConsumerOK
<1>5. BatchPending'
  BY <1>3 DEF BatchPending
<1> QED
  BY <1>2, <1>4, <1>5

LEMMA NoPostType == NoPost \in Post
BY Zero DEF NoPost, Post

LEMMA CrashKeeps ==
  ASSUME Inv, Crash
  PROVE  Inv' /\ Kept
<1>1. /\ post' = [p \in Posts |-> NoPost] /\ held' = {} /\ consumer' = NoBatch
      /\ UNCHANGED <<hub_event, hub_resource, clock, applied, tries>>
      /\ crashes < MaxCrashes /\ crashes' = crashes + 1
  BY DEF Crash
<1>2. PostsOK'
  BY <1>1, NoPostType DEF Inv, TypeOK, PostsOK
<1>3. PostsKnow' /\ AnswersHold' /\ ConsumerOK' /\ BatchPending'
  BY <1>1, <1>2, Fresh
<1>4. LogInv' /\ Kept
  BY <1>1, NothingLogged DEF Inv, LogInv, LogOK, OneRowPerKey, ProcessedTookEffect,
     DeadIsFull, Logged
<1>5. crashes' \in 0..MaxCrashes
  BY <1>1, IngestionAssumption DEF Inv, TypeOK
<1>6. TypeOK'
  BY <1>1, <1>2, <1>3, <1>4, <1>5 DEF Inv, TypeOK, LogInv
<1> QED
  BY <1>3, <1>4, <1>6 DEF Inv

LEMMA Start ==
  ASSUME Init
  PROVE  Inv
<1>1. Logged = {} /\ Unsettled = {} /\ applied = {}
  BY DEF Init, Logged, Unsettled
<1>2. LogOK
  BY DEF Init, LogOK
<1>3. LogInv
  BY <1>1, <1>2 DEF LogInv, OneRowPerKey, ProcessedTookEffect, DeadIsFull
<1>4. PostsOK
  BY Zero, NoPostType DEF Init, PostsOK
<1>5. PostsKnow /\ AnswersHold
  BY DEF Init, NoPost, PostsKnow, AnswersHold
<1>6. ConsumerOK /\ BatchPending
  BY DEF Init, NoBatch, ConsumerOK, BatchPending
<1>7. crashes \in 0..MaxCrashes /\ tries \in [EventIds -> 0..MaxRetries]
  BY IngestionAssumption DEF Init
<1>8. TypeOK
  BY <1>2, <1>4, <1>6, <1>7 DEF TypeOK, Init
<1> QED
  BY <1>3, <1>5, <1>6, <1>8 DEF Inv

LEMMA Step ==
  ASSUME Inv, Next
  PROVE  Inv' /\ Kept
<1>1. ASSUME NEW p \in Posts, NEW e \in Envelopes, Send(p, e)
      PROVE  Inv' /\ Kept
  BY <1>1, SendKeeps
<1>2. ASSUME NEW p \in Posts, CheckKey(p) \/ CheckId(p)
      PROVE  Inv' /\ Kept
  BY <1>2, CheckKeeps
<1>3. ASSUME NEW p \in Posts, CreateRow(p) \/ PostFails(p)
      PROVE  Inv' /\ Kept
  BY <1>3, CreateRowKeeps
<1>4. ASSUME NEW p \in Posts, Timeout(p)
      PROVE  Inv' /\ Kept
  BY <1>4, TimeoutKeeps
<1>5. ASSUME NEW c \in held, HeldLands(c) \/ HeldIsLost(c)
      PROVE  Inv' /\ Kept
  BY <1>5, HeldKeeps
<1>6. ASSUME NEW i \in EventIds, Apply(i) \/ ApplyFails(i)
      PROVE  Inv' /\ Kept
  BY <1>6, TryKeeps
<1>7. ASSUME NEW i \in EventIds, MarkProcessed(i) \/ MarkFails(i)
      PROVE  Inv' /\ Kept
  BY <1>7, MarkKeeps
<1>8. ASSUME NEW i \in EventIds, RecordFailure(i) \/ RecordFails(i)
      PROVE  Inv' /\ Kept
  BY <1>8, RecordKeeps
<1> QED
  BY <1>1, <1>2, <1>3, <1>4, <1>5, <1>6, <1>7, <1>8, PollKeeps, CrashKeeps, TickKeeps DEF Next

LEMMA Stutter ==
  ASSUME Inv, UNCHANGED vars
  PROVE  Inv' /\ Kept
<1> USE DEF Inv, vars
<1>1. LogInv' /\ Kept
  BY NothingLogged DEF LogInv, LogOK, OneRowPerKey, ProcessedTookEffect, DeadIsFull, Logged
<1>2. PostsOK' /\ PostsKnow' /\ AnswersHold'
  BY <1>1, PostsStay
<1>3. TypeOK' /\ BatchPending'
  BY <1>1, <1>2 DEF TypeOK, ConsumerOK, LogInv, BatchPending, Unsettled, Logged
<1> QED
  BY <1>1, <1>2, <1>3

LEMMA Inductive == Spec => []Inv
<1>1. Init => Inv
  BY Start
<1>2. Inv /\ [Next]_vars => Inv'
  BY Step, Stutter
<1> QED
  BY <1>1, <1>2, PTL DEF Spec

\* The types, and that the consumer is at a row while its batch is not done.
THEOREM IngestionTypeOK == Spec => []TypeOK
<1>1. Inv => TypeOK
  BY DEF Inv
<1> QED
  BY <1>1, Inductive, PTL

\* What POST /v1/events answered stays true: 202, this event is in the log;
\* 409, an event with its id or its key is, whichever app's.
THEOREM AnswersStayTrue == Spec => []AnswersHold
<1>1. Inv => AnswersHold
  BY DEF Inv
<1> QED
  BY <1>1, Inductive, PTL

\* Whatever call of the consumer fails, before or after its effect, and wherever
\* the server stops, an event marked as processed took effect.
THEOREM ProcessedHadEffect == Spec => []ProcessedTookEffect
<1>1. Inv => ProcessedTookEffect
  BY DEF Inv, LogInv
<1> QED
  BY <1>1, Inductive, PTL

\* No row counts more failures than there were, nor will the one the consumer is
\* about to record.
TriesCover ==
  /\ \A i \in Logged : hub_event[i].retry_count <= tries[i]
  /\ \A i : consumer.at = "record" /\ Turn(i) => Counted(i) <= tries[i]

\* Steps that leave the counts of the rows, and the consumer before its record.
LEMMA CountsStay ==
  ASSUME Inv, TriesCover, UNCHANGED tries,
         \A i \in Logged' : hub_event'[i].retry_count =
           IF i \in Logged THEN hub_event[i].retry_count ELSE 0,
         \A i \in Logged : i \in Logged',
         consumer' = consumer \/ consumer'.at # "record"
  PROVE  TriesCover'
<1>1. \A i \in EventIds : tries[i] \in 0..MaxRetries
  BY DEF Inv, TypeOK
<1>2. \A i \in Logged' : hub_event'[i].retry_count <= tries'[i]
  BY <1>1, IngestionAssumption DEF TriesCover, Logged
<1>3. ASSUME NEW i, consumer'.at = "record", Turn(i)'
      PROVE  Counted(i)' <= tries'[i]
  <2>1. consumer' = consumer /\ Turn(i) /\ consumer.at = "record"
    BY <1>3 DEF Turn
  <2>2. i \in Logged
    BY <2>1, TurnIsPending
  <2>3. Counted(i)' = Counted(i)
    BY <2>2 DEF Counted
  <2> QED
    BY <2>1, <2>3 DEF TriesCover
<1> QED
  BY <1>2, <1>3 DEF TriesCover

\* The consumer's calls: a row is counted once for each apply that failed.
LEMMA CountsMove ==
  ASSUME Inv, TriesCover, NEW i \in EventIds,
         \/ Apply(i) \/ ApplyFails(i) \/ MarkProcessed(i) \/ MarkFails(i)
         \/ RecordFailure(i) \/ RecordFails(i)
  PROVE  TriesCover'
<1>1. Turn(i) /\ i \in Logged /\ hub_event[i] \in Row
      /\ \A j : Turn(j) => j = i
  BY TurnIsPending DEF Apply, ApplyFails, MarkProcessed, MarkFails, RecordFailure,
     RecordFails, Turn
<1>2. /\ tries \in [EventIds -> 0..MaxRetries] /\ MaxRetries \in Nat
      /\ hub_event[i].retry_count \in 0..MaxRetries
      /\ \A j \in Logged : hub_event[j].retry_count \in 0..MaxRetries
  BY <1>1, IngestionAssumption, RowOf DEF Inv, TypeOK, LogInv, Row
<1>3. CASE ApplyFails(i)
  <2>1. /\ hub_event' = hub_event /\ consumer' = [consumer EXCEPT !.at = "record"]
        /\ tries' = [tries EXCEPT ![i] = IF @ < MaxRetries THEN @ + 1 ELSE @]
    BY <1>3 DEF ApplyFails
  <2>2. Logged' = Logged /\ \A j \in Logged : tries[j] <= tries'[j] /\ tries'[j] \in Int
    BY <1>2, <2>1 DEF Logged
  <2>3. \A j \in Logged' : hub_event'[j].retry_count <= tries'[j]
    <3> SUFFICES ASSUME NEW j \in Logged PROVE hub_event[j].retry_count <= tries'[j]
      BY <2>1, <2>2
    <3>1. hub_event[j].retry_count <= tries[j] /\ tries[j] <= tries'[j]
      BY <2>2 DEF TriesCover
    <3>2. hub_event[j].retry_count \in Int /\ tries[j] \in Int /\ tries'[j] \in Int
      BY <1>2, <2>2 DEF Logged
    <3> QED
      BY <3>1, <3>2
  <2>4. Counted(i)' = Counted(i) /\ Counted(i) <= tries'[i]
    <3>1. Counted(i)' = Counted(i)
      BY <2>1 DEF Counted
    <3>2. hub_event[i].retry_count <= tries[i] /\ tries[i] \in 0..MaxRetries
      BY <1>1, <1>2 DEF TriesCover
    <3>3. tries'[i] = IF tries[i] < MaxRetries THEN tries[i] + 1 ELSE tries[i]
      BY <1>2, <2>1
    <3> QED
      BY <1>2, <3>1, <3>2, <3>3 DEF Counted
  <2>5. \A j : Turn(j)' => j = i
    <3>1. consumer'.batch = consumer.batch
      BY <2>1 DEF Inv, TypeOK, ConsumerOK
    <3> QED
      BY <1>1, <3>1 DEF Turn
  <2> QED
    BY <2>3, <2>4, <2>5 DEF TriesCover
<1>4. CASE Apply(i)
  <2>1. /\ hub_event' = hub_event /\ tries' = tries
        /\ consumer' = [consumer EXCEPT !.at = "mark"]
    BY <1>4 DEF Apply, ConsumerVars
  <2>2. consumer'.at = "mark" /\ Logged' = Logged
    BY <2>1 DEF Inv, TypeOK, ConsumerOK, Logged
  <2> QED
    BY <2>1, <2>2 DEF TriesCover
<1>5. CASE MarkProcessed(i) \/ MarkFails(i) \/ RecordFailure(i) \/ RecordFails(i)
  <2>1. tries' = tries /\ NextInBatch /\ Kept
    BY <1>5, MarkKeeps, RecordKeeps DEF MarkProcessed, MarkFails, RecordFailure, RecordFails,
       ConsumerVars
  <2>2. consumer'.at # "record"
    BY <2>1 DEF NextInBatch, NoBatch
  <2>3. \A j \in EventIds \ {i} : hub_event'[j] = hub_event[j]
    BY <1>5 DEF MarkProcessed, MarkFails, RecordFailure, RecordFails, FailureRecorded,
       Inv, TypeOK, LogOK
  <2>4. hub_event'[i].retry_count <= tries[i]
    <3>1. hub_event[i].retry_count <= tries[i]
      BY <1>1 DEF TriesCover
    <3>2. CASE MarkProcessed(i) \/ MarkFails(i)
      <4>1. hub_event'[i].retry_count = hub_event[i].retry_count
        BY <1>1, <3>2 DEF MarkProcessed, MarkFails, Inv, TypeOK, LogOK, Row
      <4> QED
        BY <3>1, <4>1
    <3>3. CASE RecordFailure(i) \/ RecordFails(i)
      <4>1. Counted(i) <= tries[i]
        BY <1>1, <3>3 DEF TriesCover, RecordFailure, RecordFails
      <4>2. hub_event'[i].retry_count \in {hub_event[i].retry_count, Counted(i)}
        BY <1>1, <3>3 DEF RecordFailure, RecordFails, FailureRecorded, Inv, TypeOK, LogOK, Row
      <4> QED
        BY <3>1, <4>1, <4>2
    <3> QED
      BY <1>5, <3>2, <3>3
  <2>5. Logged' \subseteq Logged \cup {i}
    BY <2>3 DEF Logged
  <2> QED
    BY <1>1, <2>1, <2>2, <2>3, <2>4, <2>5 DEF TriesCover, Logged
<1> QED
  BY <1>3, <1>4, <1>5

LEMMA CountsAlways ==
  ASSUME Inv, TriesCover, [Next]_vars
  PROVE  TriesCover'
<1>1. ASSUME UNCHANGED <<hub_event, tries>>, consumer' = consumer \/ consumer'.at # "record"
      PROVE  TriesCover'
  BY <1>1, CountsStay DEF Logged
<1>2. ASSUME NEW e \in Envelopes, NEW stamp, Create(e, stamp), UNCHANGED <<tries, consumer>>
      PROVE  TriesCover'
  <2>1. e.id \notin Logged /\ e.id \in EventIds
    BY <1>2, IngestionAssumption DEF Create, IndexRefuses
  <2>2. /\ \A i \in EventIds \ {e.id} : hub_event'[i] = hub_event[i]
        /\ hub_event'[e.id].retry_count = 0
    BY <1>2, <2>1 DEF Create, Inv, TypeOK, LogOK
  <2>3. \A i \in Logged' : hub_event'[i].retry_count =
          IF i \in Logged THEN hub_event[i].retry_count ELSE 0
    BY <2>1, <2>2 DEF Logged
  <2>4. \A i \in Logged : i \in Logged'
    BY <2>1, <2>2 DEF Logged
  <2> QED
    BY <1>2, <2>3, <2>4, CountsStay
<1>3. ASSUME NEW p \in Posts, CreateRow(p) \/ PostFails(p) PROVE TriesCover'
  <2>1. post[p].env \in Envelopes /\ UNCHANGED <<tries, consumer>>
    BY <1>3 DEF CreateRow, PostFails, PostVars, Inv, PostsKnow
  <2> QED
    BY <1>1, <1>2, <1>3, <2>1 DEF CreateRow, PostFails
<1>4. ASSUME NEW c \in held, HeldLands(c) PROVE TriesCover'
  <2>1. c.env \in Envelopes /\ UNCHANGED <<tries, consumer>>
    BY <1>4 DEF HeldLands, PostVars, Inv, TypeOK, PostsOK
  <2> QED
    BY <1>2, <1>4, <2>1 DEF HeldLands
<1>5. ASSUME NEW p \in Posts, NEW e, Send(p, e) \/ CheckKey(p) \/ CheckId(p) \/ Timeout(p)
      PROVE  TriesCover'
  BY <1>1, <1>5 DEF Send, CheckKey, CheckId, Timeout, PostVars
<1>6. CASE (\E c \in held : HeldIsLost(c)) \/ Tick \/ UNCHANGED vars
  BY <1>1, <1>6 DEF HeldIsLost, Tick, PostVars, vars
<1>7. CASE Poll \/ Crash
  <2>1. consumer'.at # "record" /\ UNCHANGED <<hub_event, tries>>
    BY <1>7 DEF Poll, ConsumerVars, Crash, NoBatch
  <2> QED
    BY <1>1, <2>1
<1> QED
  BY <1>3, <1>4, <1>5, <1>6, <1>7, CountsMove DEF Next

\* However many polls, restarts and half-done record_failures there are, an event
\* is given up only once MaxRetries applies of it have failed.
THEOREM DeadAfterTries == Spec => []DeadHadTries
<1>1. Init => TriesCover
  BY DEF Init, TriesCover, Logged, NoBatch
<1>2. Inv /\ TriesCover /\ [Next]_vars => TriesCover'
  BY CountsAlways
<1>3. Inv /\ TriesCover => DeadHadTries
  <2> SUFFICES ASSUME Inv, TriesCover, NEW i \in Logged, hub_event[i].status = "dead"
               PROVE  tries[i] = MaxRetries
    BY DEF DeadHadTries
  <2>1. hub_event[i].retry_count = MaxRetries /\ hub_event[i].retry_count <= tries[i]
    BY DEF Inv, LogInv, DeadIsFull, TriesCover
  <2>2. tries[i] \in 0..MaxRetries
    BY DEF Inv, TypeOK, Logged
  <2> QED
    BY <2>1, <2>2, IngestionAssumption
<1> QED
  BY <1>1, <1>2, <1>3, Inductive, PTL DEF Spec

\* No step of requests, consumer or restart loses or replaces a row of the log,
\* or changes a settled one.
THEOREM LogKeepsRows == Spec => RowsOnlySettle
<1>1. Inv /\ [Next]_vars => [Kept]_vars
  BY Step
<1>2. Spec => [][Kept]_vars
  BY <1>1, Inductive, PTL DEF Spec
<1> QED
  BY <1>2 DEF RowsOnlySettle, Kept

(***************************************************************************)
(* The order of effects                                                    *)
(***************************************************************************)
\* No call of the consumer but record_failure fails: when apply_event or
\* mark_processed may, a later event goes first by design (ADR-004's retries).
Calm == Faults \cap {"apply", "mark"} = {}

\* What the consumer has in hand or has applied.
TakenUp == applied \cup {consumer.batch[m] : m \in 1..Len(consumer.batch)}

\* No row enters the log behind one the consumer has taken up.  Requests that
\* race each other, and CREATEs that outlive theirs, can break this; a POST at a
\* time does not.
NoneOvertaken ==
  [][\A i \in Logged' \ Logged, j \in TakenUp :
       hub_event[j].received_at <= hub_event'[i].received_at]_vars

\* The registry refuses poison every time, so it stays behind others; of the
\* rest, whatever has taken effect, and whatever comes earlier in the batch, was
\* received no later.
OrderInv ==
  /\ \A j \in applied, k \in Unsettled :
       hub_event[k].env \notin Poison =>
         hub_event[j].received_at <= hub_event[k].received_at
  /\ \A m \in 1..Len(consumer.batch), k \in Unsettled :
       hub_event[k].env \notin Poison =>
         \/ hub_event[consumer.batch[m]].received_at <= hub_event[k].received_at
         \/ \E n \in 1..(m - 1) : consumer.batch[n] = k
  /\ consumer.at = "record" => hub_event[Head(consumer.batch)].env \in Poison

\* The rows in hand are rows of the log.
LEMMA TakenUpLogged ==
  ASSUME Inv
  PROVE  /\ TakenUp \subseteq Logged
         /\ \A m \in 1..Len(consumer.batch) : consumer.batch[m] \in TakenUp
         /\ \A i \in Logged : hub_event[i].received_at \in Nat
<1>1. applied \subseteq Logged /\ LogOK
  BY DEF Inv, LogInv
<1>2. \A m \in 1..Len(consumer.batch) : consumer.batch[m] \in Logged
  BY DEF Inv, BatchPending, Unsettled
<1>3. \A i \in Logged : hub_event[i].received_at \in Nat
  BY <1>1, RowOf DEF Row
<1> QED
  BY <1>1, <1>2, <1>3 DEF TakenUp

\* Rows that come in behind everything taken up leave the order as it is.
LEMMA ArrivalsInOrder ==
  ASSUME Inv, OrderInv, UNCHANGED <<consumer, applied>>,
         \A i \in Logged : hub_event'[i] = hub_event[i],
         \A i \in Logged' \ Logged, j \in TakenUp :
           hub_event[j].received_at <= hub_event'[i].received_at
  PROVE  OrderInv'
<1>1. \A k \in Unsettled' : k \in Unsettled \/ k \in Logged' \ Logged
  BY DEF Unsettled
<1>2. Unsettled \subseteq Logged /\ applied \subseteq TakenUp
  BY DEF Unsettled, TakenUp
<1>3. consumer.at = "record" => Head(consumer.batch) \in Logged
  <2> SUFFICES ASSUME consumer.at = "record" PROVE Head(consumer.batch) \in Logged
    OBVIOUS
  <2>1. consumer.batch \in Seq(EventIds) /\ consumer.batch # <<>>
    BY DEF Inv, TypeOK, ConsumerOK
  <2>2. 1 \in 1..Len(consumer.batch) /\ Head(consumer.batch) = consumer.batch[1]
    BY <2>1
  <2> QED
    BY <2>2, TakenUpLogged
<1> QED
  BY <1>1, <1>2, <1>3, TakenUpLogged DEF OrderInv

\* Rows keep their event and time, and an unsettled row was one before.
LEMMA KeptRows ==
  ASSUME Inv, Kept, Logged' = Logged
  PROVE  /\ \A i \in Logged : /\ hub_event'[i].env = hub_event[i].env
                              /\ hub_event'[i].received_at = hub_event[i].received_at
         /\ Unsettled' \subseteq Unsettled
BY DEF Kept, Unsettled

\* The row in hand is settled, or stays behind because it is poison.
LEMMA SettledInOrder ==
  ASSUME Inv, OrderInv, Kept, Logged' = Logged, applied' = applied,
         NEW i, Turn(i), NextInBatch,
         i \notin Unsettled' \/ hub_event[i].env \in Poison
  PROVE  OrderInv'
<1> DEFINE b == consumer.batch
<1>1. b \in Seq(EventIds) /\ b # <<>> /\ i = b[1]
  BY TurnIsPending
<1>2. /\ Tail(b) \in Seq(EventIds) /\ Len(Tail(b)) = Len(b) - 1 /\ Len(b) \in Nat
      /\ \A m \in 1..Len(Tail(b)) : Tail(b)[m] = b[m + 1]
  BY <1>1, HeadTailProperties, LenProperties
<1>3. /\ \A k \in Logged : /\ hub_event'[k].env = hub_event[k].env
                           /\ hub_event'[k].received_at = hub_event[k].received_at
      /\ Unsettled' \subseteq Unsettled /\ Unsettled \subseteq Logged
      /\ applied \subseteq Logged
  BY KeptRows, TakenUpLogged DEF TakenUp, Unsettled
<1>4. \A j \in applied, k \in Unsettled' :
        hub_event'[k].env \notin Poison =>
          hub_event'[j].received_at <= hub_event'[k].received_at
  BY <1>3 DEF OrderInv
<1>5. CASE Len(b) = 1
  <2>1. consumer'.at = "idle" /\ Len(consumer'.batch) = 0
    BY <1>5 DEF NextInBatch, NoBatch
  <2> QED
    BY <1>4, <2>1 DEF OrderInv
<1>6. CASE Len(b) # 1
  <2>1. consumer'.at = "apply" /\ consumer'.batch = Tail(b)
    BY <1>6 DEF NextInBatch
  <2>2. ASSUME NEW m \in 1..Len(Tail(b)), NEW k \in Unsettled',
               hub_event'[k].env \notin Poison
        PROVE  \/ hub_event'[Tail(b)[m]].received_at <= hub_event'[k].received_at
               \/ \E n \in 1..(m - 1) : Tail(b)[n] = k
    <3>1. m + 1 \in 1..Len(b) /\ Tail(b)[m] = b[m + 1] /\ b[m + 1] \in Logged
      BY <1>2, TakenUpLogged
    <3>2. k \in Unsettled /\ hub_event[k].env \notin Poison /\ k # i
      BY <1>3, <2>2
    <3>3. \/ hub_event[b[m + 1]].received_at <= hub_event[k].received_at
          \/ \E n \in 1..m : b[n] = k
      BY <3>1, <3>2 DEF OrderInv
    <3>4. ASSUME NEW n \in 1..m, b[n] = k PROVE \E l \in 1..(m - 1) : Tail(b)[l] = k
      <4>1. n # 1 /\ n - 1 \in 1..(m - 1) /\ n - 1 \in 1..Len(Tail(b))
        BY <1>1, <1>2, <3>2, <3>4
      <4>2. Tail(b)[n - 1] = b[n]
        BY <1>2, <4>1
      <4> QED
        BY <3>4, <4>1, <4>2
    <3> QED
      BY <1>3, <3>1, <3>2, <3>3, <3>4
  <2> QED
    BY <1>4, <2>1, <2>2 DEF OrderInv
<1> QED
  BY <1>5, <1>6

\* The row in hand takes effect: nothing left for later was received before it.
LEMMA AppliedInOrder ==
  ASSUME Inv, OrderInv, NEW i \in EventIds, Apply(i)
  PROVE  /\ OrderInv'
         /\ \A j \in applied : hub_event[j].received_at <= hub_event[i].received_at
<1>1. /\ consumer.batch \in Seq(EventIds) /\ consumer.batch # <<>> /\ i = consumer.batch[1]
      /\ 1 \in 1..Len(consumer.batch) /\ i \in Unsettled
  BY TurnIsPending DEF Apply
<1>2. /\ hub_event' = hub_event /\ applied' = applied \cup {i}
      /\ hub_event[i].env \notin Poison
      /\ consumer'.batch = consumer.batch /\ consumer'.at = "mark"
  BY DEF Apply, TakesEffect, Inv, TypeOK, ConsumerOK
<1>3. Unsettled' = Unsettled
  BY <1>2 DEF Unsettled, Logged
<1>4. \A k \in Unsettled : hub_event[k].env \notin Poison =>
        hub_event[i].received_at <= hub_event[k].received_at
  BY <1>1 DEF OrderInv
<1>5. \A j \in applied : hub_event[j].received_at <= hub_event[i].received_at
  BY <1>1, <1>2 DEF OrderInv
<1> QED
  BY <1>2, <1>3, <1>4, <1>5 DEF OrderInv

\* A call that fails though nothing but the registry's refusal makes it fail.
LEMMA RefusedInOrder ==
  ASSUME Calm, Inv, OrderInv, NEW i \in EventIds, ApplyFails(i)
  PROVE  OrderInv' /\ UNCHANGED <<hub_event, hub_resource, applied>>
<1>1. /\ hub_event[i].env \in Poison /\ UNCHANGED <<hub_event, hub_resource, applied>>
      /\ consumer'.batch = consumer.batch /\ i = Head(consumer.batch)
  BY DEF Calm, ApplyFails, Turn, ConsumerVars, Inv, TypeOK, ConsumerOK
<1>2. Unsettled' = Unsettled
  BY <1>1 DEF Unsettled, Logged
<1> QED
  BY <1>1, <1>2 DEF OrderInv

\* A batch comes ordered by received_at, and no row left out comes before one in it.
LEMMA PolledInOrder ==
  ASSUME Inv, OrderInv, Poll
  PROVE  OrderInv'
<1>1. PICK s \in SetToSeqs(Unsettled) :
        /\ InOrder(s)
        /\ consumer' = [at |-> "apply",
                        batch |-> SubSeq(s, 1, IF Len(s) < Batch THEN Len(s) ELSE Batch)]
  BY DEF Poll
<1> DEFINE c == Cardinality(Unsettled)
           n == IF c < Batch THEN c ELSE Batch
           b == SubSeq(s, 1, n)
<1>2. /\ UNCHANGED <<hub_event, applied>> /\ Unsettled # {} /\ Unsettled' = Unsettled
  BY DEF Poll, Unsettled, Logged
<1>3. IsFiniteSet(Unsettled) /\ c \in Nat \ {0}
  <2>1. Unsettled \in SUBSET EventIds
    BY DEF Unsettled, Logged
  <2> QED
    BY <1>2, <2>1, FS_Subset, FS_CardinalityType, FS_EmptySet, IngestionAssumption
<1>4. s \in [1..c -> Unsettled] /\ \A j, k \in 1..c : j # k => s[j] # s[k]
  BY <1>1 DEF SetToSeqs
\* No row is left out: an injection of a set into one of its size is onto.
<1>5. \A k \in Unsettled : \E j \in 1..c : s[j] = k
  <2>1. s \in Injection(1..c, Unsettled)
    BY <1>4 DEF Injection, IsInjective
  <2>2. Cardinality(1..c) = c
    BY <1>3, FS_Interval
  <2>3. s \in Surjection(1..c, Unsettled)
    BY <1>3, <2>1, <2>2, FS_Injection
  <2> QED
    BY <2>3 DEF Surjection
<1> HIDE DEF c
<1>6. Len(s) = c
  BY <1>3, <1>4
<1>7. n \in 1..c /\ n \in Int
  BY <1>3, IngestionAssumption
<1>8. consumer'.at = "apply" /\ consumer'.batch = b
  BY <1>1, <1>6
<1>9. \A j, k \in 1..c : j < k =>
        hub_event[s[j]].received_at <= hub_event[s[k]].received_at
  BY <1>1, <1>6 DEF InOrder
<1> HIDE DEF n
<1>10. Len(b) = n /\ \A m \in 1..n : b[m] = s[m]
  <2>1. \A m \in 1..n : s[m] \in Unsettled
    BY <1>3, <1>4, <1>7
  <2>2. 1 \in Int /\ n - 1 + 1 = n /\ 1 <= n
    BY <1>3, <1>7
  <2>3. /\ Len(b) = IF 1 <= n THEN n - 1 + 1 ELSE 0
        /\ \A m \in 1..n - 1 + 1 : b[m] = s[1 + m - 1]
    BY ONLY <1>7, <2>1, <2>2, SubSeqProperties
  <2>4. \A m \in 1..n : 1 + m - 1 = m
    OBVIOUS
  <2> QED
    BY <2>2, <2>3, <2>4
<1> HIDE DEF b
<1>11. ASSUME NEW m \in 1..n, NEW k \in Unsettled
       PROVE  \/ hub_event[b[m]].received_at <= hub_event[k].received_at
              \/ \E l \in 1..(m - 1) : b[l] = k
  <2>1. PICK j \in 1..c : s[j] = k
    BY <1>5
  <2>2. m \in 1..c /\ b[m] = s[m] /\ s[m] \in Unsettled
    BY <1>3, <1>4, <1>7, <1>10
  <2>3. CASE j < m
    <3>1. j \in 1..(m - 1) /\ j \in 1..n
      BY <1>3, <1>7, <2>3
    <3> QED
      BY <1>10, <2>1, <3>1
  <2>4. CASE j = m
    <3>1. hub_event[k].received_at \in Nat
      BY TakenUpLogged DEF Unsettled
    <3> QED
      BY <2>1, <2>2, <2>4, <3>1
  <2>5. CASE m < j
    BY <1>9, <2>1, <2>2, <2>5
  <2> QED
    BY <1>3, <2>2, <2>3, <2>4, <2>5
<1> QED
  BY <1>2, <1>8, <1>10, <1>11 DEF OrderInv

\* After a restart nothing is in hand, and what was applied was received first.
LEMMA RestartInOrder ==
  ASSUME Inv, OrderInv, Crash
  PROVE  OrderInv'
<1>1. UNCHANGED <<hub_event, applied>> /\ Unsettled' = Unsettled
  BY DEF Crash, Unsettled, Logged
<1>2. consumer'.at = "idle" /\ Len(consumer'.batch) = 0
  BY DEF Crash, NoBatch
<1> QED
  BY <1>1, <1>2 DEF OrderInv

\* What the steps do to the registry and to what has been applied: nothing, or one
\* event takes effect, none of those before it received later.
LEMMA EffectInOrder ==
  ASSUME Calm, Inv, OrderInv, [Next]_vars,
         \A i \in Logged' \ Logged, j \in TakenUp :
           hub_event[j].received_at <= hub_event'[i].received_at
  PROVE  /\ OrderInv'
         /\ \/ UNCHANGED <<hub_resource, applied>>
            \/ \E i \in EventIds :
                 /\ Apply(i)
                 /\ \A j \in applied :
                      hub_event[j].received_at <= hub_event[i].received_at
<1> DEFINE Goal ==
      /\ OrderInv'
      /\ \/ UNCHANGED <<hub_resource, applied>>
         \/ \E i \in EventIds :
              /\ Apply(i)
              /\ \A j \in applied : hub_event[j].received_at <= hub_event[i].received_at
<1> SUFFICES Goal
  OBVIOUS
<1>1. ASSUME UNCHANGED hub_event, UNCHANGED <<consumer, hub_resource, applied>> PROVE Goal
  BY <1>1, ArrivalsInOrder
<1>2. ASSUME NEW e \in Envelopes, NEW stamp \in 0..MaxClock, Create(e, stamp),
             UNCHANGED <<consumer, hub_resource, applied>>
      PROVE  Goal
  <2>1. \A i \in Logged : hub_event'[i] = hub_event[i]
    BY <1>2, CreateKeeps DEF Inv
  <2> QED
    BY <1>2, <2>1, ArrivalsInOrder
<1>3. ASSUME NEW i \in EventIds, Apply(i) PROVE Goal
  BY <1>3, AppliedInOrder
<1>4. ASSUME NEW i \in EventIds, ApplyFails(i) PROVE Goal
  BY <1>4, RefusedInOrder
<1>5. ASSUME NEW i \in EventIds, MarkProcessed(i) \/ RecordFailure(i) \/ RecordFails(i)
      PROVE  Goal
  <2>1. Kept /\ Turn(i) /\ NextInBatch /\ UNCHANGED <<hub_resource, applied>>
    BY <1>5, MarkKeeps, RecordKeeps DEF MarkProcessed, RecordFailure, RecordFails
  <2>2. hub_event[i].status = "pending" /\ hub_event[i] \in Row /\ i \in Logged
    BY <2>1, TurnIsPending DEF Unsettled
  <2>3. Logged' = Logged
    <3>1. \A j \in EventIds \ {i} : hub_event'[j] = hub_event[j]
      BY <1>5 DEF MarkProcessed, RecordFailure, RecordFails, FailureRecorded,
         Inv, TypeOK, LogOK
    <3>2. hub_event'[i] # None
      BY <2>1, <2>2 DEF Kept
    <3> QED
      BY <2>2, <3>1, <3>2 DEF Logged
  <2>4. i \notin Unsettled' \/ hub_event[i].env \in Poison
    <3>1. CASE MarkProcessed(i)
      <4>1. hub_event'[i].status = "processed"
        BY <2>2, <3>1 DEF MarkProcessed, Inv, TypeOK, LogOK, Row
      <4> QED
        BY <4>1 DEF Unsettled
    <3>2. CASE RecordFailure(i) \/ RecordFails(i)
      BY <2>1, <3>2 DEF RecordFailure, RecordFails, OrderInv, Turn
    <3> QED
      BY <1>5, <3>1, <3>2
  <2> QED
    BY <2>1, <2>3, <2>4, SettledInOrder
<1>6. CASE Poll
  BY <1>6, PolledInOrder DEF Poll
<1>7. CASE Crash
  BY <1>7, RestartInOrder DEF Crash
<1> HIDE DEF Goal
<1>8. ASSUME NEW p \in Posts, CreateRow(p) \/ PostFails(p) PROVE Goal
  <2>1. post[p].env \in Envelopes /\ post[p].stamp \in 0..MaxClock
    BY <1>8 DEF CreateRow, PostFails, Inv, TypeOK, PostsOK, PostsKnow, Post
  <2> QED
    BY <1>1, <1>2, <1>8, <2>1 DEF CreateRow, PostFails, PostVars
<1>9. ASSUME NEW k \in held, HeldLands(k) PROVE Goal
  <2>1. k.env \in Envelopes /\ k.stamp \in 0..MaxClock
    BY <1>9 DEF Inv, TypeOK, PostsOK
  <2> QED
    BY <1>2, <1>9, <2>1 DEF HeldLands, PostVars
<1>10. ASSUME NEW p \in Posts, CheckKey(p) \/ CheckId(p) \/ Timeout(p) PROVE Goal
  BY <1>1, <1>10 DEF CheckKey, CheckId, Timeout, PostVars
<1>11. ASSUME NEW p \in Posts, NEW e, Send(p, e) PROVE Goal
  BY <1>1, <1>11 DEF Send, PostVars
<1>12. ASSUME NEW i \in EventIds PROVE ~MarkFails(i)
  BY DEF MarkFails, Calm
<1>13. CASE (\E k \in held : HeldIsLost(k)) \/ Tick \/ UNCHANGED vars
  BY <1>1, <1>13 DEF HeldIsLost, Tick, PostVars, vars
<1> QED
  BY <1>3, <1>4, <1>5, <1>6, <1>7, <1>8, <1>9, <1>10, <1>11, <1>12, <1>13 DEF Next

\* The order is kept by every step, as long as nothing overtakes in the log.
LEMMA OrderAlways ==
  ASSUME Calm
  PROVE  Spec /\ NoneOvertaken => [](Inv /\ OrderInv)
<1> DEFINE Behind == \A i \in Logged' \ Logged, j \in TakenUp :
      hub_event[j].received_at <= hub_event'[i].received_at
<1>1. Init => OrderInv
  <2> SUFFICES ASSUME Init PROVE OrderInv
    OBVIOUS
  <2>1. applied = {} /\ consumer.at = "idle" /\ Len(consumer.batch) = 0
    BY DEF Init, NoBatch
  <2> QED
    BY <2>1 DEF OrderInv
<1>2. Inv /\ OrderInv /\ [Next]_vars /\ [Behind]_vars => OrderInv'
  <2> SUFFICES ASSUME Inv, OrderInv, [Next]_vars, [Behind]_vars PROVE OrderInv'
    OBVIOUS
  <2>1. Behind
    BY DEF vars, Logged
  <2> QED
    BY <2>1, EffectInOrder
<1>3. Spec => []Inv
  BY Inductive
<1> QED
  BY <1>1, <1>2, <1>3, PTL DEF Spec, NoneOvertaken

\* ADR-004's per-resource monotonic order: with the consumer's calls calm and no
\* row overtaken in the log, an event never takes effect after one received later,
\* whatever is dead or retried, and however often the server restarts.
THEOREM EffectsInOrder == Calm => (Spec /\ NoneOvertaken => PerResourceOrder)
<1> SUFFICES ASSUME Calm PROVE Spec /\ NoneOvertaken => PerResourceOrder
  OBVIOUS
<1> DEFINE Behind == \A i \in Logged' \ Logged, j \in TakenUp :
      hub_event[j].received_at <= hub_event'[i].received_at
    Ordered == \A i \in Logged :
      (hub_resource' # hub_resource \/ applied' # applied) /\ Turn(i) =>
        \A j \in applied :
          hub_event[j].env.res = hub_event[i].env.res =>
            hub_event[j].received_at <= hub_event[i].received_at
<1>1. Inv /\ OrderInv /\ [Next]_vars /\ [Behind]_vars => [Ordered]_vars
  <2> SUFFICES ASSUME Inv, OrderInv, Next, [Behind]_vars, NEW i \in Logged,
                      hub_resource' # hub_resource \/ applied' # applied, Turn(i),
                      NEW j \in applied
               PROVE  hub_event[j].received_at <= hub_event[i].received_at
    OBVIOUS
  <2>1. Behind
    BY DEF vars, Logged
  <2>2. PICK k \in EventIds : /\ Apply(k)
                              /\ \A l \in applied :
                                   hub_event[l].received_at <= hub_event[k].received_at
    BY <2>1, EffectInOrder
  <2>3. k = i
    BY <2>2 DEF Apply, Turn
  <2> QED
    BY <2>2, <2>3
<1>2. Spec /\ NoneOvertaken => [](Inv /\ OrderInv)
  BY OrderAlways
<1> QED
  BY <1>1, <1>2, PTL DEF Spec, NoneOvertaken, PerResourceOrder

\* What makes the newest event of a resource the one it shows.
LEMMA LatestStays ==
  ASSUME Inv, Inv', ShowsLatest, Kept, UNCHANGED <<hub_resource, applied>>
  PROVE  ShowsLatest'
<1>1. \A i \in applied : /\ hub_event'[i].env = hub_event[i].env
                         /\ hub_event'[i].received_at = hub_event[i].received_at
  BY DEF Kept, Inv, LogInv
<1> QED
  BY <1>1 DEF ShowsLatest

LEMMA LatestMoves ==
  ASSUME Inv, ShowsLatest, NEW i \in EventIds, Apply(i),
         \A j \in applied : hub_event[j].received_at <= hub_event[i].received_at
  PROVE  ShowsLatest'
<1> DEFINE e == hub_event[i].env
<1>1. /\ hub_event' = hub_event /\ applied' = applied \cup {i}
      /\ hub_resource' = [hub_resource EXCEPT ![e.res] = IF e.op = "put" THEN e ELSE None]
      /\ hub_resource \in [Resources -> Envelopes \cup {None}]
  BY DEF Apply, TakesEffect, ConsumerVars, Inv, TypeOK
<1>2. hub_event[i].received_at <= hub_event[i].received_at
  <2>1. i \in Logged
    BY TurnIsPending DEF Apply
  <2>2. hub_event[i].received_at \in Nat
    BY <2>1, TakenUpLogged
  <2> QED
    BY <2>2
<1> SUFFICES ASSUME NEW x \in Resources
             PROVE  LET took == {j \in applied' : hub_event[j].env.res = x} IN
                    \/ took = {} /\ hub_resource'[x] = None
                    \/ \E k \in took :
                         /\ \A j \in took : hub_event[j].received_at <= hub_event[k].received_at
                         /\ hub_resource'[x] =
                              IF hub_event[k].env.op = "put" THEN hub_event[k].env ELSE None
  BY <1>1 DEF ShowsLatest
<1>3. CASE e.res = x
  <2>1. i \in {j \in applied' : hub_event[j].env.res = x}
    BY <1>1, <1>3
  <2>2. hub_resource'[x] = IF e.op = "put" THEN e ELSE None
    BY <1>1, <1>3
  <2>3. \A j \in applied' : hub_event[j].received_at <= hub_event[i].received_at
    BY <1>1, <1>2
  <2> QED
    BY <2>1, <2>2, <2>3
<1>4. CASE e.res # x
  <2>1. hub_resource'[x] = hub_resource[x]
    BY <1>1, <1>4
  <2>2. {j \in applied' : hub_event[j].env.res = x} = {j \in applied : hub_event[j].env.res = x}
    BY <1>1, <1>4
  <2> QED
    BY <2>1, <2>2 DEF ShowsLatest
<1> QED
  BY <1>3, <1>4

\* So under the same conditions what the registry shows of a resource is what the
\* newest event that took effect made of it: hub_resource is the log replayed.
THEOREM RegistryShowsLatest == Calm => (Spec /\ NoneOvertaken => []ShowsLatest)
<1> SUFFICES ASSUME Calm PROVE Spec /\ NoneOvertaken => []ShowsLatest
  OBVIOUS
<1> DEFINE Behind == \A i \in Logged' \ Logged, j \in TakenUp :
      hub_event[j].received_at <= hub_event'[i].received_at
<1>1. Init => ShowsLatest
  BY DEF Init, ShowsLatest
<1>2. Inv /\ OrderInv /\ ShowsLatest /\ [Next]_vars /\ [Behind]_vars => ShowsLatest'
  <2> SUFFICES ASSUME Inv, OrderInv, ShowsLatest, [Next]_vars, [Behind]_vars
               PROVE  ShowsLatest'
    OBVIOUS
  <2>1. Behind
    BY DEF vars, Logged
  <2>2. Inv' /\ Kept
    BY Step, Stutter
  <2> QED
    BY <2>1, <2>2, EffectInOrder, LatestStays, LatestMoves
<1>3. Spec /\ NoneOvertaken => [](Inv /\ OrderInv)
  BY OrderAlways
<1> QED
  BY <1>1, <1>2, <1>3, PTL DEF Spec, NoneOvertaken

(***************************************************************************)
(* Requests one at a time                                                  *)
(***************************************************************************)
\* One POST at a time, none of whose CREATEs outlives it.
OneAtATime == (\A p, q \in Posts : p = q) /\ MaxHeld = 0

\* The time read before a CREATE is no earlier than any row's.
StampInv ==
  /\ held = {}
  /\ \A i \in Logged : hub_event[i].received_at <= clock
  /\ \A p \in Posts : post[p].at = "create" =>
       /\ post[p].stamp <= clock
       /\ \A i \in Logged : hub_event[i].received_at <= post[p].stamp

\* A new row is then received after every other one.
LEMMA StampKeeps ==
  ASSUME OneAtATime, Inv, StampInv, [Next]_vars
  PROVE  /\ StampInv'
         /\ \A i \in Logged' \ Logged, j \in Logged :
              hub_event[j].received_at <= hub_event'[i].received_at
<1> DEFINE Goal == /\ StampInv'
                   /\ \A i \in Logged' \ Logged, j \in Logged :
                        hub_event[j].received_at <= hub_event'[i].received_at
<1> SUFFICES Goal
  OBVIOUS
<1>1. /\ clock \in Nat /\ post \in [Posts -> Post]
      /\ \A p \in Posts : post[p].stamp \in Nat
      /\ \A i \in Logged : hub_event[i].received_at \in Nat
  BY IngestionAssumption, TakenUpLogged DEF Inv, TypeOK, PostsOK, Post
<1>2. ASSUME Logged' = Logged,
             \A i \in Logged : hub_event'[i].received_at = hub_event[i].received_at,
             clock' = clock, held' = {}, NEW p \in Posts,
             post'[p].at = "create" =>
               post'[p].stamp = clock \/ (post[p].at = "create" /\ post'[p].stamp = post[p].stamp)
      PROVE  Goal
  BY <1>1, <1>2 DEF StampInv, OneAtATime
<1>3. ASSUME Logged' = Logged,
             \A i \in Logged : hub_event'[i].received_at = hub_event[i].received_at,
             clock' = clock \/ clock' = clock + 1, held' = {}, post' = post
      PROVE  Goal
  BY <1>1, <1>3 DEF StampInv
<1>4. ASSUME NEW p \in Posts, CreateRow(p) \/ PostFails(p) PROVE Goal
  <2>1. /\ post[p].env \in Envelopes
        /\ post[p].stamp \in 0..MaxClock
        /\ clock' = clock /\ held' = held /\ post'[p].at = "idle"
    BY <1>1, <1>4 DEF CreateRow, PostFails, Inv, PostsKnow, Post, Finish
  <2>2. CASE hub_event' = hub_event
    <3>1. Logged' = Logged
      BY <2>2 DEF Logged
    <3> QED
      BY <1>2, <2>1, <2>2, <3>1 DEF StampInv
  <2>3. CASE post[p].at = "create" /\ Create(post[p].env, post[p].stamp)
    <3>1. /\ \A i \in Logged : hub_event'[i] = hub_event[i]
          /\ \A i \in Logged' \ Logged : hub_event'[i].received_at = post[p].stamp
      <4>1. \A i \in Logged : hub_event'[i] = hub_event[i]
        BY <1>4, <2>1, <2>3, CreateKeeps DEF Inv, CreateRow, PostFails, PostVars
      <4>2. ASSUME NEW i \in Logged' \ Logged
            PROVE  hub_event'[i].received_at = post[p].stamp
        BY <2>3 DEF Create, Logged, Inv, TypeOK, LogOK
      <4> QED
        BY <4>1, <4>2
    <3>2. post[p].stamp <= clock
      BY <2>3 DEF StampInv
    <3> QED
      BY <1>1, <2>1, <2>3, <3>1, <3>2 DEF StampInv, OneAtATime
  <2> QED
    BY <1>4, <2>2, <2>3 DEF CreateRow, PostFails
<1>5. ASSUME NEW p \in Posts, NEW e, Send(p, e) \/ CheckKey(p) PROVE Goal
  <2>1. /\ hub_event' = hub_event /\ clock' = clock /\ held' = {}
        /\ post'[p].at # "create"
    <3>1. CASE Send(p, e)
      BY <1>1, <3>1 DEF Send, NoPost, StampInv
    <3>2. CASE CheckKey(p) /\ Finish(p, "duplicate")
      BY <1>1, <3>2 DEF CheckKey, Finish, StampInv, Post
    <3>3. CASE CheckKey(p) /\ post' = [post EXCEPT ![p].at = "has_id"]
      BY <1>1, <3>3 DEF CheckKey, StampInv, Post
    <3> QED
      BY <1>5, <3>1, <3>2, <3>3 DEF CheckKey
  <2>2. Logged' = Logged
    BY <2>1 DEF Logged
  <2> QED
    BY <1>2, <2>1, <2>2
<1>6. ASSUME NEW p \in Posts, CheckId(p) PROVE Goal
  <2>1. /\ hub_event' = hub_event /\ clock' = clock /\ held' = {}
        /\ post'[p].at = "create" => post'[p].stamp = clock
    <3>1. CASE post' = [post EXCEPT ![p].at = "create", ![p].stamp = clock]
      BY <1>1, <1>6, <3>1 DEF CheckId, StampInv, Post
    <3>2. CASE Finish(p, "duplicate")
      BY <1>1, <1>6, <3>2 DEF CheckId, Finish, StampInv, Post
    <3> QED
      BY <1>6, <3>1, <3>2 DEF CheckId
  <2>2. Logged' = Logged
    BY <2>1 DEF Logged
  <2> QED
    BY <1>2, <2>1, <2>2
<1>7. ASSUME NEW p \in Posts, Timeout(p) PROVE Goal
  <2> DEFINE sent == IF post[p].at = "create"
                     THEN {[env |-> post[p].env, stamp |-> post[p].stamp]} ELSE {}
  <2>1. /\ hub_event' = hub_event /\ clock' = clock /\ post'[p].at = "idle"
        /\ held' = sent /\ Cardinality(held') <= 0
    BY <1>1, <1>7 DEF Timeout, Finish, StampInv, OneAtATime, Post
  <2>2. held' = {} \/ \E c : held' = {c}
    BY <2>1
  <2>3. ASSUME NEW c, held' = {c} PROVE FALSE
    <3>1. Cardinality({c}) = 1
      BY FS_Singleton
    <3> HIDE DEF sent
    <3> QED
      BY <2>1, <2>3, <3>1
  <2>4. Logged' = Logged
    BY <2>1 DEF Logged
  <2> HIDE DEF sent
  <2> QED
    BY <1>2, <2>1, <2>2, <2>3, <2>4
<1>8. ASSUME NEW i \in EventIds,
             \/ Apply(i) \/ ApplyFails(i) \/ MarkProcessed(i) \/ MarkFails(i)
             \/ RecordFailure(i) \/ RecordFails(i)
      PROVE  Goal
  <2>1. Kept /\ Turn(i) /\ UNCHANGED <<post, held, clock>>
    BY <1>8, TryKeeps, MarkKeeps, RecordKeeps DEF Apply, ApplyFails, MarkProcessed, MarkFails,
       RecordFailure, RecordFails, ConsumerVars
  <2>2. \A j \in EventIds \ {i} : hub_event'[j] = hub_event[j]
    BY <1>8 DEF Apply, ApplyFails, MarkProcessed, MarkFails, RecordFailure, RecordFails,
       FailureRecorded, Inv, TypeOK, LogOK
  <2>3. i \in Logged
    BY <2>1, TurnIsPending
  <2>4. Logged' = Logged
    BY <2>1, <2>2, <2>3 DEF Kept, Logged
  <2> QED
    BY <1>3, <2>1, <2>4 DEF Kept, StampInv
<1>9. CASE Poll \/ Tick \/ UNCHANGED vars
  <2>1. /\ hub_event' = hub_event /\ held' = {} /\ post' = post
        /\ clock' = clock \/ clock' = clock + 1
    BY <1>9 DEF Poll, ConsumerVars, Tick, vars, StampInv
  <2>2. Logged' = Logged
    BY <2>1 DEF Logged
  <2> QED
    BY <1>3, <2>1, <2>2
<1>10. CASE Crash
  <2>1. /\ hub_event' = hub_event /\ held' = {} /\ clock' = clock
        /\ \A p \in Posts : post'[p].at = "idle"
    BY <1>10 DEF Crash, NoPost
  <2>2. Logged' = Logged
    BY <2>1 DEF Logged
  <2> QED
    BY <2>1, <2>2 DEF StampInv
<1> HIDE DEF Goal
<1> QED
  BY <1>4, <1>5, <1>6, <1>7, <1>8, <1>9, <1>10 DEF Next, StampInv

\* One POST at a time, the clock never going back: no row is ever overtaken.
LEMMA NoOvertaking ==
  ASSUME OneAtATime
  PROVE  Spec => NoneOvertaken
<1> DEFINE Behind == \A i \in Logged' \ Logged, j \in TakenUp :
      hub_event[j].received_at <= hub_event'[i].received_at
<1>1. Init => StampInv
  BY DEF Init, StampInv, Logged, NoPost
<1>2. Inv /\ StampInv /\ [Next]_vars => StampInv' /\ [Behind]_vars
  BY StampKeeps, TakenUpLogged
<1>3. Spec => []Inv
  BY Inductive
<1> QED
  BY <1>1, <1>2, <1>3, PTL DEF Spec, NoneOvertaken

\* One POST at a time: every effect is in order ...
THEOREM SerialEffectsInOrder == Calm /\ OneAtATime => (Spec => PerResourceOrder)
BY EffectsInOrder, NoOvertaking

\* ... and the registry shows what the newest event of each resource made of it.
THEOREM SerialShowsLatest == Calm /\ OneAtATime => (Spec => []ShowsLatest)
BY RegistryShowsLatest, NoOvertaking
=============================================================================
