-------------------------- MODULE PublicationsProofs -------------------------
(***************************************************************************)
(* Proofs about Publications, for any number of people, organizations,     *)
(* apps, slugs and requests: entries belong to those who may publish, the  *)
(* answers about handles were true, the index is changed only by writes    *)
(* that had leave, once each, and an app's entry by another app's write    *)
(* only when the two raced.                                                *)
(***************************************************************************)
EXTENDS Publications, TLAPS

\* What a request knows, as far as its steps and the index depend on it.
Acting == {"slug", "app", "write", "late", "reread"}

Knows(q) ==
  /\ q.at \in Resolving => q.h \in Handles
  /\ q.at # "idle" /\ q.op # "visit" => q.slug \in Slugs /\ q.app \in Apps
  /\ q.at = "moved" => q.publisher \in UsrIds /\ handle[q.publisher] # None
  /\ q.at \in Acting => q.op # "visit"
  /\ q.at \in Acting \cup {"look"} /\ q.op # "visit" =>
       /\ q.publisher \in Publishers /\ q.actor \in UsrIds
       /\ MayPublish(q.publisher, q.actor)
       /\ handle[q.publisher] # None

RequestsKnow == \A r \in Requests : Knows(req[r])

\* Handles are kept for people who have another.
Addressed ==
  /\ \A o \in Orgs : handle[o] # None
  /\ \A h \in Handles : reserve[h] # None => handle[reserve[h]] # None

\* What has been seen of the handle a request is looking up.
Seen(r) ==
  /\ req[r].at \in Resolving /\ ~Leads(req[r].h) => met[r].nowhere
  /\ req[r].at \in {"reserve", "moved"} /\ InUse(req[r].h) => met[r].taken

Inv ==
  /\ TypeOK /\ RequestsKnow /\ Addressed /\ EntitledOnly
  /\ \A r \in Requests : Seen(r)

HandlesStay ==
  \A p \in Publishers : handle[p] # None => handle'[p] # None

(***************************************************************************)
(* The steps of a request                                                  *)
(***************************************************************************)
\* The write a request is about to do, as the index sees it.
WriteOf(q) == [op |-> q.op, publisher |-> q.publisher, slug |-> q.slug, app |-> q.app]

\* How a request may look up: a handle in use is not looked for in the reserves.
LooksOn(q, n) ==
  /\ n.at = "user" => q.at = "idle"
  /\ n.at \in {"reserve", "moved"} =>
       /\ n.h = q.h
       /\ q.at \in {"reserve", "moved"} \/ (q.at = "user" /\ ~InUse(q.h))

\* How a request comes to write: not without a look at the entry.
ComesToWrite(q, n) ==
  /\ n.at = "write" =>
       /\ WriteOf(n) = WriteOf(q)
       /\ \/ q.at = "write"
          \/ /\ q.at = "look"
             /\ IF publication[q.publisher][q.slug] = None THEN q.op = "put"
                ELSE publication[q.publisher][q.slug].app = q.app
  /\ n.at = "late" => q.at = "write" /\ WriteOf(n) = WriteOf(q)

\* What every step of a request r, from q to n, has in common.
Moves(r, n) ==
  /\ Become(r, n)
  /\ n \in Request /\ Knows(n)
  /\ LooksOn(req[r], n) /\ ComesToWrite(req[r], n)
  /\ UNCHANGED <<handle, reserve, app_status, changes>>

LEMMA IdleKnows ==
  Idle \in Request /\ Knows(Idle) /\ \A q : LooksOn(q, Idle) /\ ComesToWrite(q, Idle)
BY PublicationsAssumption
   DEF Idle, Request, Steps, Knows, LooksOn, ComesToWrite, Resolving, Acting

\* A request that answers.
LEMMA AnswerMoves ==
  ASSUME Inv, NEW r \in Requests, Answer(r),
         UNCHANGED <<handle, reserve, app_status, changes>>
  PROVE  Moves(r, Idle)
BY IdleKnows DEF Moves, Answer

\* A request begins.
LEMMA BeginMoves ==
  ASSUME Inv, NEW r \in Requests, NEW n \in Request, Begin(r, n), n.at = "user", Knows(n)
  PROVE  Moves(r, n) /\ UNCHANGED publication
BY DEF Begin, tables, Moves, LooksOn, ComesToWrite

LEMMA VisitMoves ==
  ASSUME Inv, NEW r \in Requests, NEW h \in Handles, Visit(r, h)
  PROVE  (\E n : Moves(r, n)) /\ UNCHANGED publication
<1> DEFINE v == [Idle EXCEPT !.at = "user", !.h = h]
<1>1. v \in Request /\ v.at = "user"
  BY IdleKnows DEF Idle, Request, Steps, Resolving
<1>2. Knows(v)
  BY DEF Knows, Idle, Resolving, Acting
<1>3. Begin(r, v)
  BY DEF Visit
<1> HIDE DEF v
<1> QED
  BY <1>1, <1>2, <1>3, BeginMoves

LEMMA CallMoves ==
  ASSUME Inv, NEW r \in Requests, NEW op \in {"put", "delete"}, NEW h \in Handles,
         NEW s \in Slugs, NEW a \in Apps, Call(r, op, h, s, a)
  PROVE  (\E n : Moves(r, n)) /\ UNCHANGED publication
<1> DEFINE c == [Idle EXCEPT !.at = "user", !.op = op, !.h = h, !.slug = s, !.app = a]
<1>1. c \in Request /\ c.at = "user"
  BY IdleKnows DEF Idle, Request, Steps, Resolving
<1>2. Knows(c)
  BY DEF Knows, Idle, Resolving, Acting
<1>3. Begin(r, c)
  BY DEF Call
<1> HIDE DEF c
<1> QED
  BY <1>1, <1>2, <1>3, BeginMoves

\* The publisher has been found.
LEMMA FoundMoves ==
  ASSUME Inv, NEW r \in Requests, NEW p \in Publishers, Found(r, p),
         handle[p] # None, req[r].at \in Resolving,
         UNCHANGED <<handle, reserve, app_status, changes>>
  PROVE  \E n : Moves(r, n)
<1>0. req[r] \in Request /\ Knows(req[r])
  BY DEF Inv, TypeOK, RequestsKnow
<1>1. CASE Answer(r)
  BY <1>1, AnswerMoves
<1>2. CASE req[r].op = "visit" /\ Become(r, [req[r] EXCEPT !.at = "look", !.publisher = p])
  <2> DEFINE n == [req[r] EXCEPT !.at = "look", !.publisher = p]
  <2>1. n \in Request
    BY <1>0 DEF Request, Steps
  <2>2. Knows(n)
    BY <1>0, <1>2 DEF Knows, Resolving, Acting, Request
  <2>3. n.at = "look"
    BY <1>0 DEF Request
  <2> HIDE DEF n
  <2>4. Become(r, n)
    BY <1>2 DEF n
  <2> QED
    BY <2>1, <2>2, <2>3, <2>4 DEF Moves, LooksOn, ComesToWrite
<1>3. CASE /\ req[r].op # "visit"
           /\ \E u \in UsrIds :
                /\ MayPublish(p, u)
                /\ Become(r, [req[r] EXCEPT !.at = IF req[r].op = "put" THEN "slug" ELSE "look",
                                            !.publisher = p, !.actor = u])
  <2>1. PICK u \in UsrIds :
          /\ MayPublish(p, u)
          /\ Become(r, [req[r] EXCEPT !.at = IF req[r].op = "put" THEN "slug" ELSE "look",
                                      !.publisher = p, !.actor = u])
    BY <1>3
  <2> DEFINE n == [req[r] EXCEPT !.at = IF req[r].op = "put" THEN "slug" ELSE "look",
                                 !.publisher = p, !.actor = u]
  <2>2. n \in Request
    BY <1>0 DEF Request, Steps
  <2>3. n.at \in {"slug", "look"} /\ n.op = req[r].op /\ n.publisher = p /\ n.actor = u
        /\ n.slug = req[r].slug /\ n.app = req[r].app
    BY <1>0 DEF Request
  <2>4. Become(r, n)
    BY <2>1
  <2> HIDE DEF n
  <2>5. Knows(n)
    BY <1>0, <1>3, <2>1, <2>3 DEF Knows, Resolving, Acting
  <2> QED
    BY <2>2, <2>3, <2>4, <2>5 DEF Moves, LooksOn, ComesToWrite
<1> QED
  BY <1>1, <1>2, <1>3 DEF Found

\* A step that changes nothing of a request but where it is.
LEMMA GoToMoves ==
  ASSUME Inv, NEW r \in Requests, NEW s \in Steps, GoTo(r, s), req[r].at # "idle",
         Knows([req[r] EXCEPT !.at = s]), LooksOn(req[r], [req[r] EXCEPT !.at = s]),
         ComesToWrite(req[r], [req[r] EXCEPT !.at = s]),
         UNCHANGED <<handle, reserve, app_status, changes>>
  PROVE  Moves(r, [req[r] EXCEPT !.at = s])
<1>1. req[r] \in Request
  BY DEF Inv, TypeOK
<1>2. [req[r] EXCEPT !.at = s] \in Request
  BY <1>1 DEF Request
<1> QED
  BY <1>2 DEF Moves, GoTo

\* What becomes of the index when request r moves from q to n: nothing, or the
\* write it was about to do, which is then over.
Touches(r) ==
  \/ UNCHANGED publication
  \/ req[r].at \in Writing /\ Perform(PendingWrite(r)) /\ req'[r].at \notin Writing

LEMMA ReadUserMoves ==
  ASSUME Inv, NEW r \in Requests, ReadUser(r)
  PROVE  (\E n : Moves(r, n)) /\ Touches(r)
<1>0. req[r] \in Request /\ Knows(req[r]) /\ req[r].at = "user" /\ req[r].h \in Handles
      /\ UNCHANGED <<handle, reserve, app_status, publication, changes>>
  BY DEF Inv, TypeOK, RequestsKnow, ReadUser, Knows, Resolving, tables
<1>1. CASE \E p \in Publishers : handle[p] = req[r].h /\ Found(r, p)
  <2>1. PICK p \in Publishers : handle[p] = req[r].h /\ Found(r, p)
    BY <1>1
  <2>2. handle[p] # None
    BY <1>0, <2>1, PublicationsAssumption
  <2> QED
    BY <1>0, <2>1, <2>2, FoundMoves DEF Resolving, Touches
<1>2. CASE ~InUse(req[r].h) /\ GoTo(r, "reserve")
  <2> DEFINE n == [req[r] EXCEPT !.at = "reserve"]
  <2>1. Knows(n) /\ n.at = "reserve" /\ n.h = req[r].h
    BY <1>0 DEF Knows, Resolving, Acting, Request
  <2>2. LooksOn(req[r], n) /\ ComesToWrite(req[r], n)
    BY <1>0, <1>2, <2>1 DEF LooksOn, ComesToWrite
  <2>3. Moves(r, n)
    BY <1>0, <1>2, <2>1, <2>2, GoToMoves DEF Steps, Resolving
  <2> QED
    BY <1>0, <2>3 DEF Touches
<1> QED
  BY <1>1, <1>2 DEF ReadUser

LEMMA ReadReserveMoves ==
  ASSUME Inv, NEW r \in Requests, ReadReserve(r)
  PROVE  (\E n : Moves(r, n)) /\ Touches(r)
<1>0. req[r] \in Request /\ Knows(req[r]) /\ req[r].at = "reserve" /\ req[r].h \in Handles
      /\ UNCHANGED <<handle, reserve, app_status, publication, changes>>
  BY DEF Inv, TypeOK, RequestsKnow, ReadReserve, Knows, Resolving, tables
<1>1. CASE Answer(r)
  BY <1>0, <1>1, AnswerMoves DEF Touches
<1>2. CASE /\ reserve[req[r].h] # None
           /\ Become(r, [req[r] EXCEPT !.at = "moved", !.publisher = reserve[req[r].h]])
  <2> DEFINE u == reserve[req[r].h]
             n == [req[r] EXCEPT !.at = "moved", !.publisher = u]
  <2>1. u \in UsrIds /\ handle[u] # None
    BY <1>0, <1>2 DEF Inv, TypeOK, Addressed
  <2> HIDE DEF u
  <2>2. n \in Request
    BY <1>0, <2>1 DEF Request, Steps, Resolving, Publishers
  <2>3. Knows(n) /\ n.at = "moved" /\ n.h = req[r].h
    BY <1>0, <2>1 DEF Knows, Resolving, Acting, Request
  <2>4. Become(r, n)
    BY <1>2 DEF u
  <2> HIDE DEF n
  <2>5. Moves(r, n)
    BY <1>0, <2>2, <2>3, <2>4 DEF Moves, LooksOn, ComesToWrite
  <2> QED
    BY <1>0, <2>5 DEF Touches
<1> QED
  BY <1>1, <1>2 DEF ReadReserve

LEMMA ReadMovedMoves ==
  ASSUME Inv, NEW r \in Requests, ReadMoved(r)
  PROVE  (\E n : Moves(r, n)) /\ Touches(r)
<1>0. req[r] \in Request /\ Knows(req[r]) /\ req[r].at = "moved"
      /\ req[r].publisher \in Publishers /\ handle[req[r].publisher] # None
      /\ UNCHANGED <<handle, reserve, app_status, publication, changes>>
  BY DEF Inv, TypeOK, RequestsKnow, ReadMoved, Knows, Resolving, tables, Publishers
<1> QED
  BY <1>0, AnswerMoves, FoundMoves DEF ReadMoved, Resolving, Touches

\* The steps between the publisher and the write.
LEMMA CheckMoves ==
  ASSUME Inv, NEW r \in Requests, CheckSlug(r) \/ CheckApp(r) \/ Look(r)
  PROVE  (\E n : Moves(r, n)) /\ Touches(r)
<1>0. req[r] \in Request /\ Knows(req[r]) /\ req[r].at \in {"slug", "app", "look"}
      /\ UNCHANGED <<handle, reserve, app_status, publication, changes>>
  BY DEF Inv, TypeOK, RequestsKnow, CheckSlug, CheckApp, Look, tables
<1>1. CASE Answer(r)
  BY <1>0, <1>1, AnswerMoves DEF Touches
<1>2. CASE req[r].at = "slug" /\ GoTo(r, "app")
  <2> DEFINE n == [req[r] EXCEPT !.at = "app"]
  <2>1. Knows(n) /\ n.at = "app"
    BY <1>0, <1>2 DEF Knows, Resolving, Acting, Request
  <2>2. LooksOn(req[r], n) /\ ComesToWrite(req[r], n)
    BY <2>1 DEF LooksOn, ComesToWrite
  <2>3. Moves(r, n)
    BY <1>0, <1>2, <2>1, <2>2, GoToMoves DEF Steps
  <2> QED
    BY <1>0, <2>3 DEF Touches
<1>3. CASE req[r].at = "app" /\ GoTo(r, "look")
  <2> DEFINE n == [req[r] EXCEPT !.at = "look"]
  <2>1. Knows(n) /\ n.at = "look"
    BY <1>0, <1>3 DEF Knows, Resolving, Acting, Request
  <2>2. LooksOn(req[r], n) /\ ComesToWrite(req[r], n)
    BY <2>1 DEF LooksOn, ComesToWrite
  <2>3. Moves(r, n)
    BY <1>0, <1>3, <2>1, <2>2, GoToMoves DEF Steps
  <2> QED
    BY <1>0, <2>3 DEF Touches
<1>4. CASE req[r].at = "look" /\ req[r].op # "visit" /\ FreeOrOwn(r) /\ GoTo(r, "write")
  <2> DEFINE n == [req[r] EXCEPT !.at = "write"]
  <2>1. Knows(n) /\ n.at = "write" /\ WriteOf(n) = WriteOf(req[r])
    BY <1>0, <1>4 DEF Knows, Resolving, Acting, Request, WriteOf
  <2>2. LooksOn(req[r], n) /\ ComesToWrite(req[r], n)
    BY <1>4, <2>1 DEF LooksOn, ComesToWrite, FreeOrOwn, Entry
  <2>3. Moves(r, n)
    BY <1>0, <1>4, <2>1, <2>2, GoToMoves DEF Steps
  <2> QED
    BY <1>0, <2>3 DEF Touches
<1> QED
  BY <1>1, <1>2, <1>3, <1>4 DEF CheckSlug, CheckApp, Look

LEMMA WriteRowMoves ==
  ASSUME Inv, NEW r \in Requests, WriteRow(r)
  PROVE  (\E n : Moves(r, n)) /\ Touches(r)
<1>0. req[r] \in Request /\ Knows(req[r]) /\ req[r].at = "write"
      /\ UNCHANGED <<handle, reserve, app_status, changes>>
  BY DEF Inv, TypeOK, RequestsKnow, WriteRow
<1>1. Touches(r)
  <2>1. req \in [Requests -> Request]
    BY DEF Inv, TypeOK
  <2>2. GoTo(r, "reread") \/ Answer(r) => req'[r].at \notin Writing
    BY <1>0, <2>1 DEF GoTo, Answer, Become, Idle, Writing, Request
  <2> QED
    BY <1>0, <2>2 DEF WriteRow, Touches, Writing
<1>2. CASE Answer(r)
  BY <1>0, <1>1, <1>2, AnswerMoves
<1>3. CASE GoTo(r, "reread")
  <2> DEFINE n == [req[r] EXCEPT !.at = "reread"]
  <2>1. Knows(n) /\ n.at = "reread"
    BY <1>0 DEF Knows, Resolving, Acting, Request
  <2>2. LooksOn(req[r], n) /\ ComesToWrite(req[r], n)
    BY <2>1 DEF LooksOn, ComesToWrite
  <2>3. Moves(r, n)
    BY <1>0, <1>3, <2>1, <2>2, GoToMoves DEF Steps
  <2> QED
    BY <1>1, <2>3
<1>4. CASE MayRetry(r) /\ Become(r, [req[r] EXCEPT !.attempt = @ + 1])
  <2> DEFINE n == [req[r] EXCEPT !.attempt = @ + 1]
  <2>1. n \in Request
    BY <1>0, <1>4, PublicationsAssumption DEF Request, MayRetry
  <2>2. Knows(n) /\ n.at = "write" /\ WriteOf(n) = WriteOf(req[r])
    BY <1>0 DEF Knows, Resolving, Acting, Request, WriteOf
  <2>3. Become(r, n)
    BY <1>4
  <2> HIDE DEF n
  <2>4. Moves(r, n)
    BY <1>0, <2>1, <2>2, <2>3 DEF Moves, LooksOn, ComesToWrite
  <2> QED
    BY <1>1, <2>4
<1> QED
  BY <1>2, <1>3, <1>4 DEF WriteRow

LEMMA EndMoves ==
  ASSUME Inv, NEW r \in Requests,
         Reread(r) \/ Timeout(r) \/ LateLands(r) \/ LateIsLost(r)
  PROVE  (\E n : Moves(r, n)) /\ Touches(r)
<1>0. req[r] \in Request /\ Knows(req[r])
      /\ UNCHANGED <<handle, reserve, app_status, changes>>
  BY DEF Inv, TypeOK, RequestsKnow, Reread, Timeout, LateLands, LateIsLost, tables
<1>1. Touches(r)
  <2>1. req \in [Requests -> Request]
    BY DEF Inv, TypeOK
  <2>2. Answer(r) => req'[r].at \notin Writing
    BY <2>1 DEF Answer, Become, Idle, Writing
  <2> QED
    BY <2>2 DEF Reread, Timeout, LateLands, LateIsLost, tables, Touches, Writing
<1>2. CASE Answer(r)
  BY <1>0, <1>1, <1>2, AnswerMoves
<1>3. CASE req[r].at = "write" /\ GoTo(r, "late")
  <2> DEFINE n == [req[r] EXCEPT !.at = "late"]
  <2>1. Knows(n) /\ n.at = "late" /\ WriteOf(n) = WriteOf(req[r])
    BY <1>0, <1>3 DEF Knows, Resolving, Acting, Request, WriteOf
  <2>2. LooksOn(req[r], n) /\ ComesToWrite(req[r], n)
    BY <1>3, <2>1 DEF LooksOn, ComesToWrite
  <2>3. Moves(r, n)
    BY <1>0, <1>3, <2>1, <2>2, GoToMoves DEF Steps
  <2> QED
    BY <1>1, <2>3
<1> QED
  BY <1>2, <1>3 DEF Reread, Timeout, LateLands, LateIsLost

\* Every step of a request.
LEMMA StepMoves ==
  ASSUME Inv, NEW r \in Requests, Step(r)
  PROVE  (\E n : Moves(r, n)) /\ Touches(r)
BY ReadUserMoves, ReadReserveMoves, ReadMovedMoves, CheckMoves, WriteRowMoves, EndMoves
   DEF Step

(***************************************************************************)
(* What a step keeps                                                       *)
(***************************************************************************)
\* The steps that come from outside.
Outside ==
  \/ \E u \in UsrIds, h \in Handles : Claim(u, h) \/ Rename(u, h)
  \/ \E h \in Handles : ReserveEnds(h)
  \/ \E a \in Apps, status \in {"active", "off"} : PutApp(a, status)

LEMMA OutsideKeeps ==
  ASSUME Inv, Outside
  PROVE  /\ handle' \in [Publishers -> Handles \cup {None}]
         /\ reserve' \in [Handles -> UsrIds \cup {None}]
         /\ app_status' \in [Apps -> {"active", "off", None}]
         /\ changes' \in 0..MaxChanges
         /\ UNCHANGED <<publication, req>>
         /\ HandlesStay /\ Addressed'
<1>0. TypeOK /\ Addressed /\ changes < MaxChanges /\ changes' = changes + 1
      /\ UNCHANGED <<publication, req>>
  BY DEF Inv, Outside, Claim, Rename, ReserveEnds, PutApp, Changed
<1>1. changes' \in 0..MaxChanges
  BY <1>0, PublicationsAssumption DEF TypeOK
<1>2. ASSUME NEW u \in UsrIds, NEW h \in Handles, Claim(u, h)
      PROVE  /\ handle' \in [Publishers -> Handles \cup {None}]
             /\ UNCHANGED <<reserve, app_status>>
             /\ HandlesStay /\ Addressed'
  BY <1>0, <1>2, PublicationsAssumption DEF TypeOK, Claim, HandlesStay, Addressed, Publishers
<1>3. ASSUME NEW u \in UsrIds, NEW h \in Handles, Rename(u, h)
      PROVE  /\ handle' \in [Publishers -> Handles \cup {None}]
             /\ reserve' \in [Handles -> UsrIds \cup {None}]
             /\ UNCHANGED app_status
             /\ HandlesStay /\ Addressed'
  <2>1. HandlesStay /\ handle'[u] # None /\ handle' \in [Publishers -> Handles \cup {None}]
    BY <1>0, <1>3, PublicationsAssumption DEF TypeOK, Rename, HandlesStay, Publishers
  <2>2. /\ reserve' \in [Handles -> UsrIds \cup {None}]
        /\ \A g \in Handles : reserve'[g] \in {u, None, reserve[g]}
    BY <1>0, <1>3 DEF TypeOK, Rename
  <2>3. Addressed'
    BY <1>0, <2>1, <2>2 DEF TypeOK, Addressed, HandlesStay, Publishers
  <2> QED
    BY <1>3, <2>1, <2>2, <2>3 DEF Rename
<1>4. ASSUME NEW h \in Handles, ReserveEnds(h)
      PROVE  /\ reserve' \in [Handles -> UsrIds \cup {None}]
             /\ UNCHANGED <<handle, app_status>>
             /\ HandlesStay /\ Addressed'
  BY <1>0, <1>4 DEF TypeOK, ReserveEnds, HandlesStay, Addressed
<1>5. ASSUME NEW a \in Apps, NEW status \in {"active", "off"}, PutApp(a, status)
      PROVE  /\ app_status' \in [Apps -> {"active", "off", None}]
             /\ UNCHANGED <<handle, reserve>>
             /\ HandlesStay /\ Addressed'
  BY <1>0, <1>5 DEF TypeOK, PutApp, HandlesStay, Addressed
<1> QED
  BY <1>0, <1>1, <1>2, <1>3, <1>4, <1>5 DEF Outside, TypeOK

\* A write puts a row of the publisher, by somebody who may, or takes it away.
LEMMA PerformKeeps ==
  ASSUME Inv, NEW r \in Requests, req[r].at \in Writing, Perform(PendingWrite(r)),
         handle' = handle
  PROVE  /\ publication' \in [Publishers -> [Slugs -> Row \cup {None}]]
         /\ EntitledOnly'
<1>0. /\ req[r].publisher \in Publishers /\ req[r].slug \in Slugs
      /\ req[r].app \in Apps /\ req[r].actor \in UsrIds
      /\ MayPublish(req[r].publisher, req[r].actor)
      /\ handle[req[r].publisher] # None
  BY DEF Inv, RequestsKnow, Knows, Writing, Acting
<1> DEFINE p == req[r].publisher
           s == req[r].slug
           new == IF req[r].op = "put"
                  THEN [app |-> req[r].app, updated_by |-> req[r].actor] ELSE None
<1>1. publication' = [publication EXCEPT ![p][s] = new]
  BY DEF Perform, PendingWrite
<1>2. new \in Row \cup {None} /\ (new # None => new.updated_by = req[r].actor)
  BY <1>0, PublicationsAssumption DEF Row
<1>3. p \in MyPublishers(req[r].actor)
  BY <1>0, PublicationsAssumption DEF MyPublishers, OrgsOf, MayPublish, Publishers, Publishable
<1> HIDE DEF p, s, new
<1>4. p \in Publishers /\ s \in Slugs
  BY <1>0 DEF p, s
<1>5. publication' \in [Publishers -> [Slugs -> Row \cup {None}]]
  BY <1>1, <1>2, <1>4 DEF Inv, TypeOK
<1>6. \A x \in Publishers, y \in Slugs :
        publication'[x][y] = IF x = p /\ y = s THEN new ELSE publication[x][y]
  BY <1>1, <1>4 DEF Inv, TypeOK
<1>7. ASSUME NEW x \in Publishers, NEW y \in Slugs,
             publication'[x][y] \notin {None, SeededRows[x][y]}
      PROVE  x \in MyPublishers(publication'[x][y].updated_by)
  <2>1. CASE x = p /\ y = s
    BY <1>2, <1>3, <1>6, <1>7, <2>1
  <2>2. CASE ~(x = p /\ y = s)
    BY <1>6, <1>7, <2>2 DEF Inv, EntitledOnly
  <2> QED
    BY <2>1, <2>2
<1>8. \A u : MyPublishers(u)' = MyPublishers(u)
  BY DEF MyPublishers, OrgsOf
<1> QED
  BY <1>5, <1>7, <1>8 DEF EntitledOnly

\* Every step is a request's or comes from outside.
LEMMA NextSplits ==
  ASSUME Inv, Next
  PROVE  /\ Observed
         /\ Outside \/ \E r \in Requests : \E n : Moves(r, n) /\ Touches(r)
<1>1. ASSUME NEW r \in Requests, NEW h \in Handles, Visit(r, h)
      PROVE  \E n : Moves(r, n) /\ Touches(r)
  BY <1>1, VisitMoves DEF Touches
<1>2. ASSUME NEW r \in Requests, NEW op \in {"put", "delete"}, NEW h \in Handles,
             NEW s \in Slugs, NEW a \in Apps, Call(r, op, h, s, a)
      PROVE  \E n : Moves(r, n) /\ Touches(r)
  BY <1>2, CallMoves DEF Touches
<1>3. ASSUME NEW r \in Requests, Step(r)
      PROVE  \E n : Moves(r, n) /\ Touches(r)
  BY <1>3, StepMoves
<1> QED
  BY <1>1, <1>2, <1>3 DEF Next, Outside

LEMMA NextKeepsTables ==
  ASSUME Inv, Next
  PROVE  /\ handle' \in [Publishers -> Handles \cup {None}]
         /\ reserve' \in [Handles -> UsrIds \cup {None}]
         /\ app_status' \in [Apps -> {"active", "off", None}]
         /\ publication' \in [Publishers -> [Slugs -> Row \cup {None}]]
         /\ req' \in [Requests -> Request]
         /\ changes' \in 0..MaxChanges
         /\ HandlesStay /\ Addressed' /\ EntitledOnly' /\ RequestsKnow'
<1>1. CASE Outside
  <2>1. RequestsKnow'
    <3> SUFFICES ASSUME NEW r \in Requests PROVE Knows(req[r])'
      BY DEF RequestsKnow
    <3>1. req'[r] = req[r] /\ req[r] \in Request /\ Knows(req[r])
      BY <1>1, OutsideKeeps DEF Inv, TypeOK, RequestsKnow
    <3>2. HandlesStay
      BY <1>1, OutsideKeeps
    <3> QED
      BY <3>1, <3>2 DEF Knows, HandlesStay, Publishers
  <2>2. EntitledOnly'
    <3>1. /\ publication' = publication /\ publication \in [Publishers -> [Slugs -> Row \cup {None}]]
          /\ HandlesStay /\ EntitledOnly
      BY <1>1, OutsideKeeps DEF Inv, TypeOK
    <3> QED
      BY <3>1 DEF EntitledOnly, MyPublishers, OrgsOf, HandlesStay, Publishers
  <2> QED
    BY <1>1, <2>1, <2>2, OutsideKeeps DEF Inv, TypeOK
<1>2. ASSUME NEW r \in Requests, NEW n, Moves(r, n), Touches(r)
      PROVE  /\ publication' \in [Publishers -> [Slugs -> Row \cup {None}]]
             /\ req' \in [Requests -> Request]
             /\ UNCHANGED <<handle, reserve, app_status, changes>>
             /\ HandlesStay /\ Addressed' /\ EntitledOnly' /\ RequestsKnow'
  <2>1. /\ req' = [req EXCEPT ![r] = n] /\ n \in Request /\ Knows(n)
        /\ UNCHANGED <<handle, reserve, app_status, changes>>
    BY <1>2 DEF Moves, Become
  <2>2. /\ publication' \in [Publishers -> [Slugs -> Row \cup {None}]]
        /\ EntitledOnly'
    <3>1. CASE UNCHANGED publication
      BY <2>1, <3>1 DEF Inv, TypeOK, EntitledOnly, MyPublishers, OrgsOf
    <3>2. CASE req[r].at \in Writing /\ Perform(PendingWrite(r))
      BY <2>1, <3>2, PerformKeeps
    <3> QED
      BY <1>2, <3>1, <3>2 DEF Touches
  <2>3. req' \in [Requests -> Request] /\ RequestsKnow'
    BY <2>1 DEF Inv, TypeOK, RequestsKnow, Knows
  <2>4. HandlesStay /\ Addressed'
    BY <2>1 DEF Inv, HandlesStay, Addressed
  <2> QED
    BY <2>1, <2>2, <2>3, <2>4
<1> QED
  BY <1>1, <1>2, NextSplits DEF Inv, TypeOK

\* The history of the lookups has its type.
LEMMA ObservedTypes ==
  ASSUME Inv, Observed
  PROVE  met' \in [Requests -> [nowhere : BOOLEAN, taken : BOOLEAN, raced : BOOLEAN]]
<1> SUFFICES ASSUME NEW r \in Requests
             PROVE  met'[r] \in [nowhere : BOOLEAN, taken : BOOLEAN, raced : BOOLEAN]
  BY DEF Observed
<1> DEFINE a == /\ req'[r].at \in Resolving
                /\ met[r].nowhere \/ \E h \in Handles : h = req'[r].h /\ ~Leads(h)'
           b == /\ req'[r].at \in Resolving
                /\ met[r].taken \/ \E h \in Handles : h = req'[r].h /\ ~InUse(h) /\ InUse(h)'
           c == /\ req[r].at \in Writing /\ req'[r].at \in Writing
                /\ met[r].raced \/ Taken(r)
<1>1. met'[r] = [nowhere |-> a, taken |-> b, raced |-> c]
  BY DEF Observed
<1>2. a \in BOOLEAN /\ b \in BOOLEAN /\ c \in BOOLEAN
  BY Zenon
<1> HIDE DEF a, b, c
<1> QED
  BY <1>1, <1>2

\* What was seen of a handle stays seen, and what becomes true of it is seen.
LEMMA SeenKept ==
  ASSUME Inv, Next, NEW r \in Requests, Addressed', RequestsKnow'
  PROVE  Seen(r)'
<1>1. Observed /\ Seen(r)
  BY NextSplits DEF Inv
<1>2. req'[r].at \in Resolving => req'[r].h \in Handles
  BY DEF RequestsKnow, Knows
<1>3. ASSUME NEW h \in Handles, req'[r].h = h, req'[r].at \in Resolving
      PROVE  /\ ~Leads(h)' => met'[r].nowhere
             /\ met[r].taken => met'[r].taken
             /\ ~InUse(h) /\ InUse(h)' => met'[r].taken
  <2> DEFINE a == /\ req'[r].at \in Resolving
                  /\ met[r].nowhere \/ \E g \in Handles : g = req'[r].h /\ ~Leads(g)'
             b == /\ req'[r].at \in Resolving
                  /\ met[r].taken \/
                     \E g \in Handles : g = req'[r].h /\ ~InUse(g) /\ InUse(g)'
             c == /\ req[r].at \in Writing /\ req'[r].at \in Writing
                  /\ met[r].raced \/ Taken(r)
  <2>1. met'[r] = [nowhere |-> a, taken |-> b, raced |-> c]
    BY <1>1 DEF Observed
  <2> HIDE DEF c
  <2>2. met'[r].nowhere = a /\ met'[r].taken = b
    BY <2>1
  <2> QED
    BY <1>3, <2>2
<1>4. ASSUME NEW h \in Handles, req'[r].h = h, req'[r].at \in {"reserve", "moved"}, InUse(h)'
      PROVE  met'[r].taken
  <2>1. CASE ~InUse(h)
    BY <1>3, <1>4, <2>1 DEF Resolving
  <2>2. CASE InUse(h)
    <3>1. CASE req'[r] = req[r]
      BY <1>1, <1>3, <1>4, <2>2, <3>1 DEF Seen, Resolving
    <3>2. ASSUME NEW n, Moves(r, n)
          PROVE  met'[r].taken
      <4>1. req'[r] = n /\ LooksOn(req[r], n)
        BY <3>2 DEF Moves, Become, Inv, TypeOK
      <4> QED
        BY <1>1, <1>3, <1>4, <2>2, <4>1 DEF Seen, LooksOn, Resolving
    <3>3. req'[r] = req[r] \/ \E n : Moves(r, n)
      BY NextSplits, OutsideKeeps DEF Moves, Become, Inv, TypeOK
    <3> QED
      BY <3>1, <3>2, <3>3
  <2> QED
    BY <2>1, <2>2
<1>5. ASSUME req'[r].at \in Resolving
      PROVE  ~Leads(req[r].h)' => met'[r].nowhere
  BY <1>2, <1>3, <1>5 DEF Leads, InUse
<1>6. ASSUME req'[r].at \in {"reserve", "moved"}, InUse(req[r].h)'
      PROVE  met'[r].taken
  BY <1>2, <1>4, <1>6 DEF InUse, Resolving
<1> QED
  BY <1>5, <1>6 DEF Seen

(***************************************************************************)
(* The invariant                                                           *)
(***************************************************************************)
LEMMA InitInv == Init => Inv
<1> SUFFICES ASSUME Init PROVE Inv
  OBVIOUS
<1>1. TypeOK
  <2>1. handle \in [Publishers -> Handles \cup {None}]
    BY PublicationsAssumption DEF Init, Publishers
  <2>2. req \in [Requests -> Request]
    BY IdleKnows DEF Init
  <2>3. changes \in 0..MaxChanges
    BY PublicationsAssumption DEF Init
  <2>4. met \in [Requests -> [nowhere : BOOLEAN, taken : BOOLEAN, raced : BOOLEAN]]
    BY DEF Init, Unmet
  <2>5. publication \in [Publishers -> [Slugs -> Row \cup {None}]]
    BY PublicationsAssumption DEF Init
  <2> QED
    BY <2>1, <2>2, <2>3, <2>4, <2>5 DEF Init, TypeOK
<1>2. RequestsKnow
  BY IdleKnows DEF Init, RequestsKnow
<1>3. Addressed
  BY PublicationsAssumption DEF Init, Addressed, Publishers
<1>4. EntitledOnly
  BY DEF Init, EntitledOnly
<1>5. \A r \in Requests : Seen(r)
  BY DEF Init, Seen, Idle, Resolving
<1> QED
  BY <1>1, <1>2, <1>3, <1>4, <1>5 DEF Inv

LEMMA Inductive == Inv /\ [Next]_vars => Inv'
<1> SUFFICES ASSUME Inv, [Next]_vars PROVE Inv'
  OBVIOUS
<1>1. CASE Next
  <2>1. TypeOK'
    BY <1>1, NextKeepsTables, NextSplits, ObservedTypes DEF TypeOK
  <2> QED
    BY <1>1, <2>1, NextKeepsTables, SeenKept DEF Inv
<1>2. CASE UNCHANGED vars
  BY <1>2 DEF Inv, vars, TypeOK, RequestsKnow, Knows, Addressed, EntitledOnly,
              MyPublishers, OrgsOf, Seen, Leads, InUse
<1> QED
  BY <1>1, <1>2

\* It holds always.
THEOREM InvHolds == Spec => []Inv
BY InitInv, Inductive, PTL DEF Spec

\* The tables and the requests have their types.
THEOREM PublicationsTypeOK == Spec => []TypeOK
<1>1. Inv => TypeOK
  BY DEF Inv
<1> QED
  BY <1>1, InvHolds, PTL

\* Entries are there for people to whom their publisher is offered, whatever
\* happened to handles between the check and the write.
THEOREM PublishedByEntitled == Spec => []EntitledOnly
<1>1. Inv => EntitledOnly
  BY DEF Inv
<1> QED
  BY <1>1, InvHolds, PTL

\* Unless the handle is taken, or taken back, while a request looks it up, what the
\* request is told of it was true at some moment of the lookup.
THEOREM LookupsMeetAMoment == Spec => []AnswersMeetAMoment
<1>1. Inv => AnswersMeetAMoment
  <2> SUFFICES ASSUME Inv, NEW r \in Requests
               PROVE  /\ req[r].at = "reserve" /\ reserve[req[r].h] = None =>
                           met[r].nowhere \/ met[r].taken
                      /\ req[r].at = "moved" /\ handle[req[r].publisher] = req[r].h =>
                           met[r].taken
    BY DEF AnswersMeetAMoment
  <2> QED
    BY DEF Inv, RequestsKnow, Knows, Seen, Leads, InUse, Resolving, Publishers
<1> QED
  BY <1>1, InvHolds, PTL

(***************************************************************************)
(* Only with leave: the refinement of PublicationIndex                     *)
(***************************************************************************)
LEMMA LeaveIs ==
  leave = [r \in Requests |-> IF req[r].at \in Writing THEN WriteOf(req[r]) ELSE None]
BY DEF leave, Leave, PendingWrite, WriteOf

LEMMA LeaveWillBe ==
  leave' = [r \in Requests |-> IF req'[r].at \in Writing THEN WriteOf(req'[r]) ELSE None]
BY DEF leave, Leave, PendingWrite, WriteOf

\* The write of a request that writes or comes to write is one of the index.
LEMMA WriteIsWrite ==
  ASSUME NEW q \in Request, Knows(q), q.at \in Writing
  PROVE  WriteOf(q) \in Index!Write /\ WriteOf(q) # None
<1>1. WriteOf(q) \in Index!Write
  BY DEF Index!Write, WriteOf, Request, Knows, Writing, Acting
<1> QED
  BY <1>1, PublicationsAssumption DEF Index!Write

\* A request that moves gains leave, keeps it or loses it, and so does no other.
LEMMA LeaveMoves ==
  ASSUME Inv, NEW r \in Requests, NEW n, Moves(r, n)
  PROVE  /\ leave[r] = IF req[r].at \in Writing THEN WriteOf(req[r]) ELSE None
         /\ leave' = [leave EXCEPT ![r] = IF n.at \in Writing THEN WriteOf(n) ELSE None]
         /\ req[r].at \in Writing <=> leave[r] # None
         /\ (req[r].at \in Writing <=> n.at \in Writing) => leave' = leave
<1>0. req' = [req EXCEPT ![r] = n] /\ req \in [Requests -> Request] /\ Knows(req[r])
  BY DEF Inv, TypeOK, Moves, Become, RequestsKnow
<1>1. req'[r] = n /\ \A x \in Requests \ {r} : req'[x] = req[x]
  BY <1>0
<1>2. leave[r] = IF req[r].at \in Writing THEN WriteOf(req[r]) ELSE None
  BY LeaveIs
<1>3. leave' = [leave EXCEPT ![r] = IF n.at \in Writing THEN WriteOf(n) ELSE None]
  BY <1>1, LeaveIs, LeaveWillBe
<1>4. req[r].at \in Writing /\ n.at \in Writing => WriteOf(n) = WriteOf(req[r])
  BY DEF Moves, ComesToWrite, Writing
<1>5. req[r].at \in Writing => WriteOf(req[r]) # None
  BY <1>0, WriteIsWrite
<1>6. (req[r].at \in Writing <=> n.at \in Writing) => leave' = leave
  BY <1>2, <1>3, <1>4, LeaveIs
<1> QED
  BY <1>2, <1>3, <1>5, <1>6

\* What a write does to the index.
LEMMA PerformIndex ==
  ASSUME Inv, NEW r \in Requests, req[r].at \in Writing, Perform(PendingWrite(r))
  PROVE  index' = [index EXCEPT ![req[r].publisher][req[r].slug] =
                     IF req[r].op = "put" THEN req[r].app ELSE None]
<1> DEFINE p == req[r].publisher
           s == req[r].slug
           row == [app |-> req[r].app, updated_by |-> req[r].actor]
           new == IF req[r].op = "put" THEN row ELSE None
<1>1. p \in Publishers /\ s \in Slugs /\ req[r].app \in Apps /\ req[r].actor \in UsrIds
  BY DEF Inv, RequestsKnow, Knows, Writing, Acting
<1>2. publication' = [publication EXCEPT ![p][s] = new]
  BY DEF Perform, PendingWrite
<1>3. row # None /\ row.app = req[r].app
  BY <1>1, PublicationsAssumption DEF Row
<1>4. publication \in [Publishers -> [Slugs -> Row \cup {None}]]
  BY DEF Inv, TypeOK
<1> HIDE DEF p, s, row
<1>5. \A x \in Publishers, y \in Slugs :
        publication'[x][y] = IF x = p /\ y = s THEN new ELSE publication[x][y]
  BY <1>1, <1>2, <1>4
<1>6. \A x \in Publishers, y \in Slugs :
        (IF publication'[x][y] = None THEN None ELSE publication'[x][y].app)
          = IF x = p /\ y = s THEN (IF req[r].op = "put" THEN req[r].app ELSE None)
            ELSE IF publication[x][y] = None THEN None ELSE publication[x][y].app
  BY <1>3, <1>5
<1>7. index' = [x \in Publishers |-> [y \in Slugs |->
                  IF x = p /\ y = s THEN (IF req[r].op = "put" THEN req[r].app ELSE None)
                  ELSE IF publication[x][y] = None THEN None ELSE publication[x][y].app]]
  BY <1>6 DEF index, AppOf
<1>8. [index EXCEPT ![p][s] = IF req[r].op = "put" THEN req[r].app ELSE None]
        = [x \in Publishers |-> [y \in Slugs |->
             IF x = p /\ y = s THEN (IF req[r].op = "put" THEN req[r].app ELSE None)
             ELSE IF publication[x][y] = None THEN None ELSE publication[x][y].app]]
  BY <1>1 DEF index, AppOf
<1> QED
  BY <1>7, <1>8 DEF p, s

\* A step of a request is a step of the index, or none.
LEMMA MoveRefines ==
  ASSUME Inv, NEW r \in Requests, NEW n, Moves(r, n), Touches(r)
  PROVE  [Index!IndexNext]_<<index, leave>>
<1>0. /\ req[r] \in Request /\ Knows(req[r])
      /\ n \in Request /\ Knows(n) /\ ComesToWrite(req[r], n)
  BY DEF Inv, TypeOK, RequestsKnow, Moves
<1>r. req'[r] = n
  BY DEF Inv, TypeOK, Moves, Become
<1>1. CASE req[r].at \in Writing /\ Perform(PendingWrite(r)) /\ req'[r].at \notin Writing
  <2>1. leave[r] = WriteOf(req[r]) /\ leave[r] # None /\ leave' = [leave EXCEPT ![r] = None]
    BY <1>1, <1>r, LeaveMoves
  <2>2. index' = [index EXCEPT ![leave[r].publisher][leave[r].slug] =
                    IF leave[r].op = "put" THEN leave[r].app ELSE None]
    BY <1>1, <2>1, PerformIndex DEF WriteOf
  <2>3. Index!Perform(r)
    BY <2>1, <2>2 DEF Index!Perform
  <2> QED
    BY <2>3 DEF Index!IndexNext
<1>2. CASE UNCHANGED publication
  <2>0. index' = index
    BY <1>2 DEF index
  <2>1. CASE req[r].at \in Writing /\ n.at \notin Writing
    <3>1. leave[r] # None /\ leave' = [leave EXCEPT ![r] = None]
      BY <2>1, LeaveMoves
    <3> QED
      BY <2>0, <3>1 DEF Index!IndexNext, Index!Forgo
  <2>2. CASE req[r].at \notin Writing /\ n.at \in Writing
    <3> DEFINE w == WriteOf(n)
    <3>1. w \in Index!Write /\ leave[r] = None /\ leave' = [leave EXCEPT ![r] = w]
      BY <1>0, <2>2, LeaveMoves, WriteIsWrite
    <3>2. /\ n.at = "write" /\ w = WriteOf(req[r])
          /\ IF publication[req[r].publisher][req[r].slug] = None THEN req[r].op = "put"
             ELSE publication[req[r].publisher][req[r].slug].app = req[r].app
      BY <1>0, <2>2 DEF ComesToWrite, Writing
    <3>3. /\ w.publisher = req[r].publisher /\ w.slug = req[r].slug
          /\ w.op = req[r].op /\ w.app = req[r].app
      BY <3>2 DEF WriteOf
    <3>4. w.publisher \in Publishers /\ w.slug \in Slugs /\ w.op \in {"put", "delete"}
      BY <3>1 DEF Index!Write
    <3> HIDE DEF w
    <3>5. index[w.publisher][w.slug] = AppOf(publication[w.publisher][w.slug])
      BY <3>4 DEF index
    <3>6. Index!Allowed(w)
      BY <3>2, <3>3, <3>4, <3>5 DEF Index!Allowed, AppOf
    <3> QED
      BY <2>0, <3>1, <3>6 DEF Index!IndexNext, Index!Permit
  <2>3. CASE req[r].at \in Writing <=> n.at \in Writing
    BY <2>0, <2>3, LeaveMoves
  <2> QED
    BY <2>1, <2>2, <2>3
<1> QED
  BY <1>1, <1>2 DEF Touches

\* The index and the writes on their way go through the steps of
\* PublicationIndex: no write without a leave of its own, which it uses up.
THEOREM WritesHaveLeave == Spec => OnlyWithLeave
<1>1. Init => Index!IndexInit
  BY DEF Init, Index!IndexInit, index, FirstIndex, leave, Idle, Writing
<1>2. Inv /\ [Next]_vars => [Index!IndexNext]_<<index, leave>>
  <2>1. ASSUME Inv, Next PROVE [Index!IndexNext]_<<index, leave>>
    <3>1. CASE Outside
      <4>1. UNCHANGED <<publication, req>>
        BY <2>1, <3>1, OutsideKeeps
      <4> QED
        BY <4>1 DEF index, leave, Leave, PendingWrite
    <3>2. CASE \E r \in Requests : \E n : Moves(r, n) /\ Touches(r)
      BY <2>1, <3>2, MoveRefines
    <3> QED
      BY <2>1, <3>1, <3>2, NextSplits
  <2>2. ASSUME UNCHANGED vars PROVE UNCHANGED <<index, leave>>
    BY <2>2 DEF vars, index, leave, Leave, PendingWrite
  <2> QED
    BY <2>1, <2>2
<1> QED
  BY <1>1, <1>2, InvHolds, PTL DEF Spec, OnlyWithLeave, Index!IndexSpec, Index!indexVars

(***************************************************************************)
(* Overwrites, races included                                              *)
(***************************************************************************)
\* What a request has found of the slug still holds when it writes, or another app
\* has come to have the slug since.
RaceSeen ==
  \A r \in Requests :
    req[r].at \in Writing =>
      \/ met[r].raced
      \/ index[req[r].publisher][req[r].slug] \in {None, req[r].app}

\* A request that writes knows what.
LEMMA WriterKnows ==
  ASSUME Inv, NEW r \in Requests, req[r].at \in Writing
  PROVE  /\ req[r].publisher \in Publishers /\ req[r].slug \in Slugs
         /\ req[r].app \in Apps /\ req[r].op \in {"put", "delete"}
BY DEF Inv, TypeOK, RequestsKnow, Knows, Request, Writing, Acting

\* A look at the entry that lets a request go on to write.
LEMMA LookedFree ==
  ASSUME Inv, NEW r \in Requests, NEW n, Moves(r, n),
         req[r].at \notin Writing, n.at \in Writing
  PROVE  index[n.publisher][n.slug] \in {None, n.app}
<1>1. /\ n.at = "write" /\ WriteOf(n) = WriteOf(req[r])
      /\ IF publication[req[r].publisher][req[r].slug] = None THEN req[r].op = "put"
         ELSE publication[req[r].publisher][req[r].slug].app = req[r].app
  BY DEF Moves, ComesToWrite, Writing
<1>2. n.publisher = req[r].publisher /\ n.slug = req[r].slug /\ n.app = req[r].app
  BY <1>1 DEF WriteOf
<1>3. n.publisher \in Publishers /\ n.slug \in Slugs
  BY <1>1 DEF Moves, Knows, Acting
<1> QED
  BY <1>1, <1>2, <1>3 DEF index, AppOf

LEMMA RaceSeenKeeps ==
  ASSUME Inv, RaceSeen, [Next]_vars
  PROVE  RaceSeen'
<1>1. CASE UNCHANGED vars
  BY <1>1 DEF vars, RaceSeen, index
<1>2. CASE Next
  <2> SUFFICES ASSUME NEW x \in Requests, req'[x].at \in Writing
               PROVE  \/ met'[x].raced
                      \/ index'[req'[x].publisher][req'[x].slug] \in {None, req'[x].app}
    BY DEF RaceSeen
  <2>1. CASE req[x].at \in Writing
    <3>1. WriteOf(req'[x]) = WriteOf(req[x])
      <4>1. ASSUME NEW r \in Requests, NEW n, Moves(r, n)
            PROVE  WriteOf(req'[x]) = WriteOf(req[x])
        <5>1. req'[r] = n /\ ComesToWrite(req[r], n) /\ (x # r => req'[x] = req[x])
          BY <4>1 DEF Inv, TypeOK, Moves, Become
        <5> QED
          BY <2>1, <5>1 DEF ComesToWrite, Writing
      <4> QED
        BY <1>2, <4>1, NextSplits, OutsideKeeps
    <3>2. /\ req'[x].publisher = req[x].publisher /\ req'[x].slug = req[x].slug
          /\ req'[x].app = req[x].app
      BY <3>1 DEF WriteOf
    <3>3. met'[x].raced = (met[x].raced \/ Taken(x))
      <4> DEFINE a == /\ req'[x].at \in Resolving
                      /\ met[x].nowhere \/ \E h \in Handles : h = req'[x].h /\ ~Leads(h)'
                 b == /\ req'[x].at \in Resolving
                      /\ met[x].taken \/
                         \E h \in Handles : h = req'[x].h /\ ~InUse(h) /\ InUse(h)'
                 c == /\ req[x].at \in Writing /\ req'[x].at \in Writing
                      /\ met[x].raced \/ Taken(x)
      <4>1. met'[x] = [nowhere |-> a, taken |-> b, raced |-> c]
        BY <1>2, NextSplits DEF Observed
      <4> HIDE DEF a, b
      <4>2. met'[x].raced = c
        BY <4>1
      <4> QED
        BY <2>1, <4>2
    <3>4. req[x].publisher \in Publishers /\ req[x].slug \in Slugs
      BY <2>1, WriterKnows
    <3>5. /\ index[req[x].publisher][req[x].slug] = AppOf(Entry(x))
          /\ index'[req[x].publisher][req[x].slug] = AppOf(Entry(x)')
      BY <3>2, <3>4 DEF index, Entry, AppOf
    <3>6. CASE met[x].raced
      BY <3>3, <3>6
    <3>7. CASE ~met[x].raced
      <4>1. AppOf(Entry(x)) \in {None, req[x].app}
        BY <2>1, <3>5, <3>7 DEF RaceSeen
      <4>2. ~Taken(x) => AppOf(Entry(x)') \in {None, req[x].app}
        BY <4>1 DEF Taken, AppOf
      <4> QED
        BY <3>2, <3>3, <3>5, <4>2
    <3> QED
      BY <3>6, <3>7
  <2>2. CASE req[x].at \notin Writing
    <3>1. PICK n : Moves(x, n) /\ Touches(x)
      <4>1. ASSUME NEW r \in Requests, NEW n, Moves(r, n), x # r PROVE req'[x] = req[x]
        BY <4>1 DEF Inv, TypeOK, Moves, Become
      <4> QED
        BY <1>2, <2>2, <4>1, NextSplits, OutsideKeeps
    <3>2. req'[x] = n /\ UNCHANGED publication
      BY <2>2, <3>1 DEF Inv, TypeOK, Moves, Become, Touches
    <3>3. index' = index
      BY <3>2 DEF index
    <3> QED
      BY <2>2, <3>1, <3>2, <3>3, LookedFree
  <2> QED
    BY <2>1, <2>2
<1> QED
  BY <1>1, <1>2

\* An entry changes hands, or goes, by its own app's delete or by a write that was
\* on its way already when another app came to have the slug: between the check
\* and the write ADR-024's rule can fail, and nowhere else.
THEOREM OverwritesRace == Spec => OverwritesOnlyInRace
<1> DEFINE Own == \A p \in Publishers, s \in Slugs :
       index[p][s] # None /\ index'[p][s] # index[p][s] =>
         \E r \in Requests :
           /\ leave[r] # None /\ leave[r].publisher = p /\ leave[r].slug = s
           /\ leave'[r] = None
           /\ met[r].raced \/ (leave[r].op = "delete" /\ leave[r].app = index[p][s])
<1>1. Init => RaceSeen
  BY DEF Init, RaceSeen, Idle, Writing
<1>2. Inv /\ RaceSeen /\ [Next]_vars => RaceSeen'
  BY RaceSeenKeeps
<1>3. Inv /\ RaceSeen /\ [Next]_vars => [Own]_vars
  <2> SUFFICES ASSUME Inv, RaceSeen, Next, NEW p \in Publishers, NEW s \in Slugs,
                      index[p][s] # None, index'[p][s] # index[p][s]
               PROVE  \E r \in Requests :
                        /\ leave[r] # None /\ leave[r].publisher = p /\ leave[r].slug = s
                        /\ leave'[r] = None
                        /\ \/ met[r].raced
                           \/ leave[r].op = "delete" /\ leave[r].app = index[p][s]
    OBVIOUS
  <2>1. ~UNCHANGED publication
    BY DEF index
  <2>2. PICK r \in Requests : \E n : Moves(r, n) /\ Touches(r)
    BY <2>1, NextSplits, OutsideKeeps
  <2>3. PICK n : Moves(r, n) /\ Touches(r)
    BY <2>2
  <2>4. req'[r] = n /\ req[r].at \in Writing /\ n.at \notin Writing /\ Perform(PendingWrite(r))
    BY <2>1, <2>3 DEF Inv, TypeOK, Moves, Become, Touches
  <2>5. leave[r] = WriteOf(req[r]) /\ leave[r] # None /\ leave'[r] = None
    BY <2>3, <2>4, LeaveMoves, LeaveIs
  <2>6. /\ req[r].publisher \in Publishers /\ req[r].slug \in Slugs
        /\ req[r].op \in {"put", "delete"}
    BY <2>4, WriterKnows
  <2>7. index' = [index EXCEPT ![req[r].publisher][req[r].slug] =
                    IF req[r].op = "put" THEN req[r].app ELSE None]
    BY <2>4, PerformIndex
  <2>8. index \in [Publishers -> [Slugs -> Apps \cup {None}]]
    BY DEF index, AppOf, Inv, TypeOK, Row
  <2>9. req[r].publisher = p /\ req[r].slug = s
    BY <2>6, <2>7, <2>8
  <2>10. met[r].raced \/ index[p][s] = req[r].app
    BY <2>4, <2>9 DEF RaceSeen
  <2>11. index[p][s] = req[r].app => req[r].op = "delete"
    BY <2>6, <2>7, <2>8, <2>9
  <2> QED
    BY <2>5, <2>9, <2>10, <2>11 DEF WriteOf
<1> QED
  BY <1>1, <1>2, <1>3, InvHolds, PTL DEF Spec, OverwritesOnlyInRace

(***************************************************************************)
(* When an app's entries are its own: the binding index                    *)
(***************************************************************************)
\* ADR-024's index: leave to write ends when the slug becomes another's.
OwnIndex == INSTANCE PublicationIndex WITH First <- FirstIndex, Binding <- TRUE

\* Writes of one slug that are under way at once, those held back after a 504
\* included, are one app's.
NoRace ==
  \A q, r \in Requests :
    /\ req[q].at \in Writing /\ req[r].at \in Writing
    /\ req[q].publisher = req[r].publisher /\ req[q].slug = req[r].slug
    => req[q].app = req[r].app

\* What a request has found of the slug still holds when it writes: no other
\* app has it.
StillFree ==
  \A r \in Requests :
    req[r].at \in Writing => index[req[r].publisher][req[r].slug] \in {None, req[r].app}

\* Without a race it holds on: a write can disturb only one of its own app.
LEMMA StillFreeKeeps ==
  ASSUME Inv, NoRace, StillFree, [Next]_vars
  PROVE  StillFree'
<1>1. ASSUME UNCHANGED <<publication, req>>
      PROVE  StillFree'
  BY <1>1 DEF StillFree, index
<1>2. ASSUME NEW r \in Requests, NEW n, Moves(r, n), Touches(r)
      PROVE  StillFree'
  <2> SUFFICES ASSUME NEW x \in Requests, req'[x].at \in Writing
               PROVE  index'[req'[x].publisher][req'[x].slug] \in {None, req'[x].app}
    BY DEF StillFree
  <2>0. req'[r] = n /\ \A y \in Requests \ {r} : req'[y] = req[y]
    BY <1>2 DEF Inv, TypeOK, Moves, Become
  <2>1. /\ req'[x].publisher \in Publishers /\ req'[x].slug \in Slugs
        /\ req[x].at \in Writing =>
             WriteOf(req'[x]) = WriteOf(req[x])
        /\ index[req'[x].publisher][req'[x].slug] \in {None, req'[x].app}
    <3>1. CASE x # r
      BY <2>0, <3>1, WriterKnows DEF StillFree
    <3>2. CASE x = r /\ req[r].at \notin Writing
      BY <1>2, <2>0, <3>2, LookedFree DEF Moves, Knows, Acting, Writing, ComesToWrite
    <3>3. CASE x = r /\ req[r].at \in Writing
      <4>1. WriteOf(n) = WriteOf(req[r])
        BY <1>2, <2>0, <3>3 DEF Moves, ComesToWrite, Writing
      <4>2. n.publisher = req[r].publisher /\ n.slug = req[r].slug /\ n.app = req[r].app
        BY <4>1 DEF WriteOf
      <4> QED
        BY <2>0, <3>3, <4>1, <4>2, WriterKnows DEF StillFree
    <3> QED
      BY <3>1, <3>2, <3>3
  <2>2. CASE UNCHANGED publication
    BY <2>1, <2>2 DEF index
  <2>3. CASE req[r].at \in Writing /\ Perform(PendingWrite(r))
    <3>1. index' = [index EXCEPT ![req[r].publisher][req[r].slug] =
                      IF req[r].op = "put" THEN req[r].app ELSE None]
      BY <2>3, PerformIndex
    <3>2. /\ req[r].publisher \in Publishers /\ req[r].slug \in Slugs
      BY <2>3, WriterKnows
    <3>3. index \in [Publishers -> [Slugs -> Apps \cup {None}]]
      BY DEF index, AppOf, Inv, TypeOK, Row
    <3>4. CASE req'[x].publisher = req[r].publisher /\ req'[x].slug = req[r].slug
      <4>1. req[x].at \in Writing
        BY <1>2, <2>0, <2>3 DEF Moves
      <4>2. WriteOf(req'[x]) = WriteOf(req[x])
        BY <2>1, <4>1
      <4>3. /\ req'[x].publisher = req[x].publisher /\ req'[x].slug = req[x].slug
            /\ req'[x].app = req[x].app
        BY <4>2 DEF WriteOf
      <4>4. req[x].app = req[r].app
        BY <2>3, <3>4, <4>1, <4>3 DEF NoRace
      <4> QED
        BY <3>1, <3>2, <3>3, <3>4, <4>3, <4>4
    <3>5. CASE ~(req'[x].publisher = req[r].publisher /\ req'[x].slug = req[r].slug)
      BY <2>1, <3>1, <3>2, <3>3, <3>5
    <3> QED
      BY <3>4, <3>5
  <2> QED
    BY <1>2, <2>2, <2>3 DEF Touches
<1>3. CASE Next
  BY <1>1, <1>2, <1>3, NextSplits, OutsideKeeps
<1>4. CASE UNCHANGED vars
  BY <1>1, <1>4 DEF vars
<1> QED
  BY <1>3, <1>4

\* Then a request's step is one of the binding index: what it writes it may
\* write still; what it removes is its app's, or gone already.
LEMMA MoveBinds ==
  ASSUME Inv, StillFree, NEW r \in Requests, NEW n, Moves(r, n), Touches(r)
  PROVE  [OwnIndex!IndexNext]_<<index, leave>>
<1>1. CASE UNCHANGED publication
  <2>1. index' = index
    BY <1>1 DEF index
  <2>2. [Index!IndexNext]_<<index, leave>>
    BY MoveRefines
  <2>3. ASSUME NEW q \in Requests, NEW w \in Index!Write, Index!Permit(q, w)
        PROVE  OwnIndex!IndexNext
    BY <2>3 DEF Index!Write, OwnIndex!Write, Index!Permit, OwnIndex!Permit, Index!Allowed,
                OwnIndex!Allowed, OwnIndex!IndexNext
  <2>4. ASSUME NEW q \in Requests, Index!Perform(q) \/ Index!Forgo(q)
        PROVE  OwnIndex!IndexNext
    BY <2>1, <2>4 DEF Index!Perform, Index!Forgo, OwnIndex!Forgo, OwnIndex!IndexNext
  <2> QED
    BY <2>2, <2>3, <2>4 DEF Index!IndexNext
<1>2. CASE req[r].at \in Writing /\ Perform(PendingWrite(r)) /\ req'[r].at \notin Writing
  <2> DEFINE w == WriteOf(req[r])
  <2>1. leave[r] = w /\ leave[r] # None /\ leave' = [leave EXCEPT ![r] = None]
    BY <1>2, LeaveMoves DEF Inv, TypeOK, Moves, Become
  <2>2. w.op \in {"put", "delete"} /\ w.publisher \in Publishers /\ w.slug \in Slugs
    BY <1>2, WriterKnows DEF WriteOf
  <2>3. index' = [index EXCEPT ![w.publisher][w.slug] = IF w.op = "put" THEN w.app ELSE None]
    BY <1>2, PerformIndex DEF WriteOf
  <2>4. index[w.publisher][w.slug] \in {None, w.app}
    BY <1>2 DEF StillFree, WriteOf
  <2>5. index \in [Publishers -> [Slugs -> Apps \cup {None}]]
    BY DEF index, AppOf, Inv, TypeOK, Row
  <2> HIDE DEF w
  <2>6. CASE w.op = "put" \/ index[w.publisher][w.slug] = w.app
    <3>1. OwnIndex!Allowed(leave[r])
      BY <2>1, <2>2, <2>4, <2>6 DEF OwnIndex!Allowed
    <3> QED
      BY <2>1, <2>3, <3>1 DEF OwnIndex!Perform, OwnIndex!IndexNext
  <2>7. CASE w.op = "delete" /\ index[w.publisher][w.slug] = None
    <3>1. index' = index
      BY <2>2, <2>3, <2>5, <2>7
    <3> QED
      BY <2>1, <3>1 DEF OwnIndex!Forgo, OwnIndex!IndexNext
  <2> QED
    BY <2>2, <2>4, <2>6, <2>7
<1> QED
  BY <1>1, <1>2 DEF Touches

LEMMA NextBinds ==
  ASSUME Inv, StillFree, [Next]_vars
  PROVE  [OwnIndex!IndexNext]_<<index, leave>>
<1>1. CASE Outside
  <2>1. UNCHANGED <<publication, req>>
    BY <1>1, OutsideKeeps
  <2> QED
    BY <2>1 DEF index, leave, Leave, PendingWrite
<1>2. CASE \E r \in Requests : \E n : Moves(r, n) /\ Touches(r)
  BY <1>2, MoveBinds
<1>3. CASE UNCHANGED vars
  BY <1>3 DEF vars, index, leave, Leave, PendingWrite
<1> QED
  BY <1>1, <1>2, <1>3, NextSplits

LEMMA StillFreeFirst == Init => StillFree
BY DEF Init, StillFree, Idle, Writing

\* An app writes and removes entries of its own only, however long its writes
\* are on their way, as long as no two apps write one slug at once: a check and
\* a write that are two calls need no more than that.
THEOREM WithoutRaceEntriesAreOwn == Spec /\ []NoRace => OwnIndex!IndexSpec
<1>1. Init => OwnIndex!IndexInit
  BY DEF Init, OwnIndex!IndexInit, index, FirstIndex, leave, Idle, Writing
<1>2. Inv /\ NoRace /\ StillFree /\ [Next]_vars => StillFree'
  BY StillFreeKeeps
<1>3. Inv /\ StillFree /\ [Next]_vars => [OwnIndex!IndexNext]_<<index, leave>>
  BY NextBinds
<1> QED
  BY <1>1, <1>2, <1>3, StillFreeFirst, InvHolds, PTL
     DEF Spec, OwnIndex!IndexSpec, OwnIndex!indexVars

\* An entry leaves its app's hands only when the app itself removes it.
Kept ==
  \A p \in Publishers, s \in Slugs :
    index[p][s] # None /\ index'[p][s] # index[p][s] =>
      /\ index'[p][s] = None
      /\ \E r \in Requests :
           /\ req[r].at \in Writing /\ req[r].op = "delete"
           /\ req[r].publisher = p /\ req[r].slug = s /\ req[r].app = index[p][s]

\* So no entry passes from one app to another, and none is removed but by a
\* request of the app that has it.
THEOREM WithoutRaceEntriesAreKept == Spec /\ []NoRace => [][Kept]_vars
<1>1. Inv /\ NoRace /\ StillFree /\ [Next]_vars => StillFree'
  BY StillFreeKeeps
<1>2. Inv /\ StillFree /\ [Next]_vars => [Kept]_vars
  <2> SUFFICES ASSUME Inv, StillFree, Next, NEW p \in Publishers, NEW s \in Slugs,
                      index[p][s] # None, index'[p][s] # index[p][s]
               PROVE  /\ index'[p][s] = None
                      /\ \E r \in Requests :
                           /\ req[r].at \in Writing /\ req[r].op = "delete"
                           /\ req[r].publisher = p /\ req[r].slug = s
                           /\ req[r].app = index[p][s]
    BY DEF Kept
  <2>1. ~UNCHANGED publication
    BY DEF index
  <2>2. PICK r \in Requests : req[r].at \in Writing /\ Perform(PendingWrite(r))
    BY <2>1, NextSplits, OutsideKeeps DEF Touches
  <2>3. /\ req[r].publisher \in Publishers /\ req[r].slug \in Slugs
        /\ req[r].op \in {"put", "delete"}
    BY <2>2, WriterKnows
  <2>4. index' = [index EXCEPT ![req[r].publisher][req[r].slug] =
                    IF req[r].op = "put" THEN req[r].app ELSE None]
    BY <2>2, PerformIndex
  <2>5. index \in [Publishers -> [Slugs -> Apps \cup {None}]]
    BY DEF index, AppOf, Inv, TypeOK, Row
  <2>6. req[r].publisher = p /\ req[r].slug = s
    BY <2>3, <2>4, <2>5
  <2>7. index[p][s] = req[r].app
    BY <2>2, <2>6 DEF StillFree
  <2>8. req[r].op = "delete" /\ index'[p][s] = None
    BY <2>3, <2>4, <2>5, <2>6, <2>7
  <2> QED
    BY <2>2, <2>6, <2>7, <2>8
<1> QED
  BY <1>1, <1>2, StillFreeFirst, InvHolds, PTL DEF Spec

\* One request at a time, what it left behind included, has no race.
THEOREM AloneEntriesAreOwn == (\A q, r \in Requests : q = r) => (Spec => OwnIndex!IndexSpec)
<1> SUFFICES ASSUME \A q, r \in Requests : q = r PROVE Spec => OwnIndex!IndexSpec
  OBVIOUS
<1>1. Inv => NoRace
  BY DEF NoRace
<1> QED
  BY <1>1, InvHolds, WithoutRaceEntriesAreOwn, PTL
=============================================================================
