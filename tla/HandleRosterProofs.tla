------------------------- MODULE HandleRosterProofs ------------------------
(***************************************************************************)
(* Proofs about the roster, for every number of people, handles, requests  *)
(* in flight, late writes and retries: its tables stay in order, every     *)
(* request keeps working on rows that are there, and the roster keeps the  *)
(* promise of the address book.                                            *)
(***************************************************************************)
EXTENDS HandleRoster, FiniteSetTheorems, TLAPS

(***************************************************************************)
(* The inductive invariant                                                 *)
(***************************************************************************)
TablesTyped ==
  /\ creo_sub \in [UsrIds -> Subs \cup {None}]
  /\ handle \in [UsrIds -> Handles \cup {None}]
  /\ handle_changed_at \in [UsrIds -> Nat \cup {None}]
  /\ reserve \in [Handles -> Reserve \cup {None}]
  /\ now \in Nat

OneRowPerSub ==
  \A u, v \in UsrIds : creo_sub[u] = creo_sub[v] /\ creo_sub[u] # None => u = v

RenamedHasHandle ==
  \A u \in UsrIds : handle_changed_at[u] # None => handle[u] # None

TablesOK ==
  /\ TablesTyped
  /\ OneRowPerSub
  /\ HandlesDistinct
  /\ ReservesFollow
  /\ RenamedHasHandle

\* What a request has learnt stays true until it is answered.  The last
\* conjunct is why a committed rename is always seen by the read after it:
\* the cooldown that the commit started outlasts the request.
RequestOK(r) ==
  /\ req[r] \in Request
  /\ req[r].outcome # "lost_row"
  /\ req[r].at = "idle" => req[r].usr = None
  /\ req[r].at # "idle" =>
       /\ req[r].sub \in Subs
       /\ req[r].born <= now /\ now <= req[r].born + MaxSpan
       /\ req[r].op = "claim" => req[r].want \in Handles
  /\ req[r].usr # None => creo_sub[req[r].usr] = req[r].sub
  /\ req[r].at = "ensure_reget" => \E u \in UsrIds : creo_sub[u] = req[r].sub
  /\ req[r].at \in ClaimSteps \cup RenameSteps =>
       req[r].usr \in UsrIds /\ req[r].want \in Handles
  /\ req[r].at \in RenameSteps => req[r].old \in Handles
  /\ req[r].at = "rename_reread" =>
       /\ handle[req[r].usr] = req[r].want
       /\ handle_changed_at[req[r].usr] \in Nat
       /\ req[r].born <= handle_changed_at[req[r].usr]

LateOK(w) ==
  /\ w \in LateWrite
  /\ w.kind \in {"claim", "rename"} => creo_sub[w.usr] # None

IInv ==
  /\ TablesOK
  /\ req \in [Requests -> Request]
  /\ \A r \in Requests : RequestOK(r)
  /\ \A w \in late : LateOK(w)

(***************************************************************************)
(* The tables                                                              *)
(***************************************************************************)

\* What the other requests rely on while one of them writes: a row keeps its
\* subject, and a user who is cooling down keeps handle and rename time.
Persist ==
  /\ \A u \in UsrIds : creo_sub[u] # None => creo_sub'[u] = creo_sub[u]
  /\ \A u \in UsrIds : CoolingDown(u) =>
       handle'[u] = handle[u] /\ handle_changed_at'[u] = handle_changed_at[u]

\* A CREATE, refused by the index or not, leaves the tables in order.
LEMMA CreateKeeps ==
  ASSUME NEW s \in Subs, TablesOK, CreateUser(s), now' = now
  PROVE  TablesOK' /\ Persist
<1> USE RosterAssumption DEF TablesOK
<1>1. CASE UNCHANGED tables
  BY <1>1 DEF tables, TablesTyped, OneRowPerSub, HandlesDistinct, ReservesFollow,
                  RenamedHasHandle, Persist
<1>2. CASE ~UNCHANGED tables
  <2>1. PICK u \in UsrIds : creo_sub[u] = None /\ creo_sub' = [creo_sub EXCEPT ![u] = s]
    BY <1>2 DEF CreateUser
  <2>2. UNCHANGED <<handle, handle_changed_at, reserve>> /\ ~SubTaken(s)
    BY <1>2 DEF CreateUser
  <2>3. TablesTyped'
    BY <2>1, <2>2 DEF TablesTyped
  <2>4. OneRowPerSub'
    BY <2>1, <2>2 DEF OneRowPerSub, TablesTyped, SubTaken, UserOf
  <2>5. HandlesDistinct'
    BY <2>1, <2>2 DEF HandlesDistinct, TablesTyped
  <2>6. ReservesFollow'
    BY <2>2 DEF ReservesFollow
  <2>7. RenamedHasHandle'
    BY <2>2 DEF RenamedHasHandle
  <2>8. Persist
    BY <2>1, <2>2 DEF Persist, TablesTyped
  <2> QED
    BY <2>3, <2>4, <2>5, <2>6, <2>7, <2>8
<1> QED
  BY <1>1, <1>2

\* So does the UPDATE of a claim, whenever it lands.
LEMMA ClaimKeeps ==
  ASSUME NEW u \in UsrIds, NEW h \in Handles, creo_sub[u] # None,
         TablesOK, ClaimWrite(u, h), now' = now
  PROVE  TablesOK' /\ Persist
<1> USE RosterAssumption DEF TablesOK
<1>1. CASE UNCHANGED tables
  BY <1>1 DEF tables, TablesTyped, OneRowPerSub, HandlesDistinct, ReservesFollow,
                  RenamedHasHandle, Persist
<1>2. CASE ~UNCHANGED tables
  <2>1. /\ handle[u] = None /\ ~InUse(h)
        /\ handle' = [handle EXCEPT ![u] = h]
        /\ UNCHANGED <<creo_sub, handle_changed_at, reserve>>
    BY <1>2 DEF ClaimWrite, ClaimMatches
  <2>2. TablesTyped'
    BY <2>1 DEF TablesTyped
  <2>3. OneRowPerSub'
    BY <2>1 DEF OneRowPerSub
  <2>4. HandlesDistinct'
    BY <2>1 DEF HandlesDistinct, TablesTyped, InUse
  <2>5. ReservesFollow'
    BY <2>1 DEF ReservesFollow, TablesTyped, Reserve
  <2>6. RenamedHasHandle'
    BY <2>1 DEF RenamedHasHandle, TablesTyped
  <2>7. Persist
    BY <2>1 DEF Persist, TablesTyped, CoolingDown, RenamedHasHandle
  <2> QED
    BY <2>2, <2>3, <2>4, <2>5, <2>6, <2>7
<1> QED
  BY <1>1, <1>2

\* The two comparisons of the cooldown exclude each other, boundary included.
LEMMA CooldownsAgree ==
  ASSUME NEW u \in UsrIds, NEW old, TablesOK, RenameMatches(u, old)
  PROVE  handle[u] = old /\ ~CoolingDown(u)
<1>1. /\ now \in Nat /\ handle_changed_at[u] \in Nat \cup {None}
      /\ Cooldown \in Nat
  BY RosterAssumption DEF TablesOK, TablesTyped
<1> QED
  BY <1>1, RosterAssumption DEF RenameMatches, CoolingDown

\* So does the transaction of a rename, committed or aborted.
LEMMA RenameKeeps ==
  ASSUME NEW u \in UsrIds, NEW old \in Handles, NEW new \in Handles,
         TablesOK, RenameCommits(u, old, new), now' = now
  PROVE  TablesOK' /\ Persist
<1> USE RosterAssumption DEF TablesOK
<1>1. /\ handle[u] = old /\ ~CoolingDown(u) /\ ~InUse(new)
      /\ handle' = [handle EXCEPT ![u] = new]
      /\ handle_changed_at' = [handle_changed_at EXCEPT ![u] = now]
      /\ reserve' = ReserveAfterRename(u, old, new)
      /\ creo_sub' = creo_sub
  BY CooldownsAgree DEF RenameCommits
<1>2. old # new
  BY <1>1 DEF InUse
<1>3. TablesTyped'
  <2>1. [usr_id |-> u, new_handle |-> new, expires_at |-> now + ReserveFor] \in Reserve
    BY DEF Reserve, TablesTyped
  <2>2. reserve' \in [Handles -> Reserve \cup {None}]
    BY <1>1, <2>1 DEF ReserveAfterRename, TablesTyped
  <2> QED
    BY <1>1, <2>2 DEF TablesTyped
<1>4. OneRowPerSub'
  BY <1>1 DEF OneRowPerSub
<1>5. HandlesDistinct'
  BY <1>1 DEF HandlesDistinct, TablesTyped, InUse
<1>6. RenamedHasHandle'
  BY <1>1 DEF RenamedHasHandle, TablesTyped
<1>7. Persist
  BY <1>1 DEF Persist, TablesTyped
<1>8. ReservesFollow'
  <2>1. /\ reserve'[old].usr_id = u
        /\ reserve'[old].new_handle = new
        /\ reserve'[old].expires_at = now + ReserveFor
    BY <1>1 DEF ReserveAfterRename
  <2>2. \A h \in Handles \ {old} : reserve'[h] # None =>
          reserve'[h] = reserve[h] /\ reserve[h].usr_id # u
    BY <1>1 DEF ReserveAfterRename
  <2>3. handle'[u] = new /\ handle_changed_at'[u] = now /\ now \in Nat /\ now' = now
    BY <1>1 DEF TablesTyped
  <2>4. SUFFICES ASSUME NEW h \in Handles, reserve'[h] # None
                 PROVE  /\ handle'[reserve'[h].usr_id] = reserve'[h].new_handle
                        /\ handle'[reserve'[h].usr_id] # h
                        /\ handle_changed_at'[reserve'[h].usr_id] # None
                        /\ handle_changed_at'[reserve'[h].usr_id] <= now'
                        /\ reserve'[h].expires_at
                             = handle_changed_at'[reserve'[h].usr_id] + ReserveFor
                        /\ \A g \in Handles \ {h} : reserve'[g] # None =>
                             reserve'[g].usr_id # reserve'[h].usr_id
    BY DEF ReservesFollow
  <2>5. CASE h = old
    BY <1>2, <2>1, <2>2, <2>3, <2>5
  <2>6. CASE h # old
    <3>1. reserve'[h] = reserve[h] /\ reserve[h].usr_id # u /\ reserve[h].usr_id \in UsrIds
      BY <2>2, <2>4, <2>6 DEF TablesTyped, Reserve
    <3>2. /\ handle'[reserve[h].usr_id] = handle[reserve[h].usr_id]
          /\ handle_changed_at'[reserve[h].usr_id] = handle_changed_at[reserve[h].usr_id]
      BY <1>1, <3>1 DEF TablesTyped
    <3>3. \A g \in Handles \ {h} : reserve'[g] # None =>
            reserve'[g].usr_id # reserve[h].usr_id
      BY <2>1, <2>2, <2>4, <3>1 DEF ReservesFollow
    <3> QED
      BY <2>3, <2>4, <3>1, <3>2, <3>3 DEF ReservesFollow
  <2> QED
    BY <2>5, <2>6
<1> QED
  BY <1>3, <1>4, <1>5, <1>6, <1>7, <1>8

(***************************************************************************)
(* The requests                                                            *)
(***************************************************************************)

\* A request that stands still keeps what it knows while others write.
LEMMA OthersPersist ==
  ASSUME NEW q \in Requests, TablesOK, RequestOK(q), Persist,
         now' = now, req'[q] = req[q]
  PROVE  RequestOK(q)'
<1> USE RosterAssumption
<1>1. req[q].usr # None => req[q].usr \in UsrIds /\ req[q].sub \in Subs
  BY DEF RequestOK, Request
<1>2. req[q].usr # None => creo_sub'[req[q].usr] = req[q].sub
  BY <1>1 DEF RequestOK, Persist
<1>3. req[q].at = "ensure_reget" => \E u \in UsrIds : creo_sub'[u] = req[q].sub
  BY DEF RequestOK, Persist
<1>4. req[q].at = "rename_reread" =>
        /\ handle'[req[q].usr] = req[q].want
        /\ handle_changed_at'[req[q].usr] \in Nat
        /\ req[q].born <= handle_changed_at'[req[q].usr]
  <2> SUFFICES ASSUME req[q].at = "rename_reread"
               PROVE  /\ handle'[req[q].usr] = req[q].want
                      /\ handle_changed_at'[req[q].usr] \in Nat
                      /\ req[q].born <= handle_changed_at'[req[q].usr]
    OBVIOUS
  <2>1. req[q].usr \in UsrIds
    BY DEF RequestOK, RenameSteps
  <2>2. CoolingDown(req[q].usr)
    BY DEF CoolingDown, RequestOK, TablesOK, TablesTyped, Request
  <2> QED
    BY <2>1, <2>2 DEF Persist, RequestOK
<1> QED
  BY <1>2, <1>3, <1>4 DEF RequestOK

\* The slot of an answered request, whatever the answer but "lost_row".
LEMMA AnsweredOK ==
  ASSUME NEW r \in Requests, NEW out \in Outcomes, out # "lost_row",
         req \in [Requests -> Request], Answer(r, out)
  PROVE  RequestOK(r)'
<1>1. req'[r] = [Idle EXCEPT !.outcome = out]
  BY DEF Answer
<1>2. req'[r] \in Request
  BY <1>1, RosterAssumption DEF Request, Idle, Outcomes
<1> QED
  BY <1>1, <1>2, RosterAssumption
  DEF RequestOK, Idle, ClaimSteps, RenameSteps

\* The fields a step may change keep a request well typed.
LEMMA RequestUpdate ==
  ASSUME NEW y \in Request,
         NEW step \in EnsureSteps \cup ClaimSteps \cup RenameSteps,
         NEW u \in UsrIds \cup {None}, NEW old \in Handles \cup {None},
         NEW n \in 1..Attempts
  PROVE  [y EXCEPT !.at = step, !.usr = u, !.old = old, !.attempt = n] \in Request
<1> DEFINE At == EnsureSteps \cup ClaimSteps \cup RenameSteps \cup {"idle"}
<1>1. step \in At
  OBVIOUS
<1> HIDE DEF At
<1>2. Request =
        [at : At, op : {"me", "claim"}, sub : Subs \cup {None},
         want : Handles \cup {None}, usr : UsrIds \cup {None},
         old : Handles \cup {None}, attempt : 1..Attempts, born : Nat,
         outcome : Outcomes \cup {None}]
  BY DEF Request, At
<1> QED
  BY <1>1, <1>2

\* A request that goes on, to a step whose needs are met.
LEMMA GoesOnOK ==
  ASSUME NEW r \in Requests,
         NEW step \in EnsureSteps \cup ClaimSteps \cup RenameSteps,
         NEW u \in UsrIds \cup {None}, NEW old \in Handles \cup {None},
         NEW n \in 1..Attempts,
         req \in [Requests -> Request], RequestOK(r), Live(r), now' = now,
         GoOn(r, step, u, old, n),
         u # None => creo_sub'[u] = req[r].sub,
         step = "ensure_reget" => \E v \in UsrIds : creo_sub'[v] = req[r].sub,
         step \in ClaimSteps \cup RenameSteps => u # None /\ req[r].want \in Handles,
         step \in RenameSteps => old # None,
         step = "rename_reread" =>
           /\ handle'[u] = req[r].want
           /\ handle_changed_at'[u] \in Nat
           /\ req[r].born <= handle_changed_at'[u]
  PROVE  RequestOK(r)'
<1> DEFINE x == req'[r]
<1>1. x = [req[r] EXCEPT !.at = step, !.usr = u, !.old = old, !.attempt = n]
  BY DEF GoOn
<1>2. /\ x.at = step /\ x.usr = u /\ x.old = old /\ x.sub = req[r].sub
      /\ x.want = req[r].want /\ x.op = req[r].op /\ x.born = req[r].born
      /\ x.outcome = req[r].outcome
  BY <1>1 DEF Request
<1>3. x \in Request
  <2>1. req[r] \in Request
    OBVIOUS
  <2>2. [req[r] EXCEPT !.at = step, !.usr = u, !.old = old, !.attempt = n] \in Request
    BY <2>1, RequestUpdate
  <2> QED
    BY <1>1, <2>2
<1>4. step # "idle"
  BY DEF EnsureSteps, ClaimSteps, RenameSteps
<1> HIDE DEF x
<1>5. /\ x.sub \in Subs
      /\ x.born <= now' /\ now' <= x.born + MaxSpan
      /\ x.op = "claim" => x.want \in Handles
      /\ x.outcome # "lost_row"
  BY <1>2 DEF RequestOK, Live
<1>6. /\ x.at # "idle"
      /\ x.usr # None => creo_sub'[x.usr] = x.sub
      /\ x.at = "ensure_reget" => \E v \in UsrIds : creo_sub'[v] = x.sub
      /\ x.at \in ClaimSteps \cup RenameSteps => x.usr \in UsrIds /\ x.want \in Handles
      /\ x.at \in RenameSteps => x.old \in Handles
  BY <1>2, <1>4
<1>7. x.at = "rename_reread" =>
        /\ handle'[x.usr] = x.want
        /\ handle_changed_at'[x.usr] \in Nat
        /\ x.born <= handle_changed_at'[x.usr]
  BY <1>2
<1> QED
  BY <1>3, <1>5, <1>6, <1>7 DEF RequestOK, x

\* One request moves, the tables stay in order: the invariant is kept.
LEMMA Frame ==
  ASSUME IInv, NEW r \in Requests, NEW x, req' = [req EXCEPT ![r] = x],
         TablesOK', Persist, now' = now, late' = late, RequestOK(r)'
  PROVE  IInv'
<1>1. req' \in [Requests -> Request]
  BY DEF IInv, RequestOK
<1>2. \A q \in Requests : RequestOK(q)'
  <2> SUFFICES ASSUME NEW q \in Requests PROVE RequestOK(q)'
    OBVIOUS
  <2>1. CASE q = r
    BY <2>1
  <2>2. CASE q # r
    BY <2>2, OthersPersist DEF IInv
  <2> QED
    BY <2>1, <2>2
<1>3. \A w \in late' : LateOK(w)'
  BY RosterAssumption DEF IInv, LateOK, LateWrite, Persist
<1> QED
  BY <1>1, <1>2, <1>3 DEF IInv

\* Tables nobody writes stay in order.
LEMMA TablesStand ==
  ASSUME TablesOK, UNCHANGED tables, now' = now
  PROVE  TablesOK' /\ Persist
BY DEF tables, TablesOK, TablesTyped, OneRowPerSub, HandlesDistinct, ReservesFollow,
       RenamedHasHandle, Persist

\* What a request that goes on or answers needs, in one place.
LEMMA Moves ==
  ASSUME IInv, NEW r \in Requests, Live(r),
         TablesOK', Persist, now' = now, late' = late,
         \/ \E out \in Outcomes \ {"lost_row"} : Answer(r, out)
         \/ \E step \in EnsureSteps \cup ClaimSteps \cup RenameSteps,
               u \in UsrIds \cup {None}, old \in Handles \cup {None}, n \in 1..Attempts :
              /\ GoOn(r, step, u, old, n)
              /\ u # None => creo_sub'[u] = req[r].sub
              /\ step = "ensure_reget" =>
                   \E v \in UsrIds : creo_sub'[v] = req[r].sub
              /\ step \in ClaimSteps \cup RenameSteps =>
                   u # None /\ req[r].want \in Handles
              /\ step \in RenameSteps => old # None
              /\ step = "rename_reread" =>
                   /\ handle'[u] = req[r].want
                   /\ handle_changed_at'[u] \in Nat
                   /\ req[r].born <= handle_changed_at'[u]
  PROVE  IInv'
<1>1. CASE \E out \in Outcomes \ {"lost_row"} : Answer(r, out)
  <2>1. PICK out \in Outcomes \ {"lost_row"} : Answer(r, out)
    BY <1>1
  <2>2. RequestOK(r)'
    BY <2>1, AnsweredOK DEF IInv
  <2> QED
    BY <2>1, <2>2, Frame DEF Answer
<1>2. CASE ~ \E out \in Outcomes \ {"lost_row"} : Answer(r, out)
  <2>1. PICK step \in EnsureSteps \cup ClaimSteps \cup RenameSteps,
             u \in UsrIds \cup {None}, old \in Handles \cup {None}, n \in 1..Attempts :
              /\ GoOn(r, step, u, old, n)
              /\ u # None => creo_sub'[u] = req[r].sub
              /\ step = "ensure_reget" =>
                   \E v \in UsrIds : creo_sub'[v] = req[r].sub
              /\ step \in ClaimSteps \cup RenameSteps =>
                   u # None /\ req[r].want \in Handles
              /\ step \in RenameSteps => old # None
              /\ step = "rename_reread" =>
                   /\ handle'[u] = req[r].want
                   /\ handle_changed_at'[u] \in Nat
                   /\ req[r].born <= handle_changed_at'[u]
    BY <1>2
  <2>2. RequestOK(r)'
    BY <2>1, GoesOnOK DEF IInv
  <2>3. req' = [req EXCEPT ![r] = [req[r] EXCEPT !.at = step, !.usr = u, !.old = old,
                                                 !.attempt = n]]
    BY <2>1 DEF GoOn, IInv
  <2> QED
    BY <2>2, <2>3, Frame
<1> QED
  BY <1>1, <1>2

\* The read-only continuation of ensure_user.
LEMMA WithRowKeeps ==
  ASSUME IInv, NEW r \in Requests, req[r].at \in EnsureSteps,
         NEW u \in UserOf(req[r].sub), WithRow(r, u),
         UNCHANGED <<tables, now, late>>
  PROVE  IInv'
<1> USE RosterAssumption
<1>1. TablesOK' /\ Persist
  BY TablesStand DEF IInv, tables
<1>2. /\ Live(r) /\ now' = now /\ late' = late /\ creo_sub' = creo_sub
      /\ req[r] \in Request /\ RequestOK(r) /\ u \in UsrIds /\ creo_sub[u] = req[r].sub
      /\ handle[u] \in Handles \cup {None} /\ u # None
      /\ 1 \in 1..Attempts
  BY DEF IInv, tables, Live, EnsureSteps, UserOf, TablesOK, TablesTyped
<1>3. CASE Answer(r, "ok")
  BY <1>1, <1>2, <1>3, Moves DEF Outcomes
<1>4. CASE req[r].op = "claim" /\ GoOn(r, "claim_lookup", u, None, 1)
  <2>1. req[r].want \in Handles
    BY <1>2, <1>4 DEF RequestOK, Live
  <2>2. /\ "claim_lookup" \in ClaimSteps /\ "claim_lookup" \notin RenameSteps
    BY DEF ClaimSteps, RenameSteps
  <2> QED
    BY <1>1, <1>2, <1>4, <2>1, <2>2, Moves
<1>5. CASE /\ req[r].op = "claim" /\ handle[u] # None
           /\ GoOn(r, "rename_cooldown", u, handle[u], 1)
  <2>1. req[r].want \in Handles
    BY <1>2, <1>5 DEF RequestOK, Live
  <2>2. "rename_cooldown" \in RenameSteps
    BY DEF RenameSteps
  <2> QED
    BY <1>1, <1>2, <1>5, <2>1, <2>2, Moves
<1> QED
  BY <1>3, <1>4, <1>5 DEF WithRow

\* Every database call of a request keeps the invariant.
LEMMA StepKeeps ==
  ASSUME IInv, NEW r \in Requests, Step(r)
  PROVE  IInv'
<1> USE RosterAssumption
<1> DEFINE usr == req[r].usr
           want == req[r].want
           old == req[r].old
           n == req[r].attempt
<1>0. /\ TablesOK /\ req \in [Requests -> Request]
      /\ req[r] \in Request /\ RequestOK(r)
  BY DEF IInv
<1>1. /\ usr \in UsrIds \cup {None} /\ old \in Handles \cup {None}
      /\ n \in 1..Attempts
      /\ usr # None => creo_sub[usr] = req[r].sub
  BY <1>0 DEF Request, RequestOK
<1>2. /\ Live(r) /\ req[r].sub \in Subs /\ req[r].sub # None
      /\ now' = now /\ late' = late
      /\ usr # None => usr \in UsrIds /\ creo_sub[usr] # None
  BY <1>0, <1>1 DEF Live, RequestOK, Step, EnsureGet, EnsureCreate, EnsureReget,
     ClaimLookup, ClaimReserve, ClaimUpdate, ClaimReread,
     RenameCooldown, RenameReserve, RenameTxn, RenameReread
<1>3. req[r].at \in ClaimSteps \cup RenameSteps =>
        /\ usr \in UsrIds /\ usr # None /\ want \in Handles
  BY <1>0, <1>1 DEF RequestOK
<1>4. req[r].at \in RenameSteps => old \in Handles /\ old # None
  BY <1>0 DEF RequestOK
<1>5. Persist => (usr # None => creo_sub'[usr] = req[r].sub)
  BY <1>1, <1>2 DEF Persist
<1>6. /\ "ensure_get" \notin ClaimSteps \cup RenameSteps
      /\ "ensure_create" \notin ClaimSteps \cup RenameSteps
      /\ "ensure_reget" \notin ClaimSteps \cup RenameSteps
      /\ {"ensure_get", "ensure_create", "ensure_reget"} = EnsureSteps
      /\ {"claim_lookup", "claim_reserve", "claim_update", "claim_reread"} = ClaimSteps
      /\ {"rename_cooldown", "rename_reserve", "rename_txn", "rename_reread"} = RenameSteps
      /\ ClaimSteps \cap RenameSteps = {}
      /\ {"ok", "taken", "cooldown", "conflict", "timed_out"} = Outcomes \ {"lost_row"}
  BY DEF EnsureSteps, ClaimSteps, RenameSteps, Outcomes
\* Going on within a claim or a rename, where the tables are in order again.
<1>7. ASSUME TablesOK', Persist,
             NEW step \in EnsureSteps \cup ClaimSteps \cup RenameSteps,
             NEW k \in 1..Attempts, GoOn(r, step, usr, old, k),
             step \in ClaimSteps => req[r].at \in ClaimSteps,
             step \in RenameSteps => req[r].at \in RenameSteps,
             step # "ensure_reget", step # "rename_reread"
      PROVE  IInv'
  BY <1>1, <1>2, <1>3, <1>4, <1>5, <1>7, Moves
<1>8. ASSUME TablesOK', Persist, NEW step \in EnsureSteps \cup ClaimSteps \cup RenameSteps,
             NEW out \in Outcomes \ {"lost_row"}, Retry(r, step, out),
             step \in ClaimSteps => req[r].at \in ClaimSteps,
             step \in RenameSteps => req[r].at \in RenameSteps,
             step # "ensure_reget", step # "rename_reread"
      PROVE  IInv'
  <2>1. CASE n < Attempts /\ GoOn(r, step, usr, old, n + 1)
    <3>1. n + 1 \in 1..Attempts
      BY <1>1, <2>1
    <3> QED
      BY <1>7, <1>8, <2>1, <3>1
  <2>2. CASE Answer(r, out)
    BY <1>2, <1>8, <2>2, Moves
  <2> QED
    BY <1>8, <2>1, <2>2 DEF Retry
<1>9. UNCHANGED tables => TablesOK' /\ Persist
  BY <1>0, <1>2, TablesStand
<1> HIDE DEF usr, want, old, n
<1>11. CASE EnsureGet(r)
  <2>1. CASE \E u \in UserOf(req[r].sub) : WithRow(r, u)
    BY <1>6, <1>11, <2>1, WithRowKeeps DEF EnsureGet
  <2>2. CASE GoTo(r, "ensure_create")
    BY <1>1, <1>6, <1>7, <1>9, <1>11, <2>2 DEF EnsureGet, GoTo, usr, old, n
  <2> QED
    BY <1>11, <2>1, <2>2 DEF EnsureGet
<1>12. CASE EnsureCreate(r)
  <2>1. CASE CreateUser(req[r].sub) /\ GoTo(r, "ensure_reget")
    <3>1. TablesOK' /\ Persist
      BY <1>0, <1>2, <2>1, CreateKeeps
    <3>2. \E v \in UsrIds : creo_sub'[v] = req[r].sub
      BY <1>0, <1>2, <2>1 DEF CreateUser, SubTaken, UserOf, tables, TablesOK, TablesTyped
    <3> QED
      BY <1>1, <1>2, <1>5, <1>6, <2>1, <3>1, <3>2, Moves DEF GoTo, usr, old, n
  <2>2. CASE Retry(r, "ensure_get", "conflict") /\ UNCHANGED tables
    BY <1>6, <1>8, <1>9, <2>2
  <2> QED
    BY <1>12, <2>1, <2>2 DEF EnsureCreate
<1>13. CASE EnsureReget(r)
  <2>1. UserOf(req[r].sub) # {}
    BY <1>0, <1>13 DEF EnsureReget, RequestOK, UserOf
  <2> QED
    BY <1>6, <1>13, <2>1, WithRowKeeps DEF EnsureReget
<1>14. CASE ClaimLookup(r)
  BY <1>1, <1>2, <1>6, <1>7, <1>9, <1>14, Moves DEF ClaimLookup, GoTo, usr, old, n
<1>15. CASE ClaimReserve(r)
  BY <1>1, <1>2, <1>6, <1>7, <1>9, <1>15, Moves DEF ClaimReserve, GoTo, usr, old, n
<1>16. CASE ClaimUpdate(r)
  <2>1. CASE ClaimWrite(usr, want)
    <3>1. TablesOK' /\ Persist
      BY <1>0, <1>2, <1>3, <1>6, <1>16, <2>1, ClaimKeeps DEF ClaimUpdate
    <3>2. CASE Answer(r, "taken")
      BY <1>2, <1>6, <3>1, <3>2, Moves
    <3>3. CASE GoTo(r, "claim_reread")
      BY <1>1, <1>6, <1>7, <1>16, <3>1, <3>3 DEF ClaimUpdate, GoTo, usr, old, n
    <3>4. CASE Retry(r, "claim_lookup", "conflict")
      BY <1>6, <1>8, <1>16, <3>1, <3>4 DEF ClaimUpdate
    <3> QED
      BY <1>16, <3>2, <3>3, <3>4 DEF ClaimUpdate
  <2>2. CASE Retry(r, "claim_lookup", "conflict") /\ UNCHANGED tables
    BY <1>6, <1>8, <1>9, <1>16, <2>2 DEF ClaimUpdate
  <2> QED
    BY <1>16, <2>1, <2>2 DEF ClaimUpdate, usr, want
<1>17. CASE ClaimReread(r)
  BY <1>2, <1>6, <1>9, <1>17, Moves DEF ClaimReread
<1>18. CASE RenameCooldown(r)
  BY <1>1, <1>2, <1>6, <1>7, <1>9, <1>18, Moves DEF RenameCooldown, GoTo, usr, old, n
<1>19. CASE RenameReserve(r)
  BY <1>1, <1>2, <1>6, <1>7, <1>9, <1>19, Moves DEF RenameReserve, GoTo, usr, old, n
<1>20. CASE RenameTxn(r)
  <2>1. CASE RenameCommits(usr, old, want) /\ GoTo(r, "rename_reread")
    <3>1. req[r].at \in RenameSteps /\ usr \in UsrIds /\ usr # None
          /\ old \in Handles /\ old # None /\ want \in Handles
      BY <1>3, <1>4, <1>6, <1>20 DEF RenameTxn
    <3>2. TablesOK' /\ Persist
      BY <1>0, <1>2, <2>1, <3>1, RenameKeeps
    <3>3. /\ handle'[usr] = want /\ handle_changed_at'[usr] = now
          /\ now \in Nat /\ req[r].born <= now
      BY <1>0, <1>2, <2>1, <3>1 DEF RenameCommits, TablesOK, TablesTyped, RequestOK, Live
    <3> QED
      BY <1>1, <1>2, <1>5, <1>6, <2>1, <3>1, <3>2, <3>3, Moves
      DEF GoTo, usr, old, want, n
  <2>2. CASE UNCHANGED tables /\ Answer(r, "taken")
    BY <1>2, <1>6, <1>9, <2>2, Moves
  <2>3. CASE Retry(r, "rename_cooldown", "taken") /\ UNCHANGED tables
    BY <1>6, <1>8, <1>9, <1>20, <2>3 DEF RenameTxn
  <2> QED
    BY <1>20, <2>1, <2>2, <2>3 DEF RenameTxn, RenameAborts, usr, want, old
<1>21. CASE RenameReread(r)
  <2>1. handle[req[r].usr] = req[r].want
    BY <1>0, <1>21 DEF RenameReread, RequestOK
  <2> QED
    BY <1>2, <1>6, <1>9, <1>21, <2>1, Moves DEF RenameReread
<1> QED
  BY <1>11, <1>12, <1>13, <1>14, <1>15, <1>16, <1>17, <1>18, <1>19, <1>20, <1>21
  DEF Step

\* A new request knows nothing yet.
LEMMA ArriveKeeps ==
  ASSUME IInv, NEW r \in Requests, NEW s \in Subs, NEW op \in {"me", "claim"},
         NEW h \in Handles \cup {None}, op = "claim" => h \in Handles,
         Arrive(r, s, op, h)
  PROVE  IInv'
<1> USE RosterAssumption
<1> DEFINE x == [at |-> "ensure_get", op |-> op, sub |-> s, want |-> h, usr |-> None,
                 old |-> None, attempt |-> 1, born |-> now, outcome |-> None]
<1>1. /\ req' = [req EXCEPT ![r] = x] /\ req \in [Requests -> Request]
      /\ now' = now /\ late' = late /\ now \in Nat
  BY DEF Arrive, IInv, TablesOK, TablesTyped
<1>2. TablesOK' /\ Persist
  BY <1>1, TablesStand DEF IInv, Arrive
<1>4. x \in Request
  BY <1>1 DEF Request, EnsureSteps
<1>6. /\ x.at = "ensure_get" /\ x.sub \in Subs /\ x.usr = None /\ x.born = now
      /\ x.outcome = None /\ (x.op = "claim" => x.want \in Handles)
  OBVIOUS
<1> HIDE DEF x
<1>5. req'[r] = x
  BY <1>1
<1>7. /\ "ensure_get" \notin ClaimSteps \cup RenameSteps
      /\ None # "lost_row"
  BY OutcomeAssumption DEF ClaimSteps, RenameSteps, Outcomes
<1>8. now <= now + MaxSpan
  BY <1>1
<1>9. RequestOK(r)'
  BY <1>1, <1>4, <1>5, <1>6, <1>7, <1>8 DEF RequestOK
<1> QED
  BY <1>1, <1>2, <1>9, Frame

\* guard_db cuts a request off, a write it waits for may be left behind.
LEMMA TimeoutKeeps ==
  ASSUME IInv, NEW r \in Requests, Timeout(r)
  PROVE  IInv'
<1> USE RosterAssumption
<1>1. /\ req \in [Requests -> Request] /\ RequestOK(r) /\ now' = now
      /\ Live(r) /\ late' = late \cup PendingWrite(r) /\ Answer(r, "timed_out")
  BY DEF Timeout, IInv
<1>2. TablesOK' /\ Persist
  BY <1>1, TablesStand DEF IInv, Timeout
<1>3. RequestOK(r)'
  BY <1>1, AnsweredOK DEF Outcomes
<1>4. /\ req' \in [Requests -> Request]
      /\ \A q \in Requests \ {r} : req'[q] = req[q]
  BY <1>1, <1>3 DEF Answer, RequestOK
<1>5. \A q \in Requests : RequestOK(q)'
  BY <1>1, <1>2, <1>3, <1>4, OthersPersist DEF IInv
<1>6. \A w \in late : LateOK(w)'
  BY <1>2 DEF IInv, LateOK, LateWrite, Persist
<1>7. \A w \in PendingWrite(r) : LateOK(w)'
  <2>1. /\ req[r].sub \in Subs
        /\ creo_sub' = creo_sub
    BY <1>1 DEF RequestOK, Live, Timeout, tables
  <2>2. req[r].at \in {"claim_update", "rename_txn"} =>
          /\ req[r].usr \in UsrIds /\ req[r].want \in Handles
          /\ creo_sub[req[r].usr] # None
          /\ req[r].at = "rename_txn" => req[r].old \in Handles
    BY <1>1, <2>1 DEF RequestOK, ClaimSteps, RenameSteps
  <2> QED
    BY <2>1, <2>2 DEF PendingWrite, LateOK, LateWrite
<1> QED
  BY <1>1, <1>2, <1>4, <1>5, <1>6, <1>7 DEF IInv

\* A write left behind lands by itself or is lost.
LEMMA LateKeeps ==
  ASSUME IInv, NEW w \in late, LateLands(w) \/ LateIsLost(w)
  PROVE  IInv'
<1> USE RosterAssumption
<1>1. TablesOK /\ now' = now /\ req' = req /\ late' = late \ {w} /\ LateOK(w)
  BY DEF IInv, LateLands, LateIsLost
<1>2. TablesOK' /\ Persist
  <2>1. CASE UNCHANGED tables
    BY <1>1, <2>1, TablesStand
  <2>2. CASE w.kind = "create" /\ CreateUser(w.sub)
    <3>1. w.sub \in Subs
      BY <1>1, <2>2 DEF LateOK, LateWrite
    <3> QED
      BY <1>1, <2>2, <3>1, CreateKeeps
  <2>3. CASE w.kind = "claim" /\ ClaimWrite(w.usr, w.new)
    <3>1. w.usr \in UsrIds /\ w.new \in Handles /\ creo_sub[w.usr] # None
      BY <1>1, <2>3 DEF LateOK, LateWrite
    <3> QED
      BY <1>1, <2>3, <3>1, ClaimKeeps
  <2>4. CASE w.kind = "rename" /\ RenameCommits(w.usr, w.old, w.new)
    <3>1. w.usr \in UsrIds /\ w.old \in Handles /\ w.new \in Handles
      BY <1>1, <2>4 DEF LateOK, LateWrite
    <3> QED
      BY <1>1, <2>4, <3>1, RenameKeeps
  <2> QED
    BY <2>1, <2>2, <2>3, <2>4 DEF LateLands, LateIsLost, RenameAborts
<1>3. \A q \in Requests : RequestOK(q)'
  BY <1>1, <1>2, OthersPersist DEF IInv
<1>4. \A v \in late' : LateOK(v)'
  BY <1>1, <1>2 DEF IInv, LateOK, LateWrite, Persist
<1> QED
  BY <1>1, <1>2, <1>3, <1>4 DEF IInv

\* The clock moves no request past its life.
LEMMA TickKeeps ==
  ASSUME IInv, Tick
  PROVE  IInv'
<1> USE RosterAssumption
<1>1. /\ now \in Nat /\ now' = now + 1 /\ req' = req /\ late' = late
      /\ UNCHANGED <<creo_sub, handle, handle_changed_at, reserve>>
  BY DEF Tick, tables, IInv, TablesOK, TablesTyped
<1>2. TablesTyped' /\ OneRowPerSub' /\ HandlesDistinct' /\ RenamedHasHandle'
  BY <1>1 DEF IInv, TablesOK, TablesTyped, OneRowPerSub, HandlesDistinct, RenamedHasHandle
<1>3. ReservesFollow'
  <2>1. \A u \in UsrIds : handle_changed_at[u] # None => handle_changed_at[u] \in Nat
    BY DEF IInv, TablesOK, TablesTyped
  <2>2. \A h \in Handles : reserve[h] # None => reserve[h].usr_id \in UsrIds
    BY DEF IInv, TablesOK, TablesTyped, Reserve
  <2> QED
    BY <1>1, <2>1, <2>2 DEF IInv, TablesOK, ReservesFollow
<1>4. \A r \in Requests : RequestOK(r)'
  <2> SUFFICES ASSUME NEW r \in Requests PROVE RequestOK(r)'
    OBVIOUS
  <2>1. RequestOK(r) /\ req[r].born \in Nat
    BY DEF IInv, Request
  <2>2. req[r].at # "idle" => req[r].born <= now' /\ now' <= req[r].born + MaxSpan
    BY <1>1, <2>1 DEF Tick, Live, RequestOK
  <2> QED
    BY <1>1, <2>1, <2>2 DEF RequestOK
<1>5. \A w \in late' : LateOK(w)'
  BY <1>1 DEF IInv, LateOK
<1> QED
  BY <1>1, <1>2, <1>3, <1>4, <1>5 DEF IInv, TablesOK

\* No step of anything breaks the invariant.
LEMMA NextKeeps ==
  ASSUME IInv, [Next]_vars
  PROVE  IInv'
<1>1. CASE \E r \in Requests, s \in Subs, h \in Handles : Arrive(r, s, "claim", h)
  BY <1>1, ArriveKeeps
<1>2. CASE \E r \in Requests, s \in Subs : Arrive(r, s, "me", None)
  BY <1>2, ArriveKeeps
<1>3. CASE \E r \in Requests : Step(r)
  BY <1>3, StepKeeps
<1>4. CASE \E r \in Requests : Timeout(r)
  BY <1>4, TimeoutKeeps
<1>5. CASE \E w \in late : LateLands(w) \/ LateIsLost(w)
  BY <1>5, LateKeeps
<1>6. CASE Tick
  BY <1>6, TickKeeps
<1>7. CASE UNCHANGED vars
  <2>1. UNCHANGED <<creo_sub, handle, handle_changed_at, reserve, now, req, late>>
    BY <1>7 DEF vars
  <2>2. TablesOK'
    BY <2>1, TablesStand DEF IInv, tables
  <2> QED
    BY <2>1, <2>2 DEF IInv, RequestOK, LateOK
<1> QED
  BY <1>1, <1>2, <1>3, <1>4, <1>5, <1>6, <1>7 DEF Next

\* Every behaviour of the server satisfies the inductive invariant.
THEOREM Inductive == Spec => []IInv
<1> USE RosterAssumption
<1>1. Init => IInv
  <2> SUFFICES ASSUME Init PROVE IInv
    OBVIOUS
  <2>1. TablesOK
    BY DEF Init, TablesOK, TablesTyped, OneRowPerSub, HandlesDistinct, ReservesFollow,
           RenamedHasHandle
  <2>2. Idle \in Request
    BY DEF Idle, Request
  <2>3. \A r \in Requests : RequestOK(r)
    BY <2>2, OutcomeAssumption
    DEF Init, RequestOK, Idle, ClaimSteps, RenameSteps, Outcomes
  <2> QED
    BY <2>1, <2>2, <2>3 DEF Init, IInv
<1>2. IInv /\ [Next]_vars => IInv'
  BY NextKeeps
<1> QED
  BY <1>1, <1>2, PTL DEF Spec

(***************************************************************************)
(* What a reader takes away                                                *)
(***************************************************************************)

\* Every variable keeps its type.
THEOREM RosterTypeOK == Spec => []TypeOK
<1>1. IInv => TypeOK
  BY DEF IInv, TablesOK, TablesTyped, TypeOK, LateOK
<1> QED
  BY <1>1, Inductive, PTL

\* One row per person and one person per row, in the tables and in the
\* requests (ensure_user under the index on creo_sub).
THEOREM RosterOneAccountEach == Spec => []OneAccountEach
<1>1. IInv => OneAccountEach
  BY DEF IInv, TablesOK, OneRowPerSub, OneAccountEach, RequestOK
<1> QED
  BY <1>1, Inductive, PTL

\* Every handle is one user's (claims and renames under the index on handle).
THEOREM RosterHandlesDistinct == Spec => []HandlesDistinct
<1>1. IInv => HandlesDistinct
  BY DEF IInv, TablesOK
<1> QED
  BY <1>1, Inductive, PTL

\* Every reserve leads to a user who last left that handle (rename's DELETE
\* and UPSERT, however renames follow each other).
THEOREM RosterReservesFollow == Spec => []ReservesFollow
<1>1. IInv => ReservesFollow
  BY DEF IInv, TablesOK
<1> QED
  BY <1>1, Inductive, PTL

\* No request answers 500 because the row it has just written is not there.
THEOREM RosterLosesNoRow == Spec => []NoLostRow
<1>1. IInv => NoLostRow
  BY DEF IInv, NoLostRow, RequestOK
<1> QED
  BY <1>1, Inductive, PTL

(***************************************************************************)
(* The promise.  Each step of the server is a step of HandleSpace or       *)
(* leaves every address as it was, for every interleaving of requests,     *)
(* timeouts and late writes.  (Reserves do not bind others here, see       *)
(* ReservedForOwner in HandleRoster.)                                      *)
(***************************************************************************)
\* In tables that are in order the owner of a handle is determined.
LEMMA Owners ==
  ASSUME TablesOK, NEW h \in Handles
  PROVE  /\ \A u \in UsrIds : OwnerOf(h) = u <=> handle[u] = h
         /\ OwnerOf(h) = None <=> \A u \in UsrIds : handle[u] # h
         /\ OwnerOf(h) \in UsrIds \cup {None}
<1> USE RosterAssumption
<1>1. \A u, v \in UsrIds : handle[u] = h /\ handle[v] = h => u = v
  BY DEF TablesOK, HandlesDistinct
<1>2. CASE \E u \in UsrIds : handle[u] = h
  <2>1. OwnerOf(h) \in UsrIds /\ handle[OwnerOf(h)] = h
    BY <1>2 DEF OwnerOf
  <2> QED
    BY <1>1, <2>1
<1>3. CASE ~ \E u \in UsrIds : handle[u] = h
  BY <1>3 DEF OwnerOf
<1> QED
  BY <1>2, <1>3

\* The same for the tables of the next state.
LEMMA OwnersNext ==
  ASSUME TablesOK', NEW h \in Handles
  PROVE  /\ \A u \in UsrIds : OwnerOf(h)' = u <=> handle'[u] = h
         /\ OwnerOf(h)' = None <=> \A u \in UsrIds : handle'[u] # h
         /\ OwnerOf(h)' \in UsrIds \cup {None}
<1> USE RosterAssumption
<1>1. \A u, v \in UsrIds : handle'[u] = h /\ handle'[v] = h => u = v
  BY DEF TablesOK, HandlesDistinct
<1>2. CASE \E u \in UsrIds : handle'[u] = h
  <2>1. OwnerOf(h)' \in UsrIds /\ handle'[OwnerOf(h)'] = h
    BY <1>2 DEF OwnerOf
  <2> QED
    BY <1>1, <2>1
<1>3. CASE ~ \E u \in UsrIds : handle'[u] = h
  BY <1>3 DEF OwnerOf
<1> QED
  BY <1>2, <1>3

\* Tables nobody writes are addresses nobody changes.
LEMMA StandMaps ==
  ASSUME UNCHANGED <<handle, handle_changed_at, reserve, now>>
  PROVE  UNCHANGED Loose!spaceVars
<1>1. OwnerMap' = OwnerMap
  BY DEF OwnerMap, OwnerOf
<1>2. RedirectMap' = RedirectMap
  BY DEF RedirectMap, RedirectOf, OwnerOf
<1> QED
  BY <1>1, <1>2 DEF Loose!spaceVars

\* The UPDATE of a claim is a claim in the address book, or nothing.
LEMMA ClaimMaps ==
  ASSUME NEW u \in UsrIds, NEW h \in Handles, creo_sub[u] # None,
         TablesOK, ClaimWrite(u, h), now' = now
  PROVE  Loose!Claim(u, h) \/ UNCHANGED Loose!spaceVars
<1> USE RosterAssumption
<1>1. CASE UNCHANGED tables
  BY <1>1, StandMaps DEF tables
<1>2. CASE ~UNCHANGED tables
  <2>1. /\ handle[u] = None /\ ~InUse(h)
        /\ handle' = [handle EXCEPT ![u] = h]
        /\ UNCHANGED <<handle_changed_at, reserve>>
    BY <1>2 DEF ClaimWrite, ClaimMatches
  <2>2. TablesOK'
    BY ClaimKeeps
  <2>3. /\ h \notin Fixed
        /\ \A v \in UsrIds : handle[v] # h
        /\ handle'[u] = h /\ \A v \in UsrIds \ {u} : handle'[v] = handle[v]
    BY <2>1 DEF InUse, TablesOK, TablesTyped
  <2>4. \A g \in Handles : OwnerOf(g) # u
    BY <2>1, Owners
  <2>5. OwnerOf(h) = None /\ OwnerOf(h)' = u
    BY <2>2, <2>3, Owners, OwnersNext
  <2>6. ASSUME NEW g \in Handles \ {h} PROVE OwnerOf(g)' = OwnerOf(g)
    BY <2>1, <2>2, <2>3, Owners, OwnersNext
  <2>7. OwnerMap' = [OwnerMap EXCEPT ![h] = u]
    BY <2>5, <2>6 DEF OwnerMap
  <2>8. RedirectMap' = [RedirectMap EXCEPT ![h] = None]
    <3>1. RedirectOf(h)' = None
      BY <2>5 DEF RedirectOf
    <3>2. ASSUME NEW g \in Handles \ {h} PROVE RedirectOf(g)' = RedirectOf(g)
      BY <2>1, <2>6 DEF RedirectOf
    <3> QED
      BY <3>1, <3>2 DEF RedirectMap
  <2>9. Loose!Homeless(u)
    BY <2>4 DEF Loose!Homeless, OwnerMap
  <2>10. Loose!Available(u, h)
    BY <2>3, <2>5 DEF Loose!Available, OwnerMap
  <2> QED
    BY <2>1, <2>7, <2>8, <2>9, <2>10 DEF Loose!Claim
<1> QED
  BY <1>1, <1>2

\* A committed rename is a rename in the address book.
LEMMA RenameMaps ==
  ASSUME NEW u \in UsrIds, NEW old \in Handles, NEW new \in Handles,
         TablesOK, RenameCommits(u, old, new), now' = now
  PROVE  Loose!Rename(u, old, new)
<1> USE RosterAssumption
<1>1. /\ handle[u] = old /\ ~CoolingDown(u) /\ ~InUse(new)
      /\ handle' = [handle EXCEPT ![u] = new]
      /\ handle_changed_at' = [handle_changed_at EXCEPT ![u] = now]
      /\ reserve' = ReserveAfterRename(u, old, new)
      /\ now \in Nat /\ handle_changed_at[u] \in Nat \cup {None}
  BY CooldownsAgree DEF RenameCommits, TablesOK, TablesTyped
<1>2. TablesOK'
  BY RenameKeeps
<1>3. /\ new \notin Fixed /\ new # old
      /\ \A v \in UsrIds : handle[v] # new
      /\ handle'[u] = new /\ \A v \in UsrIds \ {u} : handle'[v] = handle[v]
  BY <1>1 DEF InUse, TablesOK, TablesTyped
<1>4. OwnerOf(old) = u /\ OwnerOf(new) = None
  BY <1>1, <1>3, Owners
<1>5. OwnerOf(new)' = u
  BY <1>2, <1>3, OwnersNext
<1>6. OwnerOf(old)' = None
  <2>1. \A v \in UsrIds \ {u} : handle[v] # old
    BY <1>1 DEF TablesOK, HandlesDistinct
  <2> QED
    BY <1>2, <1>3, <2>1, OwnersNext
<1>7. ASSUME NEW g \in Handles \ {old, new} PROVE OwnerOf(g)' = OwnerOf(g)
  BY <1>1, <1>2, <1>3, Owners, OwnersNext
<1>8. OwnerMap' = [OwnerMap EXCEPT ![old] = None, ![new] = u]
  BY <1>3, <1>5, <1>6, <1>7 DEF OwnerMap
<1>9. ASSUME NEW h \in Handles
      PROVE  RedirectOf(h)' = IF h = old THEN u
                              ELSE IF h = new \/ RedirectOf(h) = u THEN None
                              ELSE RedirectOf(h)
  <2>1. CASE h = old
    <3>1. /\ reserve'[old].usr_id = u
          /\ reserve'[old].expires_at = now + ReserveFor
      BY <1>1 DEF ReserveAfterRename
    <3>2. reserve'[old] # None
      <4>1. reserve'[old] = [usr_id |-> u, new_handle |-> new,
                             expires_at |-> now + ReserveFor]
        BY <1>1 DEF ReserveAfterRename
      <4>2. reserve'[old] \in [usr_id : UsrIds, new_handle : Handles, expires_at : Nat]
        BY <1>1, <4>1
      <4> QED
        BY <4>2
    <3>3. now + ReserveFor > now
      BY <1>1
    <3> QED
      BY <1>6, <2>1, <3>1, <3>2, <3>3 DEF RedirectOf
  <2>2. CASE h = new
    BY <1>3, <1>5, <2>2 DEF RedirectOf
  <2>3. CASE h \notin {old, new}
    <3>1. OwnerOf(h)' = OwnerOf(h)
      BY <1>7, <2>3
    <3>2. reserve'[h] = IF reserve[h] # None /\ reserve[h].usr_id = u
                        THEN None ELSE reserve[h]
      BY <1>1, <2>3 DEF ReserveAfterRename
    <3>3. u # None
      OBVIOUS
    <3> QED
      BY <2>3, <3>1, <3>2, <3>3 DEF RedirectOf
  <2> QED
    BY <2>1, <2>2, <2>3
<1>10. RedirectMap' = [h \in Handles |->
                         IF h = old THEN u
                         ELSE IF h = new \/ RedirectMap[h] = u THEN None
                         ELSE RedirectMap[h]]
  BY <1>9 DEF RedirectMap
<1>11. OwnerMap[old] = u /\ Loose!Available(u, new)
  BY <1>3, <1>4 DEF OwnerMap, Loose!Available
<1>12. handle_changed_at[u] # None => handle_changed_at[u] + Cooldown <= now
  BY <1>1 DEF CoolingDown
<1> QED
  BY <1>1, <1>8, <1>10, <1>11, <1>12 DEF Loose!Rename

\* The clock makes expired reserves lapse, the rows of which stay behind.
LEMMA TickMaps ==
  ASSUME TablesOK, Tick
  PROVE  Loose!Lapse
<1> USE RosterAssumption
<1>1. /\ now \in Nat /\ now' = now + 1
      /\ UNCHANGED <<handle, handle_changed_at, reserve>>
  BY DEF Tick, tables, TablesOK, TablesTyped
<1>2. \A h \in Handles : OwnerOf(h)' = OwnerOf(h)
  BY <1>1 DEF OwnerOf
<1>3. OwnerMap' = OwnerMap
  BY <1>2 DEF OwnerMap
<1>4. ASSUME NEW h \in Handles
      PROVE  RedirectOf(h)' = IF /\ RedirectOf(h) # None
                                 /\ handle_changed_at[RedirectOf(h)] + ReserveFor > now + 1
                              THEN RedirectOf(h) ELSE None
  <2>1. CASE reserve[h] = None
    BY <1>1, <2>1 DEF RedirectOf
  <2>2. CASE reserve[h] # None
    <3>1. /\ reserve[h].usr_id \in UsrIds
          /\ reserve[h].expires_at = handle_changed_at[reserve[h].usr_id] + ReserveFor
          /\ handle_changed_at[reserve[h].usr_id] \in Nat
      BY <2>2 DEF TablesOK, TablesTyped, ReservesFollow, Reserve
    <3>2. reserve[h].expires_at \in Nat
      BY <3>1
    <3>3. reserve[h].usr_id # None
      BY <3>1
    <3>4. CASE OwnerOf(h) # None
      BY <1>2, <3>4 DEF RedirectOf
    <3>5. CASE OwnerOf(h) = None /\ ~(reserve[h].expires_at > now)
      <4>1. ~(reserve[h].expires_at > now + 1)
        BY <1>1, <3>2, <3>5
      <4> QED
        BY <1>1, <3>5, <4>1 DEF RedirectOf
    <3>6. CASE OwnerOf(h) = None /\ reserve[h].expires_at > now
      <4>1. RedirectOf(h) = reserve[h].usr_id
        BY <2>2, <3>6 DEF RedirectOf
      <4>2. RedirectOf(h)' = IF reserve[h].expires_at > now + 1
                             THEN reserve[h].usr_id ELSE None
        BY <1>1, <1>2, <2>2, <3>6 DEF RedirectOf
      <4> QED
        BY <3>1, <3>3, <4>1, <4>2
    <3> QED
      BY <3>4, <3>5, <3>6
  <2> QED
    BY <2>1, <2>2
<1>5. RedirectMap' = [h \in Handles |->
                        IF /\ RedirectMap[h] # None
                           /\ handle_changed_at[RedirectMap[h]] + ReserveFor > now + 1
                        THEN RedirectMap[h] ELSE None]
  BY <1>4 DEF RedirectMap
<1> QED
  BY <1>1, <1>3, <1>5 DEF Loose!Lapse

\* Every step of anything is a step of the address book, or changes no address.
LEMMA NextMaps ==
  ASSUME IInv, [Next]_vars
  PROVE  Loose!SpaceNext \/ UNCHANGED Loose!spaceVars
<1> USE RosterAssumption
<1>1. ASSUME UNCHANGED <<tables, now>> PROVE UNCHANGED Loose!spaceVars
  BY <1>1, StandMaps DEF tables
<1>2. ASSUME NEW s \in Subs, CreateUser(s), now' = now
      PROVE  UNCHANGED Loose!spaceVars
  BY <1>2, StandMaps DEF CreateUser, tables
<1>3. ASSUME NEW r \in Requests, Step(r)
      PROVE  Loose!SpaceNext \/ UNCHANGED Loose!spaceVars
  <2>1. /\ TablesOK /\ RequestOK(r) /\ now' = now
        /\ req[r].at \in ClaimSteps \cup RenameSteps =>
             /\ req[r].usr \in UsrIds /\ req[r].want \in Handles
             /\ creo_sub[req[r].usr] # None
        /\ req[r].at \in RenameSteps => req[r].old \in Handles
        /\ req[r].at # "idle" => req[r].sub \in Subs
    BY <1>3 DEF IInv, RequestOK, Step, EnsureGet, EnsureCreate, EnsureReget,
       ClaimLookup, ClaimReserve, ClaimUpdate, ClaimReread,
       RenameCooldown, RenameReserve, RenameTxn, RenameReread, ClaimSteps, RenameSteps
  <2>2. CASE EnsureCreate(r)
    BY <1>1, <1>2, <2>1, <2>2 DEF EnsureCreate
  <2>3. CASE ClaimUpdate(r)
    BY <1>1, <2>1, <2>3, ClaimMaps DEF ClaimUpdate, ClaimSteps, Loose!SpaceNext
  <2>4. CASE RenameTxn(r)
    <3>1. CASE RenameCommits(req[r].usr, req[r].old, req[r].want)
      BY <2>1, <2>4, <3>1, RenameMaps DEF RenameTxn, RenameSteps, Loose!SpaceNext
    <3>2. CASE UNCHANGED tables
      BY <1>1, <2>1, <3>2
    <3> QED
      BY <2>4, <3>1, <3>2 DEF RenameTxn, RenameAborts
  <2> QED
    BY <1>1, <1>3, <2>1, <2>2, <2>3, <2>4 DEF Step, EnsureGet, EnsureReget,
       ClaimLookup, ClaimReserve, ClaimReread, RenameCooldown, RenameReserve, RenameReread
<1>4. ASSUME NEW w \in late, LateLands(w)
      PROVE  Loose!SpaceNext \/ UNCHANGED Loose!spaceVars
  <2>1. TablesOK /\ LateOK(w) /\ now' = now
    BY <1>4 DEF IInv, LateLands
  <2>2. CASE w.kind = "create" /\ CreateUser(w.sub)
    BY <1>2, <2>1, <2>2 DEF LateOK, LateWrite
  <2>3. CASE w.kind = "claim" /\ ClaimWrite(w.usr, w.new)
    <3>1. w.usr \in UsrIds /\ w.new \in Handles /\ creo_sub[w.usr] # None
      BY <2>1, <2>3 DEF LateOK, LateWrite
    <3> QED
      BY <2>1, <2>3, <3>1, ClaimMaps DEF Loose!SpaceNext
  <2>4. CASE w.kind = "rename" /\ RenameCommits(w.usr, w.old, w.new)
    <3>1. w.usr \in UsrIds /\ w.old \in Handles /\ w.new \in Handles
      BY <2>1, <2>4 DEF LateOK, LateWrite
    <3> QED
      BY <2>1, <2>4, <3>1, RenameMaps DEF Loose!SpaceNext
  <2>5. CASE UNCHANGED tables
    BY <1>1, <2>1, <2>5
  <2> QED
    BY <1>4, <2>2, <2>3, <2>4, <2>5 DEF LateLands, RenameAborts
<1>5. CASE Tick
  BY <1>5, TickMaps DEF IInv, Loose!SpaceNext
<1>6. CASE UNCHANGED vars
  BY <1>1, <1>6 DEF vars, tables
<1> QED
  BY <1>1, <1>3, <1>4, <1>5, <1>6 DEF Next, Arrive, Timeout, LateIsLost

\* The server's tables implement the address book.
THEOREM RosterKeepsPromise == Spec => AddressBook
<1> USE RosterAssumption
<1>1. Init => Loose!SpaceInit
  <2> SUFFICES ASSUME Init PROVE Loose!SpaceInit
    OBVIOUS
  <2>1. \A h \in Handles : OwnerOf(h) = None /\ RedirectOf(h) = None
    BY DEF Init, OwnerOf, RedirectOf
  <2>2. OwnerMap = [h \in Handles |-> None] /\ RedirectMap = [h \in Handles |-> None]
    BY <2>1 DEF OwnerMap, RedirectMap
  <2> QED
    BY <2>2 DEF Loose!SpaceInit, Init
<1>2. IInv /\ [Next]_vars => [Loose!SpaceNext]_Loose!spaceVars
  BY NextMaps
<1>3. Spec => []IInv
  BY Inductive
<1> QED
  BY <1>1, <1>2, <1>3, PTL DEF Spec, AddressBook, Loose!SpaceSpec

\* No path renames a user within Cooldown of the rename before.
THEOREM RosterCoolsDown == Spec => RenamesCoolDown
<1> USE RosterAssumption
<1> DEFINE Cool == \A u \in UsrIds :
      handle[u] # None /\ handle'[u] # handle[u] =>
        /\ handle_changed_at'[u] = now
        /\ handle_changed_at[u] = None \/ handle_changed_at[u] + Cooldown <= now
<1>1. ASSUME UNCHANGED handle PROVE Cool
  BY <1>1
<1>2. ASSUME IInv, NEW s, CreateUser(s) PROVE Cool
  BY <1>1, <1>2 DEF CreateUser, tables
<1>3. ASSUME IInv, NEW u, NEW h, ClaimWrite(u, h) PROVE Cool
  BY <1>3 DEF ClaimWrite, ClaimMatches, tables, IInv, TablesOK, TablesTyped
<1>4. ASSUME IInv, NEW u, NEW old, NEW new, RenameCommits(u, old, new) PROVE Cool
  <2> SUFFICES ASSUME NEW v \in UsrIds, handle[v] # None, handle'[v] # handle[v]
               PROVE  /\ handle_changed_at'[v] = now
                      /\ handle_changed_at[v] = None \/ handle_changed_at[v] + Cooldown <= now
    OBVIOUS
  <2>1. v = u /\ now \in Nat /\ RenameMatches(u, old)
    BY <1>4 DEF RenameCommits, IInv, TablesOK, TablesTyped
  <2>2. ~CoolingDown(v)
    BY <1>4, <2>1, CooldownsAgree DEF IInv
  <2> QED
    BY <1>4, <2>1, <2>2 DEF RenameCommits, CoolingDown, IInv, TablesOK, TablesTyped
<1>5. IInv /\ [Next]_vars => [Cool]_vars
  <2> SUFFICES ASSUME IInv, Next PROVE Cool
    OBVIOUS
  <2> HIDE DEF Cool
  <2>1. ASSUME NEW r \in Requests, Step(r) PROVE Cool
    BY <1>1, <1>2, <1>3, <1>4, <2>1 DEF Step, EnsureGet, EnsureCreate, EnsureReget,
       ClaimLookup, ClaimReserve, ClaimUpdate, ClaimReread,
       RenameCooldown, RenameReserve, RenameTxn, RenameReread, RenameAborts, tables
  <2>2. ASSUME NEW w \in late, LateLands(w) PROVE Cool
    BY <1>1, <1>2, <1>3, <1>4, <2>2 DEF LateLands, RenameAborts, tables
  <2> QED
    BY <1>1, <2>1, <2>2 DEF Next, Arrive, Timeout, LateIsLost, Tick, tables
<1>6. Spec => []IInv
  BY Inductive
<1> QED
  BY <1>5, <1>6, PTL DEF Spec, RenamesCoolDown

\* A request that has not been answered has no answer yet.
Unanswered == \A r \in Requests : Live(r) => req[r].outcome = None

\* A request that goes on is still without an answer, and no other is touched.
LEMMA GoesOn ==
  ASSUME NEW r \in Requests, req \in [Requests -> Request],
         NEW step, NEW u, NEW old, NEW n, GoOn(r, step, u, old, n)
  PROVE  /\ req' = [req EXCEPT ![r] = req'[r]]
         /\ req'[r].outcome = req[r].outcome
<1> DEFINE q == [req[r] EXCEPT !.at = step, !.usr = u, !.old = old, !.attempt = n]
<1>1. req' = [req EXCEPT ![r] = q]
  BY DEF GoOn
<1>2. req[r] \in Request
  OBVIOUS
<1>3. q.outcome = req[r].outcome
  BY <1>2 DEF Request
<1> HIDE DEF q
<1> QED
  BY <1>1, <1>3

\* An answer ends the request, and no other is touched.
LEMMA Answers ==
  ASSUME NEW r \in Requests, req \in [Requests -> Request], NEW out, Answer(r, out)
  PROVE  /\ req' = [req EXCEPT ![r] = req'[r]]
         /\ req'[r].at = "idle" /\ req'[r].outcome = out
BY DEF Answer, Idle

\* A request under way has not been answered.
LEMMA StepIsLive ==
  ASSUME NEW r \in Requests, Unanswered, Step(r)
  PROVE  Live(r) /\ req[r].outcome = None
<1>1. Live(r)
  BY DEF Step, Live, EnsureGet, EnsureCreate, EnsureReget, ClaimLookup, ClaimReserve,
     ClaimUpdate, ClaimReread, RenameCooldown, RenameReserve, RenameTxn, RenameReread
<1> QED
  BY <1>1 DEF Unanswered

\* Every step of a request answers it, or leaves it without an answer.
LEMMA StepAnswers ==
  ASSUME NEW r \in Requests, IInv, Unanswered, Step(r)
  PROVE  /\ req' = [req EXCEPT ![r] = req'[r]]
         /\ req'[r].at # "idle" => req'[r].outcome = None
<1> DEFINE Good == /\ req' = [req EXCEPT ![r] = req'[r]]
                   /\ req'[r].at # "idle" => req'[r].outcome = None
<1>1. req \in [Requests -> Request]
  BY DEF IInv
<1>2. req[r].outcome = None
  BY StepIsLive
<1>3. ASSUME NEW out, Answer(r, out) PROVE Good
  BY <1>1, <1>3, Answers
<1>4. ASSUME NEW step, NEW u, NEW old, NEW n, GoOn(r, step, u, old, n) PROVE Good
  BY <1>1, <1>2, <1>4, GoesOn
<1>5. ASSUME NEW step, GoTo(r, step) PROVE Good
  BY <1>4, <1>5 DEF GoTo
<1>6. ASSUME NEW step, NEW out, Retry(r, step, out) PROVE Good
  BY <1>3, <1>4, <1>6 DEF Retry
<1>7. ASSUME NEW u, WithRow(r, u) PROVE Good
  BY <1>3, <1>4, <1>7 DEF WithRow
<1> HIDE DEF Good
<1>8. Good
  BY <1>3, <1>5, <1>6, <1>7 DEF Step, EnsureGet, EnsureCreate, EnsureReget,
     ClaimLookup, ClaimReserve, ClaimUpdate, ClaimReread,
     RenameCooldown, RenameReserve, RenameTxn, RenameReread
<1> QED
  BY <1>8 DEF Good

\* A step that answers a claim with success does so from the asker's row.
LEMMA StepIsTrue ==
  ASSUME NEW r \in Requests, IInv, Unanswered, Step(r),
         req'[r].outcome = "ok", req[r].op = "claim"
  PROVE  \E u \in UserOf(req[r].sub) : handle[u] = req[r].want
<1> DEFINE Holds == \E u \in UserOf(req[r].sub) : handle[u] = req[r].want
<1>1. req \in [Requests -> Request] /\ RequestOK(r)
  BY DEF IInv
<1>2. req[r].outcome # req'[r].outcome
  BY StepIsLive, OutcomeAssumption DEF Outcomes
<1>3. ASSUME NEW step, NEW u, NEW old, NEW n, GoOn(r, step, u, old, n) PROVE FALSE
  BY <1>1, <1>2, <1>3, GoesOn
<1>4. ASSUME NEW out, Answer(r, out) PROVE out = "ok"
  BY <1>1, <1>4, Answers
<1>5. ASSUME NEW step, GoTo(r, step) PROVE FALSE
  BY <1>3, <1>5 DEF GoTo
<1>6. ASSUME NEW step, NEW out, Retry(r, step, out) PROVE out = "ok"
  BY <1>3, <1>4, <1>6 DEF Retry
<1>7. ASSUME NEW u \in UserOf(req[r].sub), WithRow(r, u) PROVE Holds
  BY <1>3, <1>7 DEF WithRow
<1>8. ASSUME req[r].at \in {"claim_reread", "rename_reread"},
             handle[req[r].usr] = req[r].want
      PROVE  Holds
  <2>1. req[r].usr \in UsrIds /\ req[r].usr # None /\ creo_sub[req[r].usr] = req[r].sub
    BY <1>1, <1>8, RosterAssumption DEF RequestOK, ClaimSteps, RenameSteps
  <2> QED
    BY <1>8, <2>1 DEF UserOf
<1> SUFFICES Holds
  OBVIOUS
<1> HIDE DEF Holds
<1>9. CASE EnsureGet(r) \/ EnsureReget(r)
  BY <1>4, <1>5, <1>7, <1>9 DEF EnsureGet, EnsureReget
<1>10. CASE EnsureCreate(r)
  BY <1>5, <1>6, <1>10 DEF EnsureCreate
<1>11. CASE ClaimLookup(r) \/ ClaimReserve(r)
  BY <1>4, <1>5, <1>11 DEF ClaimLookup, ClaimReserve
<1>12. CASE ClaimUpdate(r)
  BY <1>4, <1>5, <1>6, <1>12 DEF ClaimUpdate
<1>13. CASE RenameCooldown(r) \/ RenameReserve(r)
  BY <1>4, <1>5, <1>13 DEF RenameCooldown, RenameReserve
<1>14. CASE RenameTxn(r)
  BY <1>4, <1>5, <1>6, <1>14 DEF RenameTxn
<1>15. CASE ClaimReread(r)
  <2>1. "taken" # "ok"
    OBVIOUS
  <2>2. req[r].at = "claim_reread" /\ handle[req[r].usr] = req[r].want
    BY <1>4, <1>15, <2>1 DEF ClaimReread
  <2> QED
    BY <1>8, <2>2
<1>16. CASE RenameReread(r)
  <2>1. req[r].at = "rename_reread" /\ handle[req[r].usr] = req[r].want
    BY <1>4, <1>16 DEF RenameReread
  <2> QED
    BY <1>8, <2>1
<1>17. Holds
  BY <1>9, <1>10, <1>11, <1>12, <1>13, <1>14, <1>15, <1>16 DEF Step
<1> QED
  BY <1>17 DEF Holds

\* A claim answered with success is true of the row of the one who asked.
THEOREM RosterAnswersTrue == Spec => SuccessIsTrue
<1> DEFINE True == \A r \in Requests :
      Live(r) /\ req'[r].outcome = "ok" /\ req[r].op = "claim"
        => \E u \in UserOf(req[r].sub) : handle[u] = req[r].want
<1>1. Init => Unanswered
  BY DEF Init, Idle, Unanswered, Live
<1>2. ASSUME IInv, Unanswered, [Next]_vars PROVE Unanswered' /\ [True]_vars
  <2>1. req \in [Requests -> Request]
    BY <1>2 DEF IInv
  <2>2. ASSUME UNCHANGED req PROVE Unanswered' /\ True
    BY <1>2, <2>2, OutcomeAssumption DEF Unanswered, Live, Outcomes
  <2>3. ASSUME NEW r \in Requests, req' = [req EXCEPT ![r] = req'[r]],
               Live(r)' => req'[r].outcome = None,
               Live(r) /\ req'[r].outcome = "ok" /\ req[r].op = "claim"
                 => \E u \in UserOf(req[r].sub) : handle[u] = req[r].want
        PROVE  Unanswered' /\ True
    <3>1. \A q \in Requests \ {r} : req'[q] = req[q]
      BY <2>1, <2>3
    <3> QED
      BY <1>2, <2>3, <3>1, OutcomeAssumption DEF Unanswered, Live, Outcomes
  <2> HIDE DEF True
  <2>4. ASSUME NEW r \in Requests, Step(r) PROVE Unanswered' /\ True
    BY <1>2, <2>3, <2>4, StepAnswers, StepIsTrue DEF Live
  <2>5. ASSUME NEW r \in Requests, NEW s, NEW op, NEW h, Arrive(r, s, op, h)
        PROVE  Unanswered' /\ True
    BY <2>1, <2>3, <2>5 DEF Arrive, Live
  <2>6. ASSUME NEW r \in Requests, Timeout(r) PROVE Unanswered' /\ True
    BY <2>1, <2>3, <2>6 DEF Timeout, Answer, Idle, Live
  <2>7. CASE UNCHANGED vars
    BY <2>2, <2>7 DEF vars
  <2>8. CASE Next
    BY <2>2, <2>4, <2>5, <2>6, <2>8 DEF Next, LateLands, LateIsLost, Tick
  <2> QED
    BY <1>2, <2>7, <2>8
<1>3. Spec => []IInv
  BY Inductive
<1> QED
  BY <1>1, <1>2, <1>3, PTL DEF Spec, SuccessIsTrue

\* What HandleSpaceProofs shows of every address book, for the roster's.
AbstractBook == INSTANCE HandleSpaceProofs WITH
  owner <- OwnerMap, redirect <- RedirectMap, changedAt <- handle_changed_at,
  ReserveBinds <- FALSE

\* The roster's tables read as an address book are in order whatever requests,
\* timeouts and late writes do: the refinement carries the abstract theorem over.
THEOREM RosterSpaceInOrder == Spec => []SpaceInOrder
<1>1. AbstractBook!SpaceParameters
  BY RosterAssumption DEF AbstractBook!SpaceParameters
<1>2. AbstractBook!SpaceSpec => []AbstractBook!SpaceInv
  BY <1>1, AbstractBook!AddressBookInOrder
<1>3. Loose!SpaceInit <=> AbstractBook!SpaceInit
  BY DEF Loose!SpaceInit, AbstractBook!SpaceInit
<1>4. Loose!SpaceNext <=> AbstractBook!SpaceNext
  BY DEF Loose!SpaceNext, Loose!Claim, Loose!Rename, Loose!Lapse, Loose!Available,
     Loose!Homeless, AbstractBook!SpaceNext, AbstractBook!Claim, AbstractBook!Rename,
     AbstractBook!Lapse, AbstractBook!Available, AbstractBook!Homeless
<1>5. AddressBook => AbstractBook!SpaceSpec
  <2>1. [Loose!SpaceNext]_Loose!spaceVars => [AbstractBook!SpaceNext]_AbstractBook!spaceVars
    BY <1>4 DEF Loose!spaceVars, AbstractBook!spaceVars
  <2> QED
    BY <1>3, <2>1, PTL DEF AddressBook, Loose!SpaceSpec, AbstractBook!SpaceSpec
<1>6. AbstractBook!SpaceInv => SpaceInOrder
  BY DEF SpaceInOrder, Loose!SpaceInv, Loose!SpaceTypeOK, Loose!OneAddressEach,
     Loose!RedirectsLead, AbstractBook!SpaceInv, AbstractBook!SpaceTypeOK,
     AbstractBook!OneAddressEach, AbstractBook!RedirectsLead
<1> QED
  BY <1>2, <1>5, <1>6, RosterKeepsPromise, PTL

(***************************************************************************)
(* Reserves.  They do not bind when requests overlap; how far the promise  *)
(* still goes then, and that it is kept when they do not.                  *)
(***************************************************************************)

\* A request that has looked at the reserve of the handle it wants, and finds
\* it bound when it writes, was there before the rename that made it.
ReserveLooked ==
  \A r \in Requests :
    req[r].at \in {"claim_update", "rename_txn"}
      /\ ReservedForOther(req[r].want, req[r].usr)
        => req[r].born + ReserveFor <= reserve[req[r].want].expires_at

\* Where a request stands after it goes on: at the step, the rest as before.
LEMMA GoesOnFields ==
  ASSUME NEW r \in Requests, req \in [Requests -> Request],
         NEW step, NEW u, NEW old, NEW n, GoOn(r, step, u, old, n)
  PROVE  /\ req' = [req EXCEPT ![r] = req'[r]]
         /\ req'[r].at = step /\ req'[r].usr = u /\ req'[r].old = old
         /\ req'[r].want = req[r].want /\ req'[r].born = req[r].born
         /\ req'[r].outcome = req[r].outcome
<1> DEFINE q == [req[r] EXCEPT !.at = step, !.usr = u, !.old = old, !.attempt = n]
<1>1. req' = [req EXCEPT ![r] = q]
  BY DEF GoOn
<1>2. req[r] \in Request
  OBVIOUS
<1>3. /\ q.at = step /\ q.usr = u /\ q.old = old
      /\ q.want = req[r].want /\ q.born = req[r].born /\ q.outcome = req[r].outcome
  BY <1>2 DEF Request
<1> HIDE DEF q
<1> QED
  BY <1>1, <1>3

\* A request comes to its write from the look at the reserve, nowhere else.
LEMMA WriteAfterLook ==
  ASSUME IInv, NEW r \in Requests, Step(r),
         req'[r].at \in {"claim_update", "rename_txn"}
  PROVE  /\ UNCHANGED <<tables, now>>
         /\ req'[r].want = req[r].want /\ req'[r].usr = req[r].usr
         /\ ~ReservedForOther(req[r].want, req[r].usr)
<1> DEFINE Looked == /\ UNCHANGED <<tables, now>>
                     /\ req'[r].want = req[r].want /\ req'[r].usr = req[r].usr
                     /\ ~ReservedForOther(req[r].want, req[r].usr)
<1>1. req \in [Requests -> Request]
  BY DEF IInv
<1>2. ASSUME NEW out, Answer(r, out) PROVE FALSE
  BY <1>1, <1>2, Answers
<1>3. ASSUME NEW step, NEW u, NEW old, NEW n, GoOn(r, step, u, old, n)
      PROVE  /\ step \in {"claim_update", "rename_txn"}
             /\ req'[r].want = req[r].want /\ req'[r].usr = u
  BY <1>1, <1>3, GoesOnFields
<1>4. ASSUME NEW step, GoTo(r, step)
      PROVE  /\ step \in {"claim_update", "rename_txn"}
             /\ req'[r].want = req[r].want /\ req'[r].usr = req[r].usr
  BY <1>3, <1>4 DEF GoTo
<1>5. ASSUME NEW step, NEW out, Retry(r, step, out)
      PROVE  step \in {"claim_update", "rename_txn"}
  BY <1>2, <1>3, <1>5 DEF Retry
<1>6. ASSUME NEW u, WithRow(r, u) PROVE FALSE
  BY <1>2, <1>3, <1>6 DEF WithRow
<1> SUFFICES Looked
  OBVIOUS
<1>7. CASE ClaimReserve(r)
  BY <1>2, <1>4, <1>7 DEF ClaimReserve
<1>8. CASE RenameReserve(r)
  BY <1>2, <1>4, <1>8 DEF RenameReserve
<1>9. CASE EnsureGet(r) \/ EnsureReget(r) \/ EnsureCreate(r)
  BY <1>2, <1>4, <1>5, <1>6, <1>9 DEF EnsureGet, EnsureReget, EnsureCreate
<1>10. CASE ClaimLookup(r) \/ ClaimUpdate(r) \/ ClaimReread(r)
  BY <1>2, <1>4, <1>5, <1>10 DEF ClaimLookup, ClaimUpdate, ClaimReread
<1>11. CASE RenameCooldown(r) \/ RenameTxn(r) \/ RenameReread(r)
  BY <1>2, <1>4, <1>5, <1>11 DEF RenameCooldown, RenameTxn, RenameReread
<1> QED
  BY <1>7, <1>8, <1>9, <1>10, <1>11 DEF Step

\* A reserve that is there after a step was there before, or a rename has made it
\* now; and the clock does not go back.
LEMMA ReservesMove ==
  ASSUME IInv, [Next]_vars, NEW h \in Handles, reserve'[h] # None
  PROVE  /\ now \in Nat /\ now' \in Nat /\ now <= now'
         /\ \/ reserve'[h] = reserve[h]
            \/ reserve'[h].expires_at = now + ReserveFor
<1> DEFINE Dated == \/ reserve'[h] = reserve[h]
                    \/ reserve'[h].expires_at = now + ReserveFor
<1>1. now \in Nat
  BY DEF IInv, TablesOK, TablesTyped
<1>2. now' = now \/ now' = now + 1
  BY DEF Next, Arrive, Step, EnsureGet, EnsureCreate, EnsureReget, ClaimLookup,
     ClaimReserve, ClaimUpdate, ClaimReread, RenameCooldown, RenameReserve, RenameTxn,
     RenameReread, Timeout, LateLands, LateIsLost, Tick, vars
<1>3. ASSUME NEW u, NEW old, NEW new, RenameCommits(u, old, new) PROVE Dated
  BY <1>3 DEF RenameCommits, ReserveAfterRename
<1>4. ASSUME reserve' = reserve PROVE Dated
  BY <1>4
<1>5. ASSUME NEW s, CreateUser(s) PROVE Dated
  BY <1>4, <1>5 DEF CreateUser, tables
<1>6. ASSUME NEW u, NEW g, ClaimWrite(u, g) PROVE Dated
  BY <1>4, <1>6 DEF ClaimWrite, tables
<1> HIDE DEF Dated
<1>7. ASSUME NEW r \in Requests, Step(r) PROVE Dated
  BY <1>3, <1>4, <1>5, <1>6, <1>7 DEF Step, EnsureGet, EnsureCreate, EnsureReget,
     ClaimLookup, ClaimReserve, ClaimUpdate, ClaimReread,
     RenameCooldown, RenameReserve, RenameTxn, RenameReread, RenameAborts, tables
<1>8. ASSUME NEW w \in late, LateLands(w) PROVE Dated
  BY <1>3, <1>4, <1>5, <1>6, <1>8 DEF LateLands, RenameAborts, tables
<1>9. Dated
  BY <1>4, <1>7, <1>8 DEF Next, Arrive, Timeout, LateIsLost, Tick, tables, vars
<1> QED
  BY <1>1, <1>2, <1>9 DEF Dated

\* Only a request's own step, its arrival or its end changes what it stands at.
LEMMA WhoMoves ==
  ASSUME IInv, [Next]_vars, NEW q \in Requests,
         req'[q].at \in {"claim_update", "rename_txn"}
  PROVE  req'[q] = req[q] \/ Step(q)
<1>1. req \in [Requests -> Request]
  BY DEF IInv
<1>2. ASSUME NEW r \in Requests, NEW s, NEW op, NEW h, Arrive(r, s, op, h)
      PROVE  req'[q] = req[q]
  BY <1>1, <1>2 DEF Arrive
<1>3. ASSUME NEW r \in Requests, Timeout(r) PROVE req'[q] = req[q]
  BY <1>1, <1>3 DEF Timeout, Answer, Idle
<1>4. ASSUME NEW r \in Requests \ {q}, Step(r) PROVE req'[q] = req[q]
  <2>1. ASSUME NEW out, Answer(r, out) PROVE req'[q] = req[q]
    BY <1>1, <2>1 DEF Answer
  <2>2. ASSUME NEW step, NEW u, NEW old, NEW n, GoOn(r, step, u, old, n)
        PROVE  req'[q] = req[q]
    BY <1>1, <2>2 DEF GoOn
  <2>3. ASSUME NEW step, GoTo(r, step) PROVE req'[q] = req[q]
    BY <2>2, <2>3 DEF GoTo
  <2>4. ASSUME NEW step, NEW out, Retry(r, step, out) PROVE req'[q] = req[q]
    BY <2>1, <2>2, <2>4 DEF Retry
  <2>5. ASSUME NEW u, WithRow(r, u) PROVE req'[q] = req[q]
    BY <2>1, <2>2, <2>5 DEF WithRow
  <2> QED
    BY <1>4, <2>1, <2>3, <2>4, <2>5 DEF Step, EnsureGet, EnsureCreate, EnsureReget,
       ClaimLookup, ClaimReserve, ClaimUpdate, ClaimReread,
       RenameCooldown, RenameReserve, RenameTxn, RenameReread
<1> QED
  BY <1>2, <1>3, <1>4 DEF Next, LateLands, LateIsLost, Tick, vars

\* What a request has seen of a reserve when it writes is not older than itself.
LEMMA LookedKeeps ==
  ASSUME IInv, ReserveLooked, [Next]_vars
  PROVE  ReserveLooked'
<1> USE RosterAssumption
<1> SUFFICES ASSUME NEW q \in Requests,
                    req'[q].at \in {"claim_update", "rename_txn"},
                    ReservedForOther(req[q].want, req[q].usr)'
             PROVE  req'[q].born + ReserveFor <= reserve'[req'[q].want].expires_at
  BY DEF ReserveLooked
<1> DEFINE h == req'[q].want
           u == req'[q].usr
<1>1. CASE req'[q] = req[q]
  <2>1. /\ req[q].born \in Nat /\ req[q].born <= now /\ h \in Handles
        /\ h = req[q].want /\ u = req[q].usr
    BY <1>1 DEF IInv, RequestOK, Request, ClaimSteps, RenameSteps
  <2>2. /\ reserve'[h] # None /\ reserve'[h].expires_at > now' /\ reserve'[h].usr_id # u
    BY DEF ReservedForOther
  <2> HIDE DEF h, u
  <2>3. /\ now \in Nat /\ now' \in Nat /\ now <= now'
        /\ \/ reserve'[h] = reserve[h]
           \/ reserve'[h].expires_at = now + ReserveFor
    BY <2>1, <2>2, ReservesMove
  <2>4. CASE reserve'[h].expires_at = now + ReserveFor
    BY <1>1, <2>1, <2>3, <2>4 DEF h
  <2>5. CASE reserve'[h] = reserve[h]
    <3>1. reserve[h] \in Reserve
      BY <2>1, <2>2, <2>5 DEF IInv, TablesOK, TablesTyped
    <3>2. reserve[h].expires_at \in Nat
      BY <3>1 DEF Reserve
    <3>3. ReservedForOther(h, u)
      BY <2>2, <2>3, <2>5, <3>2 DEF ReservedForOther
    <3> QED
      BY <1>1, <2>1, <2>5, <3>3 DEF ReserveLooked, h
  <2> QED
    BY <2>3, <2>4, <2>5
<1>2. CASE Step(q)
  <2>1. /\ UNCHANGED <<tables, now>>
        /\ ~ReservedForOther(req'[q].want, req'[q].usr)
    BY <1>2, WriteAfterLook
  <2> QED
    BY <2>1 DEF ReservedForOther, tables
<1> QED
  BY <1>1, <1>2, WhoMoves

\* A handle comes to a user by the write of a claim or a rename that asked for it.
LEMMA WhoTakes ==
  ASSUME IInv, NEW r \in Requests, Step(r),
         NEW u \in UsrIds, NEW h \in Handles, handle[u] # h, handle'[u] = h
  PROVE  /\ req[r].at \in {"claim_update", "rename_txn"}
         /\ req[r].usr = u /\ req[r].want = h
<1>1. handle \in [UsrIds -> Handles \cup {None}]
  BY DEF IInv, TablesOK, TablesTyped
<1>2. ASSUME handle' = handle PROVE FALSE
  BY <1>2
<1>3. ASSUME NEW s, CreateUser(s) PROVE FALSE
  BY <1>2, <1>3 DEF CreateUser, tables
<1>4. ASSUME NEW v, NEW g, ClaimWrite(v, g) PROVE v = u /\ g = h
  BY <1>1, <1>2, <1>4 DEF ClaimWrite, tables
<1>5. ASSUME NEW v, NEW old, NEW new, RenameCommits(v, old, new) PROVE v = u /\ new = h
  BY <1>1, <1>5 DEF RenameCommits
<1>6. CASE ClaimUpdate(r)
  BY <1>2, <1>4, <1>6 DEF ClaimUpdate, tables
<1>7. CASE RenameTxn(r)
  BY <1>2, <1>5, <1>7 DEF RenameTxn, RenameAborts, tables
<1> QED
  BY <1>2, <1>3, <1>6, <1>7 DEF Step, EnsureGet, EnsureCreate, EnsureReget, ClaimLookup,
     ClaimReserve, ClaimReread, RenameCooldown, RenameReserve, RenameReread, tables

\* A reserve that does not hold is a fresh one: with any number of requests in
\* flight, whoever takes a handle out of it within a request was there before the
\* rename that made it, so it is at most MaxSpan old.
THEOREM RosterBreachIsFresh == Spec => BreachIsFresh
<1> USE RosterAssumption
<1> DEFINE Fresh == \A u \in UsrIds, h \in Handles :
      handle[u] # h /\ handle'[u] = h /\ ReservedForOther(h, u) /\ late' = late
        => now + ReserveFor <= reserve[h].expires_at + MaxSpan
<1>1. Init => ReserveLooked
  BY DEF Init, ReserveLooked, Idle
<1>2. IInv /\ ReserveLooked /\ [Next]_vars => ReserveLooked'
  BY LookedKeeps
<1>3. IInv /\ ReserveLooked /\ [Next]_vars => [Fresh]_vars
  <2> SUFFICES ASSUME IInv, ReserveLooked, Next, NEW u \in UsrIds, NEW h \in Handles,
                      handle[u] # h, handle'[u] = h, ReservedForOther(h, u), late' = late
               PROVE  now + ReserveFor <= reserve[h].expires_at + MaxSpan
    OBVIOUS
  <2>1. ASSUME NEW r \in Requests, Step(r)
        PROVE  now + ReserveFor <= reserve[h].expires_at + MaxSpan
    <3>1. /\ req[r].at \in {"claim_update", "rename_txn"}
          /\ req[r].usr = u /\ req[r].want = h
      BY <2>1, WhoTakes
    <3>2. req[r].born + ReserveFor <= reserve[h].expires_at
      BY <3>1 DEF ReserveLooked
    <3>3. /\ req[r].born \in Nat /\ now \in Nat /\ now <= req[r].born + MaxSpan
      BY <3>1 DEF IInv, RequestOK, Request, TablesOK, TablesTyped
    <3>4. reserve[h].expires_at \in Nat
      BY DEF ReservedForOther, IInv, TablesOK, TablesTyped, Reserve
    <3> QED
      BY <3>2, <3>3, <3>4
  <2>2. ASSUME NEW w \in late, LateLands(w) PROVE FALSE
    BY <2>2 DEF LateLands
  <2> QED
    BY <2>1, <2>2 DEF Next, Arrive, Timeout, LateIsLost, Tick, tables
<1>4. Spec => []IInv
  BY Inductive
<1> QED
  BY <1>1, <1>2, <1>3, <1>4, PTL DEF Spec, BreachIsFresh

\* ReservedForOwner is all that the server lacks to be the address book in which
\* reserves bind: a run in which no write breaks a reserve keeps that promise too.
THEOREM RosterBindsWhenReserved == Spec /\ ReservedForOwner => BindingAddressBook
<1> DEFINE Bound == \A u \in UsrIds, h \in Handles :
      handle[u] # h /\ handle'[u] = h => ~ReservedForOther(h, u)
<1>1. Init => Strict!SpaceInit
  <2> SUFFICES ASSUME Init PROVE Strict!SpaceInit
    OBVIOUS
  <2>1. \A h \in Handles : OwnerOf(h) = None /\ RedirectOf(h) = None
    BY RosterAssumption DEF Init, OwnerOf, RedirectOf
  <2>2. OwnerMap = [h \in Handles |-> None] /\ RedirectMap = [h \in Handles |-> None]
    BY <2>1 DEF OwnerMap, RedirectMap
  <2> QED
    BY <2>2 DEF Strict!SpaceInit, Init
<1>2. IInv /\ [Next]_vars /\ [Bound]_vars => [Strict!SpaceNext]_Strict!spaceVars
  <2> SUFFICES ASSUME IInv, [Next]_vars, [Bound]_vars
               PROVE  Strict!SpaceNext \/ UNCHANGED Strict!spaceVars
    OBVIOUS
  <2>1. IInv' /\ TablesOK /\ TablesOK'
    BY NextKeeps DEF IInv
  <2>2. ASSUME NEW u \in UsrIds, NEW h \in Handles,
               OwnerMap[h] = None, OwnerMap'[h] = u
        PROVE  RedirectMap[h] \in {None, u}
    <3>1. OwnerOf(h) = None /\ OwnerOf(h)' = u /\ u # None
      BY <2>2, RosterAssumption DEF OwnerMap
    <3>2. handle[u] # h /\ handle'[u] = h
      BY <2>1, <3>1, Owners, OwnersNext
    <3>3. ~ReservedForOther(h, u)
      BY <3>2 DEF vars
    <3> QED
      BY <3>3 DEF RedirectMap, RedirectOf, ReservedForOther
  <2>3. OwnerMap \in [Handles -> UsrIds \cup {None}]
    BY <2>1, Owners DEF OwnerMap
  <2>4. ASSUME NEW u \in UsrIds, NEW h \in Handles, Loose!Claim(u, h)
        PROVE  Strict!Claim(u, h)
    <3>1. OwnerMap[h] = None /\ OwnerMap'[h] = u
      BY <2>3, <2>4 DEF Loose!Claim, Loose!Available
    <3> QED
      BY <2>2, <2>4, <3>1 DEF Loose!Claim, Loose!Homeless, Loose!Available,
         Strict!Claim, Strict!Homeless, Strict!Available
  <2>5. ASSUME NEW u \in UsrIds, NEW old \in Handles, NEW new \in Handles,
               Loose!Rename(u, old, new)
        PROVE  Strict!Rename(u, old, new)
    <3>1. OwnerMap[new] = None /\ OwnerMap'[new] = u
      BY <2>3, <2>5 DEF Loose!Rename, Loose!Available
    <3> QED
      BY <2>2, <2>5, <3>1 DEF Loose!Rename, Loose!Available,
         Strict!Rename, Strict!Available
  <2>6. Loose!Lapse => Strict!Lapse
    BY DEF Loose!Lapse, Strict!Lapse
  <2>7. UNCHANGED Loose!spaceVars => UNCHANGED Strict!spaceVars
    BY DEF Loose!spaceVars, Strict!spaceVars
  <2> QED
    BY <2>4, <2>5, <2>6, <2>7, NextMaps DEF Loose!SpaceNext, Strict!SpaceNext
<1>3. Spec => []IInv
  BY Inductive
<1> QED
  BY <1>1, <1>2, <1>3, PTL DEF Spec, ReservedForOwner, BindingAddressBook, Strict!SpaceSpec

\* What HandleSpaceProofs shows of the address book in which reserves bind.
BindingBook == INSTANCE HandleSpaceProofs WITH
  owner <- OwnerMap, redirect <- RedirectMap, changedAt <- handle_changed_at,
  ReserveBinds <- TRUE

\* As long as no write breaks a reserve, an old address leads to its user until
\* they take it back or rename again, or its 100 days are over.
THEOREM RosterOldAddressKept == Spec /\ ReservedForOwner => Strict!OldAddressKept
<1>1. BindingBook!SpaceParameters
  BY RosterAssumption DEF BindingBook!SpaceParameters
<1>2. BindingBook!SpaceSpec => BindingBook!OldAddressKept
  BY <1>1, BindingBook!OldAddressesStay
<1>3. Strict!SpaceInit <=> BindingBook!SpaceInit
  BY DEF Strict!SpaceInit, BindingBook!SpaceInit
<1>4. Strict!SpaceNext <=> BindingBook!SpaceNext
  BY DEF Strict!SpaceNext, Strict!Claim, Strict!Rename, Strict!Lapse, Strict!Available,
     Strict!Homeless, BindingBook!SpaceNext, BindingBook!Claim, BindingBook!Rename,
     BindingBook!Lapse, BindingBook!Available, BindingBook!Homeless
<1>5. BindingAddressBook => BindingBook!SpaceSpec
  <2>1. [Strict!SpaceNext]_Strict!spaceVars
          => [BindingBook!SpaceNext]_BindingBook!spaceVars
    BY <1>4 DEF Strict!spaceVars, BindingBook!spaceVars
  <2> QED
    BY <1>3, <2>1, PTL DEF BindingAddressBook, Strict!SpaceSpec, BindingBook!SpaceSpec
<1>6. BindingBook!OldAddressKept => Strict!OldAddressKept
  BY PTL DEF BindingBook!OldAddressKept, Strict!OldAddressKept, BindingBook!spaceVars,
     Strict!spaceVars
<1> QED
  BY <1>2, <1>5, <1>6, RosterBindsWhenReserved, PTL

(***************************************************************************)
(* Requests one at a time, none of whose writes is left behind             *)
(***************************************************************************)
Serial == (\A q, r \in Requests : q = r) /\ MaxLate = 0

\* A request by itself finds the tables as it has seen them: the reserve it has
\* looked at does not bind it, and its user has the handle it saw.
SerialInv ==
  /\ late = {}
  /\ \A r \in Requests :
       /\ req[r].at \in {"claim_update", "rename_txn"} =>
            ~ReservedForOther(req[r].want, req[r].usr)
       /\ req[r].at \in {"claim_lookup", "claim_reserve", "claim_update"} =>
            handle[req[r].usr] = None
       /\ req[r].at = "claim_reread" => handle[req[r].usr] = req[r].want
       /\ req[r].at \in {"rename_cooldown", "rename_reserve", "rename_txn"} =>
            handle[req[r].usr] # req[r].want

\* Nobody writes beside the only request there is.
LEMMA SerialAlone ==
  ASSUME Serial, SerialInv, NEW r \in Requests
  PROVE  ~Contended(r)
BY DEF Serial, SerialInv, Contended

\* No step of such a request answers "taken" for a handle its user has, and the
\* next one finds the tables as this one leaves them.
LEMMA SerialStep ==
  ASSUME Serial, IInv, SerialInv, NEW r \in Requests, Step(r), Unanswered
  PROVE  SerialInv' /\ (req'[r].outcome = "taken" => handle[req[r].usr] # req[r].want)
<1> USE RosterAssumption
<1> DEFINE Bound(h, u) ==
      reserve'[h] # None /\ reserve'[h].expires_at > now' /\ reserve'[h].usr_id # u
    Stands(at, u, h) ==
      /\ at \in {"claim_update", "rename_txn"} => ~Bound(h, u)
      /\ at \in {"claim_lookup", "claim_reserve", "claim_update"} => handle'[u] = None
      /\ at = "claim_reread" => handle'[u] = h
      /\ at \in {"rename_cooldown", "rename_reserve", "rename_txn"} => handle'[u] # h
    Good ==
      /\ Stands(req'[r].at, req'[r].usr, req'[r].want)
      /\ req'[r].outcome = "taken" => handle[req[r].usr] # req[r].want
<1>1. /\ req \in [Requests -> Request] /\ RequestOK(r)
      /\ handle \in [UsrIds -> Handles \cup {None}]
  BY DEF IInv, TablesOK, TablesTyped
<1>2. req[r].outcome # "taken"
  BY StepIsLive, OutcomeAssumption DEF Outcomes
<1>3. late' = {}
  BY DEF SerialInv, Step, EnsureGet, EnsureCreate, EnsureReget,
     ClaimLookup, ClaimReserve, ClaimUpdate, ClaimReread,
     RenameCooldown, RenameReserve, RenameTxn, RenameReread
<1>4. Good => SerialInv'
  <2> SUFFICES ASSUME Good, NEW q \in Requests
               PROVE  Stands(req'[q].at, req'[q].usr, req'[q].want)
    BY <1>3 DEF SerialInv, ReservedForOther
  <2>1. q = r
    BY DEF Serial
  <2> QED
    BY <2>1
<1>5. ASSUME NEW out, Answer(r, out), out = "taken" => handle[req[r].usr] # req[r].want
      PROVE  Good
  BY <1>1, <1>5, Answers
<1>6. ASSUME NEW step, NEW u, NEW old, NEW n, GoOn(r, step, u, old, n),
             Stands(step, u, req[r].want)
      PROVE  Good
  BY <1>1, <1>2, <1>6, GoesOnFields
<1> SUFFICES Good
  BY <1>4
<1> HIDE DEF Good
<1>7. ASSUME NEW step, GoTo(r, step), Stands(step, req[r].usr, req[r].want)
      PROVE  Good
  BY <1>6, <1>7 DEF GoTo
<1>8. ASSUME NEW u, WithRow(r, u), UNCHANGED handle PROVE Good
  <2>1. CASE Answer(r, "ok")
    BY <1>5, <2>1
  <2>2. CASE handle[u] = None /\ GoOn(r, "claim_lookup", u, None, 1)
    BY <1>6, <1>8, <2>2
  <2>3. CASE handle[u] \notin {None, req[r].want}
               /\ GoOn(r, "rename_cooldown", u, handle[u], 1)
    BY <1>6, <1>8, <2>3
  <2> QED
    BY <1>8, <2>1, <2>2, <2>3 DEF WithRow
<1>9. ~Contended(r)
  BY SerialAlone
<1>10. CASE EnsureGet(r) \/ EnsureReget(r)
  BY <1>5, <1>7, <1>8, <1>10 DEF EnsureGet, EnsureReget, tables
<1>11. CASE EnsureCreate(r)
  BY <1>7, <1>9, <1>11 DEF EnsureCreate
<1>12. CASE ClaimLookup(r) \/ ClaimReserve(r)
  <2>1. /\ handle[req[r].usr] = None /\ req[r].want \in Handles
        /\ UNCHANGED <<handle, reserve, now>>
    BY <1>1, <1>12
    DEF ClaimLookup, ClaimReserve, SerialInv, tables, RequestOK, ClaimSteps
  <2>2. handle[req[r].usr] # req[r].want
    BY <2>1
  <2>3. \/ Answer(r, "taken")
        \/ GoTo(r, "claim_reserve")
        \/ GoTo(r, "claim_update") /\ ~ReservedForOther(req[r].want, req[r].usr)
    BY <1>12 DEF ClaimLookup, ClaimReserve
  <2> QED
    BY <1>5, <1>7, <2>1, <2>2, <2>3 DEF ReservedForOther
<1>14. CASE ClaimUpdate(r)
  <2>1. /\ handle[req[r].usr] = None /\ req[r].usr \in UsrIds /\ req[r].want \in Handles
        /\ ClaimWrite(req[r].usr, req[r].want)
    BY <1>1, <1>9, <1>14 DEF ClaimUpdate, SerialInv, RequestOK, ClaimSteps
  <2>2. CASE InUse(req[r].want)
    BY <1>5, <1>14, <1>9, <2>1, <2>2 DEF ClaimUpdate, ClaimMatches
  <2>3. CASE ~InUse(req[r].want)
    <3>1. GoTo(r, "claim_reread") /\ handle' = [handle EXCEPT ![req[r].usr] = req[r].want]
      BY <1>14, <1>9, <2>1, <2>3 DEF ClaimUpdate, ClaimMatches, ClaimWrite
    <3>2. handle'[req[r].usr] = req[r].want
      BY <1>1, <2>1, <3>1
    <3> QED
      BY <1>7, <3>1, <3>2
  <2> QED
    BY <2>2, <2>3
<1>15. CASE ClaimReread(r)
  BY <1>5, <1>15 DEF ClaimReread, SerialInv
<1>16. CASE RenameCooldown(r)
  BY <1>5, <1>7, <1>16 DEF RenameCooldown, SerialInv, tables
<1>17. CASE RenameReserve(r)
  BY <1>5, <1>7, <1>17 DEF RenameReserve, SerialInv, tables, ReservedForOther
<1>18. CASE RenameTxn(r)
  <2>1. handle[req[r].usr] # req[r].want
    BY <1>18 DEF RenameTxn, SerialInv
  <2>2. \/ GoTo(r, "rename_reread")
        \/ Answer(r, "taken")
    BY <1>9, <1>18 DEF RenameTxn
  <2> QED
    BY <1>5, <1>7, <2>1, <2>2
<1>19. CASE RenameReread(r)
  BY <1>5, <1>19 DEF RenameReread
<1> QED
  BY <1>10, <1>11, <1>12, <1>14, <1>15, <1>16, <1>17, <1>18, <1>19 DEF Step

\* Nothing else happens to the tables but time.
LEMMA SerialNext ==
  ASSUME Serial, IInv, SerialInv, Unanswered, [Next]_vars
  PROVE  SerialInv'
<1> USE RosterAssumption
<1>1. /\ req \in [Requests -> Request] /\ now \in Nat
      /\ \A h \in Handles : reserve[h] # None => reserve[h].expires_at \in Nat
  BY DEF IInv, TablesOK, TablesTyped, Reserve
<1>2. ASSUME NEW r \in Requests, req'[r].at \in {"idle", "ensure_get"}, late' = {}
      PROVE  SerialInv'
  BY <1>2 DEF Serial, SerialInv
<1>3. ASSUME NEW r \in Requests, NEW s, NEW op, NEW h, Arrive(r, s, op, h)
      PROVE  SerialInv'
  <2>1. req'[r].at = "ensure_get" /\ late' = {}
    BY <1>1, <1>3 DEF Arrive, SerialInv
  <2> QED
    BY <1>2, <2>1
<1>4. ASSUME NEW r \in Requests, Timeout(r) PROVE SerialInv'
  <2>1. late' = PendingWrite(r) /\ Cardinality(late') <= 0
    BY <1>4 DEF Timeout, SerialInv, Serial
  <2>2. late' = {} \/ \E w : late' = {w}
    BY <2>1 DEF PendingWrite
  <2>3. ASSUME NEW w, late' = {w} PROVE FALSE
    <3>1. Cardinality({w}) = 1
      BY FS_Singleton
    <3> QED
      BY <2>1, <2>3, <3>1
  <2>4. req'[r].at = "idle"
    BY <1>1, <1>4, Answers DEF Timeout
  <2> QED
    BY <1>2, <2>2, <2>3, <2>4
<1>5. CASE Tick
  <2>1. /\ UNCHANGED <<handle, reserve, req, late>> /\ now' = now + 1
    BY <1>5 DEF Tick, tables
  <2>2. ASSUME NEW r \in Requests, req[r].at \in {"claim_update", "rename_txn"}
        PROVE  ~ReservedForOther(req[r].want, req[r].usr)'
    <3>1. ~ReservedForOther(req[r].want, req[r].usr) /\ req[r].want \in Handles
      BY <2>2 DEF SerialInv, IInv, RequestOK, ClaimSteps, RenameSteps
    <3> QED
      BY <1>1, <2>1, <3>1 DEF ReservedForOther
  <2> QED
    BY <2>1, <2>2 DEF SerialInv
<1>6. CASE UNCHANGED vars
  BY <1>6 DEF vars, SerialInv, ReservedForOther
<1> QED
  BY <1>3, <1>4, <1>5, <1>6, SerialStep DEF Next, LateLands, LateIsLost, SerialInv

\* A request under way stays without an answer until it ends.
LEMMA StillUnanswered ==
  ASSUME IInv, Unanswered, [Next]_vars
  PROVE  Unanswered'
<1>1. req \in [Requests -> Request]
  BY DEF IInv
<1>2. ASSUME NEW r \in Requests, req' = [req EXCEPT ![r] = req'[r]],
             req'[r].at # "idle" => req'[r].outcome = None
      PROVE  Unanswered'
  BY <1>1, <1>2 DEF Unanswered, Live
<1>3. ASSUME NEW r \in Requests, Step(r) PROVE Unanswered'
  BY <1>2, <1>3, StepAnswers
<1>4. ASSUME NEW r \in Requests, NEW s, NEW op, NEW h, Arrive(r, s, op, h)
      PROVE  Unanswered'
  BY <1>1, <1>2, <1>4 DEF Arrive
<1>5. ASSUME NEW r \in Requests, Timeout(r) PROVE Unanswered'
  BY <1>1, <1>2, <1>5, Answers DEF Timeout
<1>6. ASSUME UNCHANGED req PROVE Unanswered'
  BY <1>6 DEF Unanswered, Live
<1> QED
  BY <1>3, <1>4, <1>5, <1>6 DEF Next, LateLands, LateIsLost, Tick, vars

\* With requests one at a time SerialInv holds throughout.
LEMMA SerialAlways ==
  ASSUME Serial
  PROVE  Spec => [](IInv /\ Unanswered /\ SerialInv)
<1>1. Init => Unanswered /\ SerialInv
  BY DEF Init, Idle, Unanswered, Live, SerialInv
<1>2. IInv /\ Unanswered /\ SerialInv /\ [Next]_vars => Unanswered' /\ SerialInv'
  BY StillUnanswered, SerialNext
<1>3. Spec => []IInv
  BY Inductive
<1> QED
  BY <1>1, <1>2, <1>3, PTL DEF Spec

\* Requests one at a time: a reserve binds (claim and rename look at it before
\* they write, and nothing comes in between), whatever the sets and periods are.
THEOREM RosterReservedForOwner == Serial => (Spec => ReservedForOwner)
<1> SUFFICES ASSUME Serial PROVE Spec => ReservedForOwner
  OBVIOUS
<1> DEFINE Bound == \A u \in UsrIds, h \in Handles :
      handle[u] # h /\ handle'[u] = h => ~ReservedForOther(h, u)
<1>1. IInv /\ SerialInv /\ [Next]_vars => [Bound]_vars
  <2> SUFFICES ASSUME IInv, SerialInv, Next, NEW u \in UsrIds, NEW h \in Handles,
                      handle[u] # h, handle'[u] = h
               PROVE  ~ReservedForOther(h, u)
    OBVIOUS
  <2>1. ASSUME NEW r \in Requests, Step(r) PROVE ~ReservedForOther(h, u)
    BY <2>1, WhoTakes DEF SerialInv
  <2> QED
    BY <2>1 DEF Next, Arrive, Timeout, LateIsLost, LateLands, Tick, tables, SerialInv
<1>2. Spec => [](IInv /\ SerialInv)
  BY SerialAlways, PTL
<1> QED
  BY <1>1, <1>2, PTL DEF Spec, ReservedForOwner

\* Requests one at a time: "taken" is never the answer for a handle one has.
THEOREM RosterTakenIsNotMine == Serial => (Spec => TakenIsNotMine)
<1> SUFFICES ASSUME Serial PROVE Spec => TakenIsNotMine
  OBVIOUS
<1> DEFINE NotMine == \A r \in Requests :
      Live(r) /\ req'[r].outcome = "taken" => handle[req[r].usr] # req[r].want
<1>1. IInv /\ Unanswered /\ SerialInv /\ [Next]_vars => [NotMine]_vars
  <2> SUFFICES ASSUME IInv, Unanswered, SerialInv, Next, NEW q \in Requests,
                      Live(q), req'[q].outcome = "taken"
               PROVE  handle[req[q].usr] # req[q].want
    OBVIOUS
  <2>1. req \in [Requests -> Request] /\ req[q].outcome # "taken"
    BY OutcomeAssumption DEF IInv, Unanswered, Outcomes
  <2>2. ASSUME NEW r \in Requests, Step(r) PROVE handle[req[q].usr] # req[q].want
    <3>1. q = r
      BY DEF Serial
    <3> QED
      BY <2>2, <3>1, SerialStep
  <2>3. ASSUME NEW r \in Requests, NEW s, NEW op, NEW h, Arrive(r, s, op, h) PROVE FALSE
    BY <2>1, <2>3 DEF Arrive, Live, Serial
  <2>4. ASSUME NEW r \in Requests, Timeout(r) PROVE FALSE
    <3>1. req'[r].outcome = "timed_out" /\ q = r
      BY <2>1, <2>4, Answers DEF Timeout, Serial
    <3> QED
      BY <3>1
  <2> QED
    BY <2>1, <2>2, <2>3, <2>4 DEF Next, LateIsLost, LateLands, Tick
<1>2. Spec => [](IInv /\ Unanswered /\ SerialInv)
  BY SerialAlways
<1> QED
  BY <1>1, <1>2, PTL DEF Spec, TakenIsNotMine

\* So requests one at a time are the address book in which reserves bind.
THEOREM RosterKeepsBindingPromise == Serial => (Spec => BindingAddressBook)
BY RosterReservedForOwner, RosterBindsWhenReserved
=============================================================================
