---------------------------- MODULE HandleRoster ---------------------------
(***************************************************************************)
(* The roster of users and handles as the server runs it (storage.rs and   *)
(* the /v1/me handlers of app.rs): tables `user` and `handle_reserve`, and *)
(* requests that read and write them in several database calls, each call  *)
(* a step of its own.  Between two calls anything may happen: other        *)
(* requests, the clock, a write held back by the SDK landing after its     *)
(* request was answered 504.                                               *)
(*                                                                         *)
(* An `op` is "me" (GET /v1/me) or "claim" (PUT /v1/me/handle).            *)
(***************************************************************************)
EXTENDS Integers, FiniteSets

CONSTANTS
  Subs,        \* Creo ID subjects
  UsrIds, Handles, Fixed, Cooldown, ReserveFor, None,  \* as in HandleSpace
  Requests,    \* request slots, each reused once its answer is out
  Attempts,    \* tries of a write that conflicts (3 in the code)
  MaxSpan,     \* clock units a request may live (15 s, far below Cooldown)
  MaxTime,     \* bound on the clock
  MaxLate      \* bound on the writes held back at once

ASSUME RosterAssumption ==
  /\ Fixed \subseteq Handles
  /\ Cooldown \in Nat \ {0}
  /\ ReserveFor \in Nat \ {0}
  /\ Cooldown < ReserveFor
  /\ Attempts \in Nat \ {0}
  /\ MaxSpan \in Nat /\ MaxSpan < Cooldown
  /\ MaxTime \in Nat
  /\ MaxLate \in Nat
  /\ None \notin UsrIds \cup Handles \cup Subs
  /\ None \notin Nat
  /\ None \notin [usr_id : UsrIds, new_handle : Handles, expires_at : Nat]

VARIABLES
  creo_sub,           \* user row -> its Creo subject, None if there is no row
  handle,             \* user row -> its handle, or None
  handle_changed_at,  \* user row -> time of the last rename, or None
  reserve,            \* old handle -> row of handle_reserve, or None
  now,                \* time::now() of the database
  req,                \* request slot -> what the request knows and does next
  late                \* writes of timed-out requests the SDK still holds

vars == <<creo_sub, handle, handle_changed_at, reserve, now, req, late>>

(***************************************************************************)
(* Requests and writes                                                     *)
(***************************************************************************)
EnsureSteps == {"ensure_get", "ensure_create", "ensure_reget"}
ClaimSteps  == {"claim_lookup", "claim_reserve", "claim_update", "claim_reread"}
RenameSteps == {"rename_cooldown", "rename_reserve", "rename_txn", "rename_reread"}
WriteSteps  == {"ensure_create", "claim_update", "rename_txn"}

\* Outcomes: 200/201, 409, 409 with reason cooldown, 500 after conflicts, 500
\* because a row just written is not there, 504.
Outcomes == {"ok", "taken", "cooldown", "conflict", "lost_row", "timed_out"}

ASSUME OutcomeAssumption == None \notin Outcomes

Request ==
  [at : EnsureSteps \cup ClaimSteps \cup RenameSteps \cup {"idle"},
   op : {"me", "claim"}, sub : Subs \cup {None}, want : Handles \cup {None},
   usr : UsrIds \cup {None}, old : Handles \cup {None},
   attempt : 1..Attempts, born : Nat, outcome : Outcomes \cup {None}]

Idle == [at |-> "idle", op |-> "me", sub |-> None, want |-> None, usr |-> None,
         old |-> None, attempt |-> 1, born |-> 0, outcome |-> None]

Reserve == [usr_id : UsrIds, new_handle : Handles, expires_at : Nat]

LateWrite ==
  [kind : {"create"}, sub : Subs]
    \cup [kind : {"claim"}, usr : UsrIds, new : Handles]
    \cup [kind : {"rename"}, usr : UsrIds, old : Handles, new : Handles]

Live(r) == req[r].at # "idle"

Init ==
  /\ creo_sub = [u \in UsrIds |-> None]
  /\ handle = [u \in UsrIds |-> None]
  /\ handle_changed_at = [u \in UsrIds |-> None]
  /\ reserve = [h \in Handles |-> None]
  /\ now = 0
  /\ req = [r \in Requests |-> Idle]
  /\ late = {}

(***************************************************************************)
(* The database: what a query finds, what a write does                     *)
(***************************************************************************)
tables == <<creo_sub, handle, handle_changed_at, reserve>>

UserOf(s) == {u \in UsrIds : creo_sub[u] = s}

\* get_user_by_handle finds a row: a user's, a reserved name's, a group's.
\* The unique index on `handle` speaks of the same rows.
InUse(h) == h \in Fixed \/ \E u \in UsrIds : handle[u] = h

\* get_reserve: a row past its expiry stays in the table and is not seen.
ReservedForOther(h, u) ==
  /\ reserve[h] # None
  /\ reserve[h].expires_at > now
  /\ reserve[h].usr_id # u

CoolingDown(u) ==
  /\ handle_changed_at[u] # None
  /\ handle_changed_at[u] + Cooldown > now

\* Mutant: no unique index on creo_sub.
SubTakenNever(s) == FALSE

\* CREATE of a fresh row; the index on creo_sub refuses a second one.
SubTaken(s) == UserOf(s) # {}

CreateUser(s) ==
  \/ /\ ~SubTaken(s)
     /\ \E u \in UsrIds :
          /\ creo_sub[u] = None
          /\ creo_sub' = [creo_sub EXCEPT ![u] = s]
     /\ UNCHANGED <<handle, handle_changed_at, reserve>>
  \/ SubTaken(s) /\ UNCHANGED tables

\* UPDATE .. SET handle WHERE handle = NONE: no row matches, or the index on
\* `handle` refuses, or the row has its handle.
ClaimMatches(u) == handle[u] = None

ClaimWrite(u, h) ==
  \/ /\ ClaimMatches(u) /\ ~InUse(h)
     /\ handle' = [handle EXCEPT ![u] = h]
     /\ UNCHANGED <<creo_sub, handle_changed_at, reserve>>
  \/ /\ ~ClaimMatches(u) \/ InUse(h)
     /\ UNCHANGED tables

\* Mutant: the WHERE of the UPDATE leaves out the cooldown.
RenameMatchesWarm(u, old) == handle[u] = old

\* The rename transaction: UPDATE under WHERE, THROW 'stale' when no row
\* matches, drop the user's reserve, reserve the old handle.
RenameMatches(u, old) ==
  /\ handle[u] = old
  /\ handle_changed_at[u] # None => handle_changed_at[u] <= now - Cooldown

\* Mutant: the user's reserves are dropped after the new one is made.
ReserveDropped(u, old, new) ==
  [h \in Handles |->
     IF h = old \/ (reserve[h] # None /\ reserve[h].usr_id = u) THEN None
     ELSE reserve[h]]

\* Mutant: the user's earlier reserve stays.
ReserveAdded(u, old, new) ==
  [reserve EXCEPT ![old] =
     [usr_id |-> u, new_handle |-> new, expires_at |-> now + ReserveFor]]

ReserveAfterRename(u, old, new) ==
  [h \in Handles |->
     IF h = old
     THEN [usr_id |-> u, new_handle |-> new, expires_at |-> now + ReserveFor]
     ELSE IF reserve[h] # None /\ reserve[h].usr_id = u THEN None
     ELSE reserve[h]]

RenameCommits(u, old, new) ==
  /\ RenameMatches(u, old)
  /\ ~InUse(new)
  /\ handle' = [handle EXCEPT ![u] = new]
  /\ handle_changed_at' = [handle_changed_at EXCEPT ![u] = now]
  /\ reserve' = ReserveAfterRename(u, old, new)
  /\ UNCHANGED creo_sub

RenameAborts(u, old, new) ==
  /\ ~RenameMatches(u, old) \/ InUse(new)
  /\ UNCHANGED tables

\* Another write is under way, so this one may end in a transaction conflict.
Contended(r) ==
  \/ late # {}
  \/ \E q \in Requests \ {r} : req[q].at \in WriteSteps

(***************************************************************************)
(* Steps of a request                                                      *)
(***************************************************************************)
\* The request goes on to a step, on row u, renaming from old, n-th attempt.
GoOn(r, step, u, old, n) ==
  req' = [req EXCEPT ![r].at = step, ![r].usr = u, ![r].old = old, ![r].attempt = n]

GoTo(r, step) == GoOn(r, step, req[r].usr, req[r].old, req[r].attempt)

\* The answer leaves, and the slot forgets the request.
Answer(r, out) == req' = [req EXCEPT ![r] = [Idle EXCEPT !.outcome = out]]

\* retry_on_conflict: start over, and after the last attempt give up.
Retry(r, step, out) ==
  \/ /\ req[r].attempt < Attempts
     /\ GoOn(r, step, req[r].usr, req[r].old, req[r].attempt + 1)
  \/ /\ req[r].attempt = Attempts
     /\ Answer(r, out)

Arrive(r, s, op, h) ==
  /\ ~Live(r)
  /\ req' = [req EXCEPT ![r] =
               [at |-> "ensure_get", op |-> op, sub |-> s, want |-> h, usr |-> None,
                old |-> None, attempt |-> 1, born |-> now, outcome |-> None]]
  /\ UNCHANGED <<tables, now, late>>

\* Mutant: asking for the handle one has is taken for a rename.
WithRowRenames(r, u) ==
  \/ req[r].op = "me" /\ Answer(r, "ok")
  \/ /\ req[r].op = "claim" /\ handle[u] = None
     /\ GoOn(r, "claim_lookup", u, None, 1)
  \/ /\ req[r].op = "claim" /\ handle[u] # None
     /\ GoOn(r, "rename_cooldown", u, handle[u], 1)

\* claim_handle and me go on from the row that ensure_user returned.
WithRow(r, u) ==
  \/ /\ req[r].op = "me" \/ handle[u] = req[r].want
     /\ Answer(r, "ok")
  \/ /\ req[r].op = "claim" /\ handle[u] = None
     /\ GoOn(r, "claim_lookup", u, None, 1)
  \/ /\ req[r].op = "claim" /\ handle[u] \notin {None, req[r].want}
     /\ GoOn(r, "rename_cooldown", u, handle[u], 1)

EnsureGet(r) ==
  /\ req[r].at = "ensure_get"
  /\ \/ \E u \in UserOf(req[r].sub) : WithRow(r, u)
     \/ UserOf(req[r].sub) = {} /\ GoTo(r, "ensure_create")
  /\ UNCHANGED <<tables, now, late>>

EnsureCreate(r) ==
  /\ req[r].at = "ensure_create"
  /\ \/ CreateUser(req[r].sub) /\ GoTo(r, "ensure_reget")
     \/ Contended(r) /\ Retry(r, "ensure_get", "conflict") /\ UNCHANGED tables
  /\ UNCHANGED <<now, late>>

EnsureReget(r) ==
  /\ req[r].at = "ensure_reget"
  /\ \/ \E u \in UserOf(req[r].sub) : WithRow(r, u)
     \/ UserOf(req[r].sub) = {} /\ Answer(r, "lost_row")
  /\ UNCHANGED <<tables, now, late>>

ClaimLookup(r) ==
  /\ req[r].at = "claim_lookup"
  /\ IF InUse(req[r].want) THEN Answer(r, "taken") ELSE GoTo(r, "claim_reserve")
  /\ UNCHANGED <<tables, now, late>>

\* Mutant: a claim does not look at reserves.
ClaimUnreserved(r) ==
  /\ req[r].at = "claim_reserve"
  /\ GoTo(r, "claim_update")
  /\ UNCHANGED <<tables, now, late>>

ClaimReserve(r) ==
  /\ req[r].at = "claim_reserve"
  /\ IF ReservedForOther(req[r].want, req[r].usr)
     THEN Answer(r, "taken") ELSE GoTo(r, "claim_update")
  /\ UNCHANGED <<tables, now, late>>

ClaimUpdate(r) ==
  /\ req[r].at = "claim_update"
  /\ \/ /\ ClaimWrite(req[r].usr, req[r].want)
        /\ IF ClaimMatches(req[r].usr) /\ InUse(req[r].want)
           THEN Answer(r, "taken") ELSE GoTo(r, "claim_reread")
     \/ Contended(r) /\ Retry(r, "claim_lookup", "conflict") /\ UNCHANGED tables
  /\ UNCHANGED <<now, late>>

\* Mutant: the UPDATE is believed without reading the row again.
ClaimBelieved(r) ==
  /\ req[r].at = "claim_reread"
  /\ Answer(r, "ok")
  /\ UNCHANGED <<tables, now, late>>

\* The answer is the asker's own row, and only if it shows the handle.
ClaimReread(r) ==
  /\ req[r].at = "claim_reread"
  /\ Answer(r, IF handle[req[r].usr] = req[r].want THEN "ok" ELSE "taken")
  /\ UNCHANGED <<tables, now, late>>

RenameCooldown(r) ==
  /\ req[r].at = "rename_cooldown"
  /\ IF CoolingDown(req[r].usr) THEN Answer(r, "cooldown") ELSE GoTo(r, "rename_reserve")
  /\ UNCHANGED <<tables, now, late>>

\* Mutant: a rename does not look at reserves.
RenameUnreserved(r) ==
  /\ req[r].at = "rename_reserve"
  /\ GoTo(r, "rename_txn")
  /\ UNCHANGED <<tables, now, late>>

RenameReserve(r) ==
  /\ req[r].at = "rename_reserve"
  /\ IF ReservedForOther(req[r].want, req[r].usr)
     THEN Answer(r, "taken") ELSE GoTo(r, "rename_txn")
  /\ UNCHANGED <<tables, now, late>>

RenameTxn(r) ==
  /\ req[r].at = "rename_txn"
  /\ \/ RenameCommits(req[r].usr, req[r].old, req[r].want) /\ GoTo(r, "rename_reread")
     \/ RenameAborts(req[r].usr, req[r].old, req[r].want) /\ Answer(r, "taken")
     \/ Contended(r) /\ Retry(r, "rename_cooldown", "taken") /\ UNCHANGED tables
  /\ UNCHANGED <<now, late>>

RenameReread(r) ==
  /\ req[r].at = "rename_reread"
  /\ Answer(r, IF handle[req[r].usr] = req[r].want THEN "ok" ELSE "lost_row")
  /\ UNCHANGED <<tables, now, late>>

(***************************************************************************)
(* guard_db's timeout, late writes, the clock                              *)
(***************************************************************************)
PendingWrite(r) ==
  CASE req[r].at = "ensure_create" -> {[kind |-> "create", sub |-> req[r].sub]}
    [] req[r].at = "claim_update" ->
         {[kind |-> "claim", usr |-> req[r].usr, new |-> req[r].want]}
    [] req[r].at = "rename_txn" ->
         {[kind |-> "rename", usr |-> req[r].usr, old |-> req[r].old,
           new |-> req[r].want]}
    [] OTHER -> {}

\* 504 after 15 s, or 503 because the database went away: either way a write
\* under way may land later or not at all.  Also a GET /v1/me may leave one.
Timeout(r) ==
  /\ Live(r)
  /\ late' = late \cup PendingWrite(r)
  /\ Cardinality(late') <= MaxLate
  /\ Answer(r, "timed_out")
  /\ UNCHANGED <<tables, now>>

LateLands(w) ==
  /\ late' = late \ {w}
  /\ \/ w.kind = "create" /\ CreateUser(w.sub)
     \/ w.kind = "claim" /\ ClaimWrite(w.usr, w.new)
     \/ w.kind = "rename" /\ (\/ RenameCommits(w.usr, w.old, w.new)
                              \/ RenameAborts(w.usr, w.old, w.new))
  /\ UNCHANGED <<now, req>>

LateIsLost(w) ==
  /\ late' = late \ {w}
  /\ UNCHANGED <<tables, now, req>>

Tick ==
  /\ now < MaxTime
  /\ \A r \in Requests : Live(r) => now < req[r].born + MaxSpan
  /\ now' = now + 1
  /\ UNCHANGED <<tables, req, late>>

Step(r) ==
  \/ EnsureGet(r) \/ EnsureCreate(r) \/ EnsureReget(r)
  \/ ClaimLookup(r) \/ ClaimReserve(r) \/ ClaimUpdate(r) \/ ClaimReread(r)
  \/ RenameCooldown(r) \/ RenameReserve(r) \/ RenameTxn(r) \/ RenameReread(r)

Next ==
  \/ \E r \in Requests, s \in Subs, h \in Handles : Arrive(r, s, "claim", h)
  \/ \E r \in Requests, s \in Subs : Arrive(r, s, "me", None)
  \/ \E r \in Requests : Step(r)
  \/ \E r \in Requests : Timeout(r)
  \/ \E w \in late : LateLands(w)
  \/ \E w \in late : LateIsLost(w)
  \/ Tick

Spec == Init /\ [][Next]_vars

(***************************************************************************)
(* The promise                                                             *)
(***************************************************************************)
OwnerOf(h) ==
  IF \E u \in UsrIds : handle[u] = h
  THEN CHOOSE u \in UsrIds : handle[u] = h ELSE None

RedirectOf(h) ==
  IF OwnerOf(h) = None /\ reserve[h] # None /\ reserve[h].expires_at > now
  THEN reserve[h].usr_id ELSE None

OwnerMap == [h \in Handles |-> OwnerOf(h)]
RedirectMap == [h \in Handles |-> RedirectOf(h)]

Loose == INSTANCE HandleSpace WITH
  owner <- OwnerMap, redirect <- RedirectMap, changedAt <- handle_changed_at,
  ReserveBinds <- FALSE

Strict == INSTANCE HandleSpace WITH
  owner <- OwnerMap, redirect <- RedirectMap, changedAt <- handle_changed_at,
  ReserveBinds <- TRUE

\* Whatever the interleaving, the tables go through the steps of the address
\* book, except that a reserved handle may go to somebody else.
AddressBook == Loose!SpaceSpec

\* storage.rs:457, migration 012: a reserved handle is its old owner's alone.
BindingAddressBook == Strict!SpaceSpec

(***************************************************************************)
(* Properties                                                              *)
(***************************************************************************)
TypeOK ==
  /\ creo_sub \in [UsrIds -> Subs \cup {None}]
  /\ handle \in [UsrIds -> Handles \cup {None}]
  /\ handle_changed_at \in [UsrIds -> Nat \cup {None}]
  /\ reserve \in [Handles -> Reserve \cup {None}]
  /\ now \in Nat
  /\ req \in [Requests -> Request]
  /\ late \subseteq LateWrite

\* Through every interleaving and late write a user has one address, one
\* redirect leads to it, and every redirect leads to somebody's address.
SpaceInOrder == Loose!SpaceInv

\* Two requests that put the same person on the roster converge on one row,
\* and every request works on the row of the person who sent it.
OneAccountEach ==
  /\ \A u, v \in UsrIds : creo_sub[u] = creo_sub[v] /\ creo_sub[u] # None => u = v
  /\ \A r \in Requests : req[r].usr # None => creo_sub[req[r].usr] = req[r].sub

\* A handle is one user's, and never a reserved name's or an organization's.
HandlesDistinct ==
  \A u \in UsrIds : handle[u] # None =>
    /\ creo_sub[u] # None
    /\ handle[u] \notin Fixed
    /\ \A v \in UsrIds \ {u} : handle[v] # handle[u]

\* A user's reserve is the handle left by the last rename, leads to the handle
\* they have now and runs from that rename: no rename, late write or take-back
\* leaves a second one or one that leads nowhere.
ReservesFollow ==
  \A h \in Handles : reserve[h] # None =>
    LET u == reserve[h].usr_id IN
    /\ handle[u] = reserve[h].new_handle
    /\ handle[u] # h
    /\ handle_changed_at[u] # None
    /\ handle_changed_at[u] <= now
    /\ reserve[h].expires_at = handle_changed_at[u] + ReserveFor
    /\ \A g \in Handles \ {h} : reserve[g] # None => reserve[g].usr_id # u

\* The 500 branches after a write (a row that "vanished", a committed rename
\* the row does not show) are never taken.
NoLostRow == \A r \in Requests : req[r].outcome # "lost_row"

\* Whatever path a rename takes, late ones included, it comes no sooner than
\* Cooldown after the one before.
RenamesCoolDown ==
  [][\A u \in UsrIds :
       handle[u] # None /\ handle'[u] # handle[u] =>
         /\ handle_changed_at'[u] = now
         /\ handle_changed_at[u] = None \/ handle_changed_at[u] + Cooldown <= now]_vars

\* A claim answered 200 or 201 is true of the row the answer is made from, when
\* that row is read.
SuccessIsTrue ==
  [][\A r \in Requests :
       Live(r) /\ req'[r].outcome = "ok" /\ req[r].op = "claim"
         => \E u \in UserOf(req[r].sub) : handle[u] = req[r].want]_vars

\* app.rs:690: asking again for the handle one has is idempotent, so "taken"
\* is never the answer for a handle the asker holds.
TakenIsNotMine ==
  [][\A r \in Requests :
       Live(r) /\ req'[r].outcome = "taken" => handle[req[r].usr] # req[r].want]_vars

\* storage.rs:457: nobody takes a handle during another user's reserve of it.
ReservedForOwner ==
  [][\A u \in UsrIds, h \in Handles :
       handle[u] # h /\ handle'[u] = h => ~ReservedForOther(h, u)]_vars

\* What is left of that promise when requests overlap (a write that outlives its
\* request aside): a reserve is broken only within MaxSpan of the rename that
\* made it, by a request that was there before it; an older one is never broken.
BreachIsFresh ==
  [][\A u \in UsrIds, h \in Handles :
       handle[u] # h /\ handle'[u] = h /\ ReservedForOther(h, u) /\ late' = late
         => now + ReserveFor <= reserve[h].expires_at + MaxSpan]_vars
=============================================================================
