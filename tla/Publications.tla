----------------------------- MODULE Publications ----------------------------
(***************************************************************************)
(* Readable URLs, `/@handle/slug` (app.rs, profile.rs, storage.rs): apps   *)
(* register and remove entries for people who may publish under a handle,  *)
(* visitors follow them.  A request is several database calls, each a step *)
(* of its own; between two calls other requests run, people claim and      *)
(* change handles (HandleRoster, one step per request here), the admin     *)
(* puts apps on the roster, and a write the SDK held back for a request    *)
(* that was answered 504 may land.                                         *)
(*                                                                         *)
(* An `op` is "put" or "delete" (an app with a product token that allows   *)
(* register_publication) or "visit" (anybody: the profile page, the entry  *)
(* itself, GET /v1/users/{handle} and its publications, which read alike). *)
(* The URL, the title and the answers 201 and 200 are left out.            *)
(***************************************************************************)
EXTENDS Integers, FiniteSets

CONSTANTS
  UsrIds,      \* people
  Orgs,        \* organizations: made by a migration, as are their members
  OrgHandle,   \* organization -> its handle
  Role,        \* organization -> person -> role, or None
  Handles, Slugs,
  Apps,        \* app_ids
  Seeded,      \* apps a migration puts on the roster
  Founder,     \* the person migration 013 names, who need not be a user here
  SeededRows,  \* publisher, slug -> the row migration 013 makes, or None
  Requests,    \* request slots, each reused once its answer is out
  Attempts,    \* tries of a write that conflicts (3 in the code)
  MaxChanges,  \* bound on claims, renames, ends of reserves and puts of apps
  None

Publishers == UsrIds \cup Orgs

Row == [app : Apps, updated_by : UsrIds \cup {Founder}]

ASSUME PublicationsAssumption ==
  /\ UsrIds \cap Orgs = {}
  /\ OrgHandle \in [Orgs -> Handles]
  /\ \A o, p \in Orgs : OrgHandle[o] = OrgHandle[p] => o = p
  /\ Role \in [Orgs -> [UsrIds -> {"owner", "admin", "member", "guest", None}]]
  /\ Attempts \in Nat \ {0}
  /\ Seeded \subseteq Apps
  /\ SeededRows \in [Publishers -> [Slugs -> Row \cup {None}]]
  /\ MaxChanges \in Nat
  /\ None \notin Publishers \cup Handles \cup Slugs \cup Apps
  /\ None \notin {"owner", "admin", "member", "guest", "active", "off"}
  /\ None \notin Row
  /\ None \notin [op : {"put", "delete"}, publisher : Publishers, slug : Slugs, app : Apps]

VARIABLES
  handle,       \* publisher -> its handle, or None
  reserve,      \* old handle -> the person it is kept for, or None
  app_status,   \* app -> "active", any other status, or None: not on the roster
  publication,  \* publisher, slug -> the row, or None
  req,          \* request slot -> what the request knows and does next
  changes,      \* how many changes came from outside, for MaxChanges
  met           \* history: what has happened to the handle a request looks up,
                \* or to the slug it is about to write

tables == <<handle, reserve, app_status, publication>>
vars == <<handle, reserve, app_status, publication, req, changes, met>>

(***************************************************************************)
(* Handles and who may publish                                             *)
(***************************************************************************)
Publishable == {"owner", "admin", "member"}

\* Mutant: a guest may, too.
MayPublishGuests(p, u) == IF p \in Orgs THEN Role[p][u] # None ELSE p = u

\* check_publisher, once the publisher and the person are found.
MayPublish(p, u) == IF p \in Orgs THEN Role[p][u] \in Publishable ELSE p = u

\* The organizations of person u, in any role, that have a handle.
OrgsOf(u) == {o \in Orgs : Role[o][u] # None /\ handle[o] # None}

\* GET /v1/me/publishers: what person u is offered.
MyPublishers(u) ==
  {p \in {u} : handle[p] # None} \cup {o \in OrgsOf(u) : Role[o][u] \in Publishable}

InUse(h) == \E p \in Publishers : handle[p] = h

Leads(h) == InUse(h) \/ reserve[h] # None

OnRoster(a) == app_status[a] # None

IsActive(a) == app_status[a] = "active"

(***************************************************************************)
(* Requests                                                                *)
(***************************************************************************)
Resolving == {"user", "reserve", "moved"}

\* "late": answered 504, while the SDK still holds the write.
Steps == {"idle", "slug", "app", "look", "write", "reread", "late"} \cup Resolving

Writing == {"write", "late"}

Request ==
  [at : Steps, op : {"put", "delete", "visit"}, h : Handles \cup {None},
   slug : Slugs \cup {None}, actor : UsrIds \cup {None}, app : Apps \cup {None},
   publisher : Publishers \cup {None}, attempt : 1..Attempts]

Idle == [at |-> "idle", op |-> "visit", h |-> None, slug |-> None, actor |-> None,
         app |-> None, publisher |-> None, attempt |-> 1]

Unmet == [nowhere |-> FALSE, taken |-> FALSE, raced |-> FALSE]

Init ==
  /\ handle = [p \in Publishers |-> IF p \in Orgs THEN OrgHandle[p] ELSE None]
  /\ reserve = [h \in Handles |-> None]
  /\ app_status = [a \in Apps |-> IF a \in Seeded THEN "active" ELSE None]
  /\ publication = SeededRows
  /\ req = [r \in Requests |-> Idle]
  /\ changes = 0
  /\ met = [r \in Requests |-> Unmet]

Become(r, new) == req' = [req EXCEPT ![r] = new]
Answer(r) == Become(r, Idle)
GoTo(r, s) == Become(r, [req[r] EXCEPT !.at = s])

Begin(r, new) ==
  /\ req[r].at = "idle"
  /\ Become(r, new)
  /\ UNCHANGED <<tables, changes>>

\* Mutant: the reserve is read before the user.
VisitBackwards(r, h) ==
  Begin(r, [Idle EXCEPT !.at = "reserve", !.h = h])

Visit(r, h) == Begin(r, [Idle EXCEPT !.at = "user", !.h = h])

\* The product token has been found good: the request is app a's.
Call(r, op, h, s, a) ==
  Begin(r, [Idle EXCEPT !.at = "user", !.op = op, !.h = h, !.slug = s, !.app = a])

\* The publisher is found.  The row and the role of the person the app acts for
\* are read next; neither ever changes, so that is no step of its own.
Found(r, p) ==
  \/ /\ req[r].op = "visit"
     /\ Become(r, [req[r] EXCEPT !.at = "look", !.publisher = p])
  \/ /\ req[r].op # "visit"
     /\ \E u \in UsrIds :
          IF MayPublish(p, u)
          THEN Become(r, [req[r] EXCEPT !.at = IF req[r].op = "put" THEN "slug" ELSE "look",
                                        !.publisher = p, !.actor = u])
          ELSE Answer(r)

\* get_user_by_handle.
ReadUser(r) ==
  /\ req[r].at = "user"
  /\ \/ \E p \in Publishers : handle[p] = req[r].h /\ Found(r, p)
     \/ ~InUse(req[r].h) /\ GoTo(r, "reserve")
  /\ UNCHANGED <<tables, changes>>

\* resolve_moved_handle: the reserve, then the user it is kept for.
ReadReserve(r) ==
  /\ req[r].at = "reserve"
  /\ \/ reserve[req[r].h] = None /\ Answer(r)
     \/ /\ reserve[req[r].h] # None
        /\ Become(r, [req[r] EXCEPT !.at = "moved", !.publisher = reserve[req[r].h]])
  /\ UNCHANGED <<tables, changes>>

\* A visitor is sent on, 301, to the handle the user has by now.
ReadMoved(r) ==
  /\ req[r].at = "moved"
  /\ IF req[r].op = "visit" THEN Answer(r) ELSE Found(r, req[r].publisher)
  /\ UNCHANGED <<tables, changes>>

\* A slug that is the id of an app on the roster, of any status, is refused.
CheckSlug(r) ==
  /\ req[r].at = "slug"
  /\ IF \E a \in Apps : a = req[r].slug /\ OnRoster(a)
     THEN Answer(r) ELSE GoTo(r, "app")
  /\ UNCHANGED <<tables, changes>>

\* get_active_app; a URL that is not on the app's host ends here, too.
CheckApp(r) ==
  /\ req[r].at = "app"
  /\ \/ IsActive(req[r].app) /\ GoTo(r, "look")
     \/ Answer(r)
  /\ UNCHANGED <<tables, changes>>

Entry(r) == publication[req[r].publisher][req[r].slug]

\* Mutant: whose entry it is is not looked at.
FreeOrAnybodys(r) == req[r].op = "put" \/ Entry(r) # None

\* Whether the request may go on to write: no other app has the slug, and
\* there is something to delete.
FreeOrOwn(r) ==
  IF Entry(r) = None THEN req[r].op = "put" ELSE Entry(r).app = req[r].app

Look(r) ==
  /\ req[r].at = "look"
  /\ IF req[r].op # "visit" /\ FreeOrOwn(r) THEN GoTo(r, "write") ELSE Answer(r)
  /\ UNCHANGED <<tables, changes>>

(***************************************************************************)
(* Writes                                                                  *)
(***************************************************************************)
\* Mutant: the publisher is whoever has the handle by now.
PendingWriteByHandle(r) ==
  [op |-> req[r].op,
   publisher |-> IF InUse(req[r].h)
                 THEN CHOOSE p \in Publishers : handle[p] = req[r].h
                 ELSE req[r].publisher,
   slug |-> req[r].slug, app |-> req[r].app, updated_by |-> req[r].actor]

PendingWrite(r) ==
  [op |-> req[r].op, publisher |-> req[r].publisher, slug |-> req[r].slug,
   app |-> req[r].app, updated_by |-> req[r].actor]

\* The UPSERT or the DELETE, by record id, whatever is there.
Perform(w) ==
  publication' = [publication EXCEPT ![w.publisher][w.slug] =
    IF w.op = "put" THEN [app |-> w.app, updated_by |-> w.updated_by] ELSE None]

\* Two writes of one row at once: one of the transactions may fail.
Contended(r) ==
  \E q \in Requests \ {r} :
    /\ req[q].at \in Writing
    /\ req[q].publisher = req[r].publisher /\ req[q].slug = req[r].slug

\* A put is tried again, a delete is not.
MayRetry(r) == req[r].op = "put" /\ req[r].attempt < Attempts

\* Mutant: a put that has landed is tried again as one that met another.
WriteRowAgain(r) ==
  /\ req[r].at = "write"
  /\ Perform(PendingWrite(r))
  /\ IF Contended(r) /\ MayRetry(r)
     THEN Become(r, [req[r] EXCEPT !.attempt = @ + 1])
     ELSE IF req[r].op = "put" THEN GoTo(r, "reread") ELSE Answer(r)
  /\ UNCHANGED <<handle, reserve, app_status, changes>>

WriteRow(r) ==
  /\ req[r].at = "write"
  /\ \/ /\ Perform(PendingWrite(r))
        /\ IF req[r].op = "put" THEN GoTo(r, "reread") ELSE Answer(r)
     \/ /\ Contended(r)
        /\ IF MayRetry(r)
           THEN Become(r, [req[r] EXCEPT !.attempt = @ + 1]) ELSE Answer(r)
        /\ UNCHANGED publication
  /\ UNCHANGED <<handle, reserve, app_status, changes>>

\* The saved row is the answer; a row that is gone again is an error, 500.
Reread(r) ==
  /\ req[r].at = "reread"
  /\ Answer(r)
  /\ UNCHANGED <<tables, changes>>

\* guard_db's 503 and 504, and errors of the database.
Timeout(r) ==
  /\ req[r].at \notin {"idle", "late"}
  /\ \/ Answer(r)
     \/ req[r].at = "write" /\ GoTo(r, "late")
  /\ UNCHANGED <<tables, changes>>

LateLands(r) ==
  /\ req[r].at = "late"
  /\ Perform(PendingWrite(r))
  /\ Answer(r)
  /\ UNCHANGED <<handle, reserve, app_status, changes>>

LateIsLost(r) ==
  /\ req[r].at = "late"
  /\ Answer(r)
  /\ UNCHANGED <<tables, changes>>

(***************************************************************************)
(* What comes from outside                                                 *)
(***************************************************************************)
Changed ==
  /\ changes < MaxChanges
  /\ changes' = changes + 1
  /\ UNCHANGED <<publication, req>>

\* A claim may take a handle kept for somebody else (RosterReserve).
Claim(u, h) ==
  /\ Changed
  /\ handle[u] = None /\ ~InUse(h)
  /\ handle' = [handle EXCEPT ![u] = h]
  /\ UNCHANGED <<reserve, app_status>>

Rename(u, h) ==
  /\ Changed
  /\ handle[u] # None /\ ~InUse(h)
  /\ handle' = [handle EXCEPT ![u] = h]
  /\ reserve' = [g \in Handles |->
       IF g = handle[u] THEN u ELSE IF reserve[g] = u THEN None ELSE reserve[g]]
  /\ UNCHANGED app_status

ReserveEnds(h) ==
  /\ Changed
  /\ reserve[h] # None
  /\ reserve' = [reserve EXCEPT ![h] = None]
  /\ UNCHANGED <<handle, app_status>>

\* PUT /v1/apps/{app_id}.  It reads the row first for the fields it keeps,
\* which nothing else writes.
PutApp(a, status) ==
  /\ Changed
  /\ app_status' = [app_status EXCEPT ![a] = status]
  /\ UNCHANGED <<handle, reserve>>

(***************************************************************************)
(* All steps, with what requests meet on their way                         *)
(***************************************************************************)
\* The slug becomes another app's.
Taken(r) == Entry(r)' # Entry(r) /\ Entry(r)' # None /\ Entry(r)'.app # req[r].app

Observed ==
  met' = [r \in Requests |->
    [nowhere |-> /\ req'[r].at \in Resolving
                 /\ met[r].nowhere \/ \E h \in Handles : h = req'[r].h /\ ~Leads(h)',
     taken |-> /\ req'[r].at \in Resolving
               /\ met[r].taken \/
                  \E h \in Handles : h = req'[r].h /\ ~InUse(h) /\ InUse(h)',
     raced |-> /\ req[r].at \in Writing /\ req'[r].at \in Writing
               /\ met[r].raced \/ Taken(r)]]

Step(r) ==
  \/ ReadUser(r) \/ ReadReserve(r) \/ ReadMoved(r) \/ CheckSlug(r) \/ CheckApp(r)
  \/ Look(r) \/ WriteRow(r) \/ Reread(r)
  \/ Timeout(r) \/ LateLands(r) \/ LateIsLost(r)

Next ==
  /\ \/ \E r \in Requests, h \in Handles : Visit(r, h)
     \/ \E r \in Requests, op \in {"put", "delete"}, h \in Handles, s \in Slugs,
           a \in Apps : Call(r, op, h, s, a)
     \/ \E r \in Requests : Step(r)
     \/ \E u \in UsrIds, h \in Handles : Claim(u, h) \/ Rename(u, h)
     \/ \E h \in Handles : ReserveEnds(h)
     \/ \E a \in Apps, status \in {"active", "off"} : PutApp(a, status)
  /\ Observed

Spec == Init /\ [][Next]_vars

(***************************************************************************)
(* Properties                                                              *)
(***************************************************************************)
TypeOK ==
  /\ handle \in [Publishers -> Handles \cup {None}]
  /\ reserve \in [Handles -> UsrIds \cup {None}]
  /\ app_status \in [Apps -> {"active", "off", None}]
  /\ publication \in [Publishers -> [Slugs -> Row \cup {None}]]
  /\ req \in [Requests -> Request]
  /\ changes \in 0..MaxChanges
  /\ met \in [Requests -> [nowhere : BOOLEAN, taken : BOOLEAN, raced : BOOLEAN]]

\* Whatever renames, claims and late writes come between the check and the
\* write, an entry was last written for somebody to whom GET /v1/me/publishers
\* offers its publisher, and the publisher still has a handle to find it under.
\* The row of migration 013, as long as it is what it was, names a person nobody
\* has checked.
EntitledOnly ==
  \A p \in Publishers, s \in Slugs :
    publication[p][s] \notin {None, SeededRows[p][s]} =>
      p \in MyPublishers(publication[p][s].updated_by)

\* Unless somebody takes the handle, or takes it back, while a request looks it
\* up, what is answered of it was true at some moment: it leads nowhere (404) only
\* if it did, and it moved (301) only to another handle.  A take-back between the
\* two lookups is answered 404 though the handle led to the same person all along.
AnswersMeetAMoment ==
  \A r \in Requests :
    /\ req[r].at = "reserve" /\ reserve[req[r].h] = None =>
         met[r].nowhere \/ met[r].taken
    /\ req[r].at = "moved" /\ handle[req[r].publisher] = req[r].h => met[r].taken

\* The index as PublicationIndex sees it: whose the entries are, and the writes
\* on their way.
AppOf(row) == IF row = None THEN None ELSE row.app

index == [p \in Publishers |-> [s \in Slugs |-> AppOf(publication[p][s])]]

FirstIndex == [p \in Publishers |-> [s \in Slugs |-> AppOf(SeededRows[p][s])]]

Leave(w) == [op |-> w.op, publisher |-> w.publisher, slug |-> w.slug, app |-> w.app]

leave ==
  [r \in Requests |-> IF req[r].at \in Writing THEN Leave(PendingWrite(r)) ELSE None]

Index == INSTANCE PublicationIndex WITH First <- FirstIndex, Binding <- FALSE

\* A request touches an entry only after a moment when the slug was free or its
\* app's, and once at most: however often the write is tried, held back or cut
\* off, it has no second effect.
OnlyWithLeave == Index!IndexSpec

\* ADR-024, migration 013:45: an app changes and removes its own entries only.
\* What the check and the later write keep of it: an entry goes by its own app's
\* delete, or by a write under way since before another app came to have the slug.
OverwritesOnlyInRace ==
  [][\A p \in Publishers, s \in Slugs :
       index[p][s] # None /\ index'[p][s] # index[p][s] =>
         \E r \in Requests :
           /\ leave[r] # None /\ leave[r].publisher = p /\ leave[r].slug = s
           /\ leave'[r] = None
           /\ met[r].raced \/ (leave[r].op = "delete" /\ leave[r].app = index[p][s])]_vars
=============================================================================
