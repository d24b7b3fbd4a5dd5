---------------------------- MODULE ProductTokens ---------------------------
(***************************************************************************)
(* Product tokens (product_token.rs) and the admin endpoints that issue,   *)
(* rotate and revoke them (app.rs).  An app shows its token with every     *)
(* call; the hub keeps a row per token and never changes who it is for.    *)
(*                                                                         *)
(* Issuing and revoking are one statement of the database each, so one     *)
(* step.  A rotation is a transaction of several: BeginRotation takes its  *)
(* snapshot and reads the scopes it hands on; Rotate shortens, creates and *)
(* commits, and fails when a row it writes has been written since.         *)
(* Requests of the admin run at once and in any order: what lands after    *)
(* its request was answered 504 is the same step, later.  Dates are in any *)
(* unit of time; operations of one `now` may have happened in any order.   *)
(***************************************************************************)
EXTENDS Integers

CONSTANTS
  Tokens,      \* token ids: the hashes of the random plaintexts, each used once
  Apps,        \* app_ids
  Scopes,      \* what a token may allow
  Ttls,        \* the `ttl_days` an admin asks for
  DefaultTtl,  \* DEFAULT_TTL_DAYS
  Overlap,     \* ROTATE_OVERLAP_DAYS
  MaxTime,     \* bound: the clock stops here
  None

Row ==
  [app : Apps, scopes : SUBSET Scopes, created_at : Nat, expires_at : Nat,
   revoked_at : Nat \cup {None}]

\* What was asked and answered, and when the statement or transaction began.
IssuedToken ==
  [by : {"issue", "rotate"}, scopes : SUBSET Scopes, expires_at : Nat, since : Nat]

\* A rotation under way: what was asked, the scopes its token will have, and the
\* rows it works on, as they were when it began.
Transaction ==
  [app : Apps, asked : SUBSET Scopes, scopes : SUBSET Scopes,
   rows : [Tokens -> Row \cup {None}], since : Nat]

ASSUME TokensAssumption ==
  /\ Ttls \subseteq Nat
  /\ DefaultTtl \in Nat /\ Overlap \in Nat /\ MaxTime \in Nat
  /\ 0 < Overlap /\ Overlap < DefaultTtl
  /\ None \notin Nat
  /\ None \notin [app : Apps, scopes : SUBSET Scopes]
  /\ None \notin Row \cup IssuedToken \cup Transaction

VARIABLES
  hub_product_token,  \* token -> its row, or None
  issued,             \* token -> what was asked and answered when it was made
  rotation,           \* token -> the transaction that is to make it, or None
  now                 \* the database's clock

vars == <<hub_product_token, issued, rotation, now>>

Init ==
  /\ hub_product_token = [t \in Tokens |-> None]
  /\ issued = [t \in Tokens |-> None]
  /\ rotation = [t \in Tokens |-> None]
  /\ now = 0

Made == {t \in Tokens : hub_product_token[t] # None}

\* The WHERE of verify.
Active(t) ==
  /\ hub_product_token[t] # None
  /\ hub_product_token[t].revoked_at = None
  /\ hub_product_token[t].expires_at > now

ActiveOf(a) == {t \in Tokens : Active(t) /\ hub_product_token[t].app = a}

\* Mutant: the old token's scopes are taken from whichever token there is.
InheritedFromAny(a) ==
  {{}} \cup {hub_product_token[t].scopes :
              t \in {u \in Made : hub_product_token[u].app = a}}

\* Mutant: nothing is inherited.
InheritedNothing(a) == {{}}

\* $inherited: the scopes of the newest active token, of either of two made
\* at one `now`.
Inherited(a) ==
  IF ActiveOf(a) = {} THEN {{}}
  ELSE {hub_product_token[t].scopes :
         t \in {u \in ActiveOf(a) : \A w \in ActiveOf(a) :
                 hub_product_token[w].created_at <= hub_product_token[u].created_at}}

NewRow(a, scopes, ttl) ==
  [app |-> a, scopes |-> scopes, created_at |-> now, expires_at |-> now + ttl,
   revoked_at |-> None]

(***************************************************************************)
(* The operations                                                          *)
(***************************************************************************)
Issue(t, a, scopes, ttl) ==
  /\ hub_product_token[t] = None /\ rotation[t] = None
  /\ hub_product_token' = [hub_product_token EXCEPT ![t] = NewRow(a, scopes, ttl)]
  /\ issued' = [issued EXCEPT ![t] =
       [by |-> "issue", scopes |-> scopes, expires_at |-> now + ttl, since |-> now]]
  /\ UNCHANGED <<rotation, now>>

\* BEGIN and LET: of the app's tokens the transaction works on those that are
\* active, since no other is shortened or inherited from.
BeginRotation(t, a, asked, scopes) ==
  /\ hub_product_token[t] = None /\ rotation[t] = None
  /\ rotation' = [rotation EXCEPT ![t] =
       [app |-> a, asked |-> asked, scopes |-> scopes, since |-> now,
        rows |-> [u \in Tokens |->
                    IF u \in ActiveOf(a) THEN hub_product_token[u] ELSE None]]]
  /\ UNCHANGED <<hub_product_token, issued, now>>

\* The WHERE of rotate's UPDATE, on the rows of the snapshot.
Shortens(t) ==
  {u \in Tokens : /\ rotation[t].rows[u] # None
                  /\ rotation[t].rows[u].expires_at > now + Overlap}

\* Mutant: the old tokens end at once.
ShortenedToNothing(t) ==
  [u \in Tokens |->
     IF u \in Shortens(t) THEN [rotation[t].rows[u] EXCEPT !.expires_at = now]
     ELSE hub_product_token[u]]

\* The app's working tokens end after the overlap.
Shortened(t) ==
  [u \in Tokens |->
     IF u \in Shortens(t) THEN [rotation[t].rows[u] EXCEPT !.expires_at = now + Overlap]
     ELSE hub_product_token[u]]

\* Mutant: no transaction, and the process stops after the UPDATE.
RotateInTwo(t) ==
  /\ rotation[t] # None
  /\ \A u \in Shortens(t) : hub_product_token[u] = rotation[t].rows[u]
  /\ hub_product_token' = Shortened(t)
  /\ rotation' = [rotation EXCEPT ![t] = None]
  /\ UNCHANGED <<issued, now>>

\* UPDATE, CREATE and COMMIT: shorten the others, make one; no row that is
\* written has been written since the snapshot.
Rotate(t) ==
  /\ rotation[t] # None
  /\ \A u \in Shortens(t) : hub_product_token[u] = rotation[t].rows[u]
  /\ hub_product_token' = [Shortened(t) EXCEPT ![t] =
       NewRow(rotation[t].app, rotation[t].scopes, DefaultTtl)]
  /\ issued' = [issued EXCEPT ![t] =
       [by |-> "rotate", scopes |-> rotation[t].asked, expires_at |-> now + DefaultTtl,
        since |-> rotation[t].since]]
  /\ rotation' = [rotation EXCEPT ![t] = None]
  /\ UNCHANGED now

\* A conflict, a fault or a stop of the process: nothing of it is written.
Abort(t) ==
  /\ rotation[t] # None
  /\ rotation' = [rotation EXCEPT ![t] = None]
  /\ UNCHANGED <<hub_product_token, issued, now>>

\* Mutant: revoking a second time takes it back.
RevokeToggles(t, a) ==
  /\ hub_product_token[t] # None /\ hub_product_token[t].app = a
  /\ hub_product_token' = [hub_product_token EXCEPT ![t].revoked_at =
       IF @ = None THEN now ELSE None]
  /\ UNCHANGED <<issued, rotation, now>>

\* Another app's token, or one already revoked, is not found (404).
Revoke(t, a) ==
  /\ hub_product_token[t] # None
  /\ hub_product_token[t].app = a /\ hub_product_token[t].revoked_at = None
  /\ hub_product_token' = [hub_product_token EXCEPT ![t].revoked_at = now]
  /\ UNCHANGED <<issued, rotation, now>>

(***************************************************************************)
(* The admin's requests and the apps' calls                                *)
(***************************************************************************)
IssueToken(a) ==
  \E t \in Tokens, scopes \in SUBSET Scopes, ttl \in Ttls \cup {DefaultTtl} :
    Issue(t, a, scopes, ttl)

\* A body that names no scopes, or cannot be read, inherits.
RotateToken(a) ==
  \E t \in Tokens, asked \in SUBSET Scopes :
    \E scopes \in IF asked = {} THEN Inherited(a) ELSE {asked} :
      BeginRotation(t, a, asked, scopes)

RevokeToken(a) == \E t \in Tokens : Revoke(t, a)

\* verify and list: they can be asked at any time and change nothing.
Look == UNCHANGED vars

Tick ==
  /\ now < MaxTime
  /\ now' = now + 1
  /\ UNCHANGED <<hub_product_token, issued, rotation>>

Next ==
  \/ \E a \in Apps : IssueToken(a) \/ RotateToken(a) \/ RevokeToken(a)
  \/ \E t \in Tokens : Rotate(t) \/ Abort(t)
  \/ Look \/ Tick

Spec == Init /\ [][Next]_vars

(***************************************************************************)
(* Properties                                                              *)
(***************************************************************************)
TypeOK ==
  /\ hub_product_token \in [Tokens -> Row \cup {None}]
  /\ issued \in [Tokens -> IssuedToken \cup {None}]
  /\ rotation \in [Tokens -> Transaction \cup {None}]
  /\ now \in Nat

\* "新旧 30 日 overlap": a token works until the date its issuer was given, or
\* for Overlap after a rotation of its app that came later, whatever number of
\* rotations and issues came between, unless it is revoked.  Never longer.
KeepsItsTime ==
  \A t \in Made :
    /\ hub_product_token[t].expires_at <= issued[t].expires_at
    /\ \/ hub_product_token[t].expires_at = issued[t].expires_at
       \/ \E u \in Made :
            /\ issued[u].by = "rotate"
            /\ hub_product_token[u].app = hub_product_token[t].app
            /\ hub_product_token[u].created_at >= hub_product_token[t].created_at
            /\ hub_product_token[t].expires_at = hub_product_token[u].created_at + Overlap

\* Never "旧だけ短縮・新なし": a token whose time was cut has an heir, made for
\* its app by then and with more time left, unless the heir was revoked.
HasHeir ==
  \A t \in Made :
    hub_product_token[t].expires_at # issued[t].expires_at =>
      \E u \in Made :
        /\ u # t /\ hub_product_token[u].app = hub_product_token[t].app
        /\ hub_product_token[u].created_at + Overlap >= hub_product_token[t].expires_at
        /\ \/ hub_product_token[u].revoked_at # None
           \/ hub_product_token[u].expires_at >= hub_product_token[t].expires_at

\* A token that names no scopes of its own has those of a token of the app that
\* worked when its rotation began, never those of one revoked or expired before,
\* whatever other rotations, issues and revocations come in between.
InheritsFromTheLiving ==
  \A t \in Made :
    issued[t].by = "rotate" /\ issued[t].scopes = {}
        /\ hub_product_token[t].scopes # {} =>
      \E u \in Made :
        /\ u # t /\ hub_product_token[u].app = hub_product_token[t].app
        /\ hub_product_token[u].scopes = hub_product_token[t].scopes
        /\ hub_product_token[u].created_at <= issued[t].since
        /\ hub_product_token[u].expires_at > issued[t].since
        /\ \/ hub_product_token[u].revoked_at = None
           \/ hub_product_token[u].revoked_at >= issued[t].since

\* "権限なし token が生まれる事故の防止": a rotation makes a token without scopes
\* only when no token of the app was working as it began, or one that could do
\* nothing was.
PowerlessForAReason ==
  \A t, u \in Made :
    /\ issued[t].by = "rotate" /\ hub_product_token[t].scopes = {}
    /\ hub_product_token[u].app = hub_product_token[t].app
    /\ hub_product_token[u].created_at < issued[t].since
    /\ hub_product_token[u].expires_at > issued[t].since
    /\ hub_product_token[u].revoked_at = None
    => \E w \in Made :
         /\ w # t /\ hub_product_token[w].app = hub_product_token[t].app
         /\ hub_product_token[w].scopes = {}
         /\ hub_product_token[w].created_at >= hub_product_token[u].created_at
         /\ hub_product_token[w].created_at <= issued[t].since

\* The life of a token as its app sees it (TokenLife).
life == [t \in Tokens |->
           IF t \notin Made THEN "unborn" ELSE IF Active(t) THEN "live" ELSE "dead"]
grant == [t \in Tokens |->
            IF t \notin Made THEN None
            ELSE [app |-> hub_product_token[t].app, scopes |-> hub_product_token[t].scopes]]

Life == INSTANCE TokenLife

\* A token that was revoked or has expired never works again: no rotation of
\* its app prolongs it, no second revocation undoes the first; and no operation
\* changes whose it is or what it allows.
LivesOnce == Life!LifeSpec
=============================================================================
