---------------------------- MODULE HandleSpace ----------------------------
(***************************************************************************)
(* What the roster promises about handles, as one atomic address book.     *)
(*                                                                         *)
(* Looked at from outside, `/@handle` is a user's address, a redirect to   *)
(* the user who moved away from it, or nobody's.  A user gets one address  *)
(* by claiming it and changes it by renaming: the old address redirects    *)
(* for ReserveFor, and a second rename waits for Cooldown (30 and 100 days *)
(* in storage.rs).  Every operation is one step here; HandleRoster shows   *)
(* how the server gets there through several database calls per request.   *)
(***************************************************************************)
EXTENDS Integers

CONSTANTS
  UsrIds,        \* `usr_` EntIds of the users
  Handles,       \* canonical handles
  Fixed,         \* handles of reserved names and organizations, never claimable
  Cooldown,      \* time between two renames of one user
  ReserveFor,    \* time an old handle redirects to the user who left it
  ReserveBinds,  \* TRUE: nobody else may take an address that redirects
  None           \* "no user", "no time": no element of the other sets

\* What the periods and sets must satisfy; HandleRoster assumes it of its own.
SpaceParameters ==
  /\ Fixed \subseteq Handles
  /\ Cooldown \in Nat \ {0}
  /\ ReserveFor \in Nat \ {0}
  /\ Cooldown < ReserveFor
  /\ ReserveBinds \in BOOLEAN
  /\ None \notin UsrIds
  /\ None \notin Nat

VARIABLES
  owner,      \* handle -> the user whose address it is, or None
  redirect,   \* handle -> the user it redirects to, or None
  changedAt,  \* user -> time of the last rename, or None
  now         \* the database's clock

spaceVars == <<owner, redirect, changedAt, now>>

(***************************************************************************)
(* Initial state and steps                                                 *)
(***************************************************************************)
SpaceInit ==
  /\ owner = [h \in Handles |-> None]
  /\ redirect = [h \in Handles |-> None]
  /\ changedAt = [u \in UsrIds |-> None]
  /\ now = 0

Homeless(u) == \A h \in Handles : owner[h] # u

\* Whether user u may make h its address.
Available(u, h) ==
  /\ h \notin Fixed
  /\ owner[h] = None
  /\ ReserveBinds => redirect[h] \in {None, u}

\* A first address.
Claim(u, h) ==
  /\ Homeless(u)
  /\ Available(u, h)
  /\ owner' = [owner EXCEPT ![h] = u]
  /\ redirect' = [redirect EXCEPT ![h] = None]
  /\ UNCHANGED <<changedAt, now>>

\* A change of address: the old one redirects from now on, in place of
\* whatever redirected to u before.
Rename(u, old, new) ==
  /\ owner[old] = u
  /\ Available(u, new)
  /\ changedAt[u] # None => changedAt[u] + Cooldown <= now
  /\ owner' = [owner EXCEPT ![old] = None, ![new] = u]
  /\ redirect' = [h \in Handles |->
                    IF h = old THEN u
                    ELSE IF h = new \/ redirect[h] = u THEN None
                    ELSE redirect[h]]
  /\ changedAt' = [changedAt EXCEPT ![u] = now]
  /\ UNCHANGED now

\* Time passes, and the redirects whose time is over lapse.
Lapse ==
  /\ now' = now + 1
  /\ redirect' = [h \in Handles |->
                    IF /\ redirect[h] # None
                       /\ changedAt[redirect[h]] + ReserveFor > now + 1
                    THEN redirect[h] ELSE None]
  /\ UNCHANGED <<owner, changedAt>>

SpaceNext ==
  \/ \E u \in UsrIds, h \in Handles : Claim(u, h)
  \/ \E u \in UsrIds, old, new \in Handles : Rename(u, old, new)
  \/ Lapse

SpaceSpec == SpaceInit /\ [][SpaceNext]_spaceVars

(***************************************************************************)
(* Properties                                                              *)
(***************************************************************************)
SpaceTypeOK ==
  /\ owner \in [Handles -> UsrIds \cup {None}]
  /\ redirect \in [Handles -> UsrIds \cup {None}]
  /\ changedAt \in [UsrIds -> Nat \cup {None}]
  /\ now \in Nat

\* A user has at most one address, and at most one redirect leads to them.
OneAddressEach ==
  \A u \in UsrIds, g, h \in Handles :
    /\ owner[g] = u /\ owner[h] = u => g = h
    /\ redirect[g] = u /\ redirect[h] = u => g = h

\* A redirect leads to a user who has an address to be redirected to, from a
\* handle that is nobody's address, and only for ReserveFor after the rename.
RedirectsLead ==
  \A h \in Handles : redirect[h] # None =>
    /\ owner[h] = None
    /\ \E g \in Handles : owner[g] = redirect[h]
    /\ changedAt[redirect[h]] # None
    /\ changedAt[redirect[h]] <= now
    /\ now < changedAt[redirect[h]] + ReserveFor

\* When reserves bind: an address that redirects to a user stops doing so only
\* when that user takes it back, renames again, or the time is over.
OldAddressKept ==
  [][\A h \in Handles, u \in UsrIds :
       redirect[h] = u /\ redirect'[h] # u =>
         \/ owner'[h] = u
         \/ changedAt'[u] # changedAt[u]
         \/ changedAt[u] + ReserveFor <= now']_spaceVars

SpaceInv == SpaceTypeOK /\ OneAddressEach /\ RedirectsLead
=============================================================================
