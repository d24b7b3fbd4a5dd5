------------------------------ MODULE TokenLife -----------------------------
(***************************************************************************)
(* What an app may count on about a product token, without dates: it is    *)
(* made once, for one app and some scopes, works for a while, and once it  *)
(* has stopped working it never works again.  ProductTokens shows how the  *)
(* server keeps this with expiry dates, rotation and revocation;           *)
(* Publications relies on it.                                              *)
(***************************************************************************)
EXTENDS Integers

CONSTANTS
  Tokens,   \* token ids: hashes of the plaintexts
  Apps,     \* app_ids
  Scopes,   \* what a token may allow
  None      \* "no grant": neither an app nor a grant

VARIABLES
  life,     \* token -> whether it has been made, works, or has stopped
  grant     \* token -> the app and scopes it was made for, or None

lifeVars == <<life, grant>>

Grant == [app : Apps, scopes : SUBSET Scopes]

LifeInit ==
  /\ life = [t \in Tokens |-> "unborn"]
  /\ grant = [t \in Tokens |-> None]

\* A token made with no time to live never works.
Make(t, g, l) ==
  /\ life[t] = "unborn"
  /\ life' = [life EXCEPT ![t] = l]
  /\ grant' = [grant EXCEPT ![t] = g]

\* A token is revoked, or the time of some is over.
Stop(stopped) ==
  /\ \A t \in stopped : life[t] = "live"
  /\ life' = [t \in Tokens |-> IF t \in stopped THEN "dead" ELSE life[t]]
  /\ UNCHANGED grant

LifeNext ==
  \/ \E t \in Tokens, g \in Grant, l \in {"live", "dead"} : Make(t, g, l)
  \/ \E stopped \in SUBSET Tokens : Stop(stopped)

LifeSpec == LifeInit /\ [][LifeNext]_lifeVars
=============================================================================
