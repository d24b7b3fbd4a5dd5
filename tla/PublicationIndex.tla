--------------------------- MODULE PublicationIndex --------------------------
(***************************************************************************)
(* What the index of readable URLs promises about `/@handle/slug`: a       *)
(* request writes or removes an entry only with leave, which it gets at a  *)
(* moment when the slug is free or its app's, for one write, and which is  *)
(* used up by it.  Leave does not lapse by itself: the write may come long *)
(* after, when the slug is another app's.  Where Binding it may not:       *)
(* "書き換えと削除は自分が登録した slug だけ" (ADR-024).                   *)
(***************************************************************************)
CONSTANTS
  Publishers,  \* usr_ids of people and organizations
  Slugs,
  Apps,        \* app_ids
  Requests,    \* who may have leave
  First,       \* publisher, slug -> the app whose entry a migration makes, or None
  Binding,     \* TRUE: leave to write ends when the slug becomes another's
  None         \* "no entry", "no leave": not an app, not a write

Write == [op : {"put", "delete"}, publisher : Publishers, slug : Slugs, app : Apps]

VARIABLES
  index,  \* publisher, slug -> the app whose entry it is, or None
  leave   \* request -> the write it may do, or None

indexVars == <<index, leave>>

IndexInit ==
  /\ index = First
  /\ leave = [r \in Requests |-> None]

\* Only what is there can be removed.
Allowed(w) ==
  index[w.publisher][w.slug] \in IF w.op = "put" THEN {None, w.app} ELSE {w.app}

Permit(r, w) ==
  /\ leave[r] = None
  /\ Allowed(w)
  /\ leave' = [leave EXCEPT ![r] = w]
  /\ UNCHANGED index

\* Once: leave ends with the write.
Perform(r) ==
  /\ leave[r] # None
  /\ Binding => Allowed(leave[r])
  /\ index' = [index EXCEPT ![leave[r].publisher][leave[r].slug] =
                 IF leave[r].op = "put" THEN leave[r].app ELSE None]
  /\ leave' = [leave EXCEPT ![r] = None]

Forgo(r) ==
  /\ leave[r] # None
  /\ leave' = [leave EXCEPT ![r] = None]
  /\ UNCHANGED index

IndexNext == \E r \in Requests : (\E w \in Write : Permit(r, w)) \/ Perform(r) \/ Forgo(r)

IndexSpec == IndexInit /\ [][IndexNext]_indexVars
=============================================================================
