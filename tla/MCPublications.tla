--------------------------- MODULE MCPublications ---------------------------
(* The instance of Publications for TLC: an organization with a member and a
   guest, an entry of its made by a migration for somebody who is nobody here,
   and a slug that is also the id of an app not yet on the roster. *)
EXTENDS Publications, TLC

CONSTANTS o, ho, h1, h2, u1, u2, a, f

HandleOfOrg == o :> ho
RoleInOrg == o :> (u1 :> "member" @@ u2 :> "guest")
ShipLog ==
  [p \in Publishers |-> [x \in Slugs |->
     IF p = o THEN [app |-> a, updated_by |-> f] ELSE None]]

\* The handles people may take are alike.
Symmetry == Permutations(Requests) \cup Permutations({h1, h2})
=============================================================================
