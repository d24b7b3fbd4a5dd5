----------------------------- MODULE MCIngestion ----------------------------
(* Instances of Ingestion for TLC. *)
EXTENDS Ingestion, TLC

Event(i, k, x, o) == [id |-> i, key |-> k, res |-> x, op |-> o]

\* A put, its retry under a new id, and an event of another key whose id
\* collides with the retry's and which the registry refuses.
Collisions == {Event(1, "k1", "r", "put"), Event(2, "k1", "r", "put"),
               Event(2, "k2", "r", "delete")}

\* Three events of one resource, in no order.
SameResource == {Event(1, "k1", "r", "put"), Event(2, "k2", "r", "delete"),
                 Event(3, "k3", "r", "put")}

OneIsPoison == {Event(2, "k2", "r", "delete")}

PostSymmetry == Permutations(Posts)
=============================================================================
