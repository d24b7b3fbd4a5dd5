--------------------------- MODULE MCProductTokens --------------------------
(* The instance of ProductTokens for TLC. *)
EXTENDS ProductTokens, TLC

\* Token ids, apps and scopes are interchangeable.
Symmetry == Permutations(Tokens) \cup Permutations(Apps) \cup Permutations(Scopes)
=============================================================================
