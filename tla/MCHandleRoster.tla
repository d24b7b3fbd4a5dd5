--------------------------- MODULE MCHandleRoster --------------------------
(* Instances of HandleRoster for TLC. *)
EXTENDS HandleRoster, TLC

\* Subjects, users and request slots are interchangeable, and so are the
\* handles that are not fixed.
Symmetry ==
  Permutations(Subs) \cup Permutations(UsrIds) \cup Permutations(Requests)
    \cup Permutations(Handles \ Fixed)
=============================================================================
