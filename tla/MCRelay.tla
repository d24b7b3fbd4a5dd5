------------------------------- MODULE MCRelay -----------------------------
(* An instance of Relay for TLC. *)
EXTENDS Relay, TLC
=============================================================================
