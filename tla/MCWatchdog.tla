----------------------------- MODULE MCWatchdog -----------------------------
(* The instance of Watchdog for TLC. *)
EXTENDS Watchdog
=============================================================================
