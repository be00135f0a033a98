---------------------------- MODULE MCSignalLocks ----------------------------
(* A small instance of SignalLocks for TLC. *)
EXTENDS SignalLocks, TLC
=============================================================================
