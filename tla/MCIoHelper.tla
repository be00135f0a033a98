----------------------------- MODULE MCIoHelper -----------------------------
(* Small instances of IoHelper for TLC. *)
EXTENDS IoHelper, TLC

ClientSymmetry == Permutations(Clients)
=============================================================================
