---------------------------- MODULE MCQueueSync ----------------------------
(* Small instances of QueueSync for TLC. *)
EXTENDS QueueSync, TLC

RequesterSymmetry == Permutations(Requesters)
=============================================================================
