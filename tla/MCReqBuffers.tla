---------------------------- MODULE MCReqBuffers ----------------------------
(* Small instances of ReqBuffers for TLC. *)
EXTENDS ReqBuffers, TLC

Symmetry == Permutations(Clients) \cup Permutations(Blocks) \cup Permutations(Signos)
=============================================================================
