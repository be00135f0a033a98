------------------------ MODULE MCAdaptiveCheckpoint ------------------------
(* Small instances of AdaptiveCheckpoint for TLC. *)
EXTENDS AdaptiveCheckpoint, TLC

\* Each peripheral has a request type of its own.
OwnType == [p \in Periphs |-> {p}]

\* Bound: the last request is the one that mixes.
MCNext == AdaptiveNext /\ NoteMixed /\ (mixed => sent' = sent)
MCSpec == AdaptiveMixedInit /\ [][MCNext]_<<avars, mixed>> /\ AdaptiveFairness

\* Although most checkpoints do not ask the IO helper, every callback is
\* served.
CallbackRuns == \A x \in Signals : wanted[x] # NoHandler ~> (wanted[x] = NoHandler \/ mixed)

=============================================================================
