---------------------------- MODULE MCIoSigtable ----------------------------
(* Small instances of IoSigtable for TLC. *)
EXTENDS IoSigtable, TLC

MCSpec == MixedSpec /\ Fairness

\* As long as no polled peripheral has a request without a callback, every
\* callback is served in the end...
CallbackRuns == \A x \in Signals : wanted[x] # NoHandler ~> (wanted[x] = NoHandler \/ mixed)

\* ... and "spin until all async request handled" (test/benchmarks) ends: after
\* the last request all_signal_handled becomes true outside every handler.
SpinEnds == sent = MaxReq ~> ((frames = << >> /\ io_sigpending = {}) \/ mixed)
=============================================================================
