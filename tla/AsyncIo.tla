------------------------------ MODULE AsyncIo ------------------------------
(***************************************************************************)
(* What one peripheral of the IO helper promises to its clients: a request *)
(* is accepted on a free signal number, completes once, and its own result *)
(* is handed out exactly once, which frees the number again.               *)
(*                                                                         *)
(* This is the abstract specification; module IoHelper is shown to         *)
(* implement it.                                                           *)
(***************************************************************************)
EXTENDS Naturals

CONSTANTS
    Signos      \* the signal numbers of the peripheral

VARIABLES
    phase,      \* phase[s]: what became of the request that holds s
    holder,     \* holder[s]: the latest request accepted on s (0: none yet)
    issued,     \* how many requests have been accepted
    served      \* the deliveries: [req, from] pairs of request and result

avars == <<phase, holder, issued, served>>

Init ==
    /\ phase = [s \in Signos |-> "free"]
    /\ holder = [s \in Signos |-> 0]
    /\ issued = 0
    /\ served = {}

\* A new request is accepted on a free number.
Accept(s) ==
    /\ phase[s] = "free"
    /\ phase' = [phase EXCEPT ![s] = "inflight"]
    /\ holder' = [holder EXCEPT ![s] = issued + 1]
    /\ issued' = issued + 1
    /\ UNCHANGED served

\* The peripheral finishes the request that holds s.
Complete(s) ==
    /\ phase[s] = "inflight"
    /\ phase' = [phase EXCEPT ![s] = "ready"]
    /\ UNCHANGED <<holder, issued, served>>

\* The result of the request that holds s is handed out, for the first time.
Deliver(s) ==
    /\ phase[s] = "ready"
    /\ \A d \in served : d.req # holder[s]
    /\ phase' = [phase EXCEPT ![s] = "free"]
    /\ served' = served \cup {[req |-> holder[s], from |-> holder[s]]}
    /\ UNCHANGED <<holder, issued>>

Next == \E s \in Signos : Accept(s) \/ Complete(s) \/ Deliver(s)

\* Every accepted request completes: the loop keeps serving its queue.
Fairness == \A s \in Signos : WF_avars(Complete(s))

SafeSpec == Init /\ [][Next]_avars
Spec == SafeSpec /\ Fairness
=============================================================================
