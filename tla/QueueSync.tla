------------------------------ MODULE QueueSync ------------------------------
(***************************************************************************)
(* How a request reaches the loop of its peripheral: the queue mutex, the  *)
(* condition variable queue_notempty and the wait queue under both, step   *)
(* by step, with the initialisation start_loop performs on them.           *)
(*                                                                         *)
(* Module IoHelper takes each section under the queue mutex as one step    *)
(* and a condvar_signal as an immediate wake-up; this module is why it may.*)
(*                                                                         *)
(*   mstate       queue_mutexes[p].state: 0 unlocked, -1 locked            *)
(*   wq           its wait queue, the waiting threads in order             *)
(*   wqe          each thread's wait_queue_elem: done, and cv while it     *)
(*                waits for the condition variable rather than the mutex   *)
(*   cvlinked     queue_notempty[p].m # NULL                               *)
(*   nqueued      how many requests are in req_queues[p]                   *)
(*   pc, left     each thread's place; the requests it will still submit   *)
(*   panicked     the core has stopped (panic, or a NULL dereference)      *)
(*                                                                         *)
(* A definition whose comment says "Mutant" is not part of the model: it   *)
(* is a plausible mistake in the definition that follows it.               *)
(*                                                                         *)
(* A section under a spin lock is one step. What happens to a request      *)
(* between two turns of the loop is left out.                              *)
(***************************************************************************)
EXTENDS Integers, Sequences, FiniteSets, SequencesExt

CONSTANTS
    Requesters,     \* threads in read_req and its siblings
    Loops,          \* threads in START_LOOP for this peripheral
    StartFirst,     \* are requests sent only once a loop has been set up?
    MaxReq          \* bound: requests each requester submits

Threads == Requesters \cup Loops

ASSUME ThreadsAssumption == Requesters \cap Loops = {} /\ MaxReq \in Nat
                            /\ StartFirst \in BOOLEAN

VARIABLES mstate, wq, wqe, cvlinked, nqueued, pc, left, panicked

vars == <<mstate, wq, wqe, cvlinked, nqueued, pc, left, panicked>>

\* The threads between the return of mutex_lock and the release of the mutex.
InSection == {t \in Threads :
                 pc[t] \in {"test", "enqueue", "signal", "unlock", "cvlink", "cvsleep"}}

Init ==
    /\ mstate = 0 /\ wq = << >> /\ cvlinked = FALSE    \* static, zeroed
    /\ wqe = [t \in Threads |-> [cv |-> FALSE, done |-> FALSE]]
    /\ nqueued = 0
    /\ pc = [t \in Threads |-> IF t \in Loops THEN "minit" ELSE "out"]
    /\ left = [t \in Requesters |-> MaxReq]
    /\ panicked = FALSE

Goto(t, p) == pc' = [pc EXCEPT ![t] = p]

\* panic() stops the core: no thread takes a step afterwards.
Panic == panicked' = TRUE /\ UNCHANGED <<mstate, wq, wqe, cvlinked, nqueued, pc, left>>

-----------------------------------------------------------------------------
(* kernel/wait_queue.c *)

\* The first thread of the wait queue that is in S, if there is one.
FirstOf(S) == {wq[i] : i \in {k \in 1 .. Len(wq) :
                  wq[k] \in S /\ \A j \in 1 .. k - 1 : wq[j] \notin S}}

IsActive(e) == ~ e.cv /\ ~ e.done
IsCondvar(e) == e.cv

\* Mutant: wakes nobody.
wakes_none == {}
\* The thread wq_wake_next marks: the first that waits for the mutex.
wake_next == FirstOf({t \in Threads : IsActive(wqe[t])})

\* Mutant: promotes nobody.
promotes_none == {}
\* The thread wq_promote_condvar turns into one that waits for the mutex.
promote == FirstOf({t \in Threads : IsCondvar(wqe[t])})

-----------------------------------------------------------------------------
(* kernel/mutex.c *)

\* Where a thread goes once it has the mutex.
Section(t) == IF t \in Loops THEN "test" ELSE "enqueue"

\* Mutant: a thread that finds the mutex locked goes on.
barges(t) == TRUE
can_lock(t) == mstate = 0

mutex_lock(t) ==
    /\ pc[t] = "lock"
    /\ IF can_lock(t)
         THEN mstate' = -1 /\ Goto(t, Section(t)) /\ UNCHANGED <<wq, wqe>>
         ELSE /\ wq' = Append(wq, t)
              /\ wqe' = [wqe EXCEPT ![t] = [cv |-> FALSE, done |-> FALSE]]
              /\ Goto(t, "wait") /\ UNCHANGED mstate
    /\ UNCHANGED <<cvlinked, nqueued, left, panicked>>

\* wq_wait_final: once marked, leave the wait queue and try the mutex again.
\* An element the wait queue no longer holds makes SLIST_REMOVE run off its end.
wq_wait_final(t) ==
    /\ pc[t] = "wait" /\ wqe[t].done
    /\ IF Contains(wq, t)
         THEN /\ wq' = RemoveFirst(wq, t)
              /\ Goto(t, "lock")
              /\ UNCHANGED <<mstate, wqe, cvlinked, nqueued, left, panicked>>
         ELSE Panic

\* The first half of mutex_unlock; unlocking an unlocked mutex panics.
mutex_unlock(t) ==
    /\ pc[t] = "unlock"
    /\ IF mstate = 0 THEN Panic
       ELSE /\ mstate' = 0
            /\ Goto(t, "wake")
            /\ UNCHANGED <<wq, wqe, cvlinked, nqueued, left, panicked>>

\* Its second half, wq_wake_next, also at the end of condvar_wait.
wq_wake_next(t) ==
    /\ pc[t] \in {"wake", "cvwake"}
    /\ wqe' = [u \in Threads |-> [wqe[u] EXCEPT !.done = @ \/ u \in wake_next]]
    /\ Goto(t, IF pc[t] = "cvwake" THEN "wait"
               ELSE IF t \in Loops THEN "lock" ELSE "out")
    /\ UNCHANGED <<mstate, wq, cvlinked, nqueued, left, panicked>>

\* condvar_wait links the condvar to the mutex, ...
condvar_link(t) ==
    /\ pc[t] = "cvlink"
    /\ cvlinked' = TRUE
    /\ Goto(t, "cvsleep")
    /\ UNCHANGED <<mstate, wq, wqe, nqueued, left, panicked>>

\* ... then joins the wait queue and unlocks the mutex under one spin lock.
condvar_sleep(t) ==
    /\ pc[t] = "cvsleep"
    /\ IF mstate = 0 THEN Panic
       ELSE /\ wq' = Append(wq, t)
            /\ wqe' = [wqe EXCEPT ![t] = [cv |-> TRUE, done |-> FALSE]]
            /\ mstate' = 0
            /\ Goto(t, "cvwake")
            /\ UNCHANGED <<cvlinked, nqueued, left, panicked>>

condvar_signal(t) ==
    /\ pc[t] = "signal"
    /\ wqe' = [u \in Threads |->
                 [wqe[u] EXCEPT !.cv = @ /\ ~ (cvlinked /\ u \in promote)]]
    /\ Goto(t, "unlock")
    /\ UNCHANGED <<mstate, wq, cvlinked, nqueued, left, panicked>>

-----------------------------------------------------------------------------
(* io_helper_service.c *)

\* read_req and its siblings reach mutex_lock(&queue_mutexes[periph_no]).
read_req(t) ==
    /\ pc[t] = "out"
    /\ left[t] > 0
    /\ StartFirst => \A l \in Loops : pc[l] \notin {"minit", "cvinit"}
    /\ left' = [left EXCEPT ![t] = @ - 1]
    /\ Goto(t, "lock")
    /\ UNCHANGED <<mstate, wq, wqe, cvlinked, nqueued, panicked>>

enqueue(t) ==
    /\ pc[t] = "enqueue"
    /\ nqueued' = nqueued + 1
    /\ Goto(t, "signal")
    /\ UNCHANGED <<mstate, wq, wqe, cvlinked, left, panicked>>

\* start_loop: mutex_init, then condvar_init, whatever the state of both.
start_mutex_init(t) ==
    /\ pc[t] = "minit"
    /\ mstate' = 0 /\ wq' = << >>
    /\ Goto(t, "cvinit")
    /\ UNCHANGED <<wqe, cvlinked, nqueued, left, panicked>>

start_condvar_init(t) ==
    /\ pc[t] = "cvinit"
    /\ cvlinked' = FALSE
    /\ Goto(t, "lock")
    /\ UNCHANGED <<mstate, wq, wqe, nqueued, left, panicked>>

\* while(is_empty(...)) condvar_wait(...), else dequeue.
loop_test(t) ==
    /\ pc[t] = "test"
    /\ IF nqueued = 0
         THEN Goto(t, "cvlink") /\ UNCHANGED nqueued
         ELSE Goto(t, "unlock") /\ nqueued' = nqueued - 1
    /\ UNCHANGED <<mstate, wq, wqe, cvlinked, left, panicked>>

Step(t) ==
    /\ ~ panicked
    /\ \/ mutex_lock(t) \/ wq_wait_final(t) \/ mutex_unlock(t) \/ wq_wake_next(t)
       \/ condvar_link(t) \/ condvar_sleep(t) \/ condvar_signal(t)
       \/ enqueue(t) \/ start_mutex_init(t) \/ start_condvar_init(t) \/ loop_test(t)

Next == \/ \E t \in Threads : Step(t)
        \/ \E t \in Requesters : ~ panicked /\ read_req(t)

SafeSpec == Init /\ [][Next]_vars

\* A thread the normal world has entered into the core is scheduled; a wait in
\* notif_wait ends only through the wake-ups modelled here.
Spec == SafeSpec /\ \A t \in Threads : WF_vars(Step(t))

-----------------------------------------------------------------------------
(* Properties *)

\* At most one thread works on the request queue, and the mutex is locked
\* exactly while one does.
MutualExclusion ==
    /\ \A t, u \in InSection : t = u
    /\ (InSection # {}) <=> (mstate = -1)

\* No thread unlocks an unlocked mutex or is woken out of a wait queue it is
\* not in: "if (!m->state) panic();" (kernel/mutex.c) is never reached.
NoPanic == ~ panicked

\* A request in the queue has somebody on its way to it: the loop is awake, or
\* has been promoted, or the requester that queued it is about to signal.
SomeoneComes ==
    nqueued > 0 =>
       \/ \E t \in Requesters : pc[t] = "signal"
       \/ \E l \in Loops : ~ (pc[l] \in {"wait", "cvwake"} /\ wqe[l].cv)

\* Every request is taken from the queue by the loop.
QueueDrained == (nqueued > 0) ~> (nqueued = 0)

\* No thread is left in the core: every command that asks for the mutex
\* returns.
RequestersReturn == \A t \in Requesters : (pc[t] = "lock") ~> (pc[t] = "out")
=============================================================================
