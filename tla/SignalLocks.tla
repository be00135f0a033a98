----------------------------- MODULE SignalLocks -----------------------------
(***************************************************************************)
(* The functions of io_signal.h step by step: the read and write locks of  *)
(* kernel/mutex.c on sigpending_mutexes[p] and sigusing_mutexes[p], the    *)
(* wait queues under them, and the read-modify-writes they protect.        *)
(*                                                                         *)
(* Module IoHelper takes each of these functions as one step; this module  *)
(* is why it may, for the signal bits, the numbers and req_nums.           *)
(*                                                                         *)
(*   mstate      state of each mutex: 0 free, -1 write locked, n readers   *)
(*   wq          its wait queue                                            *)
(*   wqe         each thread's wait_queue_elem                             *)
(*   pc          each thread's place                                       *)
(*   op, signo   the function it is in, and for which number               *)
(*   held        the locks it has, the last one taken last                 *)
(*   waking      the type of waiter wq_wake_next has settled on            *)
(*   seen        what its read-modify-write has read                       *)
(*   pending, using, req_nums, poll_times    the data of one peripheral    *)
(*   mine        the number each client has allocated, and may release     *)
(*   requested, announced   numbers handed to the loop; those it has made  *)
(*               ready and that have not been released since               *)
(*   left        calls a client will still make                            *)
(*                                                                         *)
(* A section under a spin lock is one step. A definition whose comment     *)
(* says "Mutant" is not part of the model.                                 *)
(***************************************************************************)
EXTENDS Integers, Sequences, FiniteSets, SequencesExt

CONSTANTS
    Clients,        \* threads in commands of the PTA
    Loop,           \* the thread in START_LOOP
    N_SUB_SIG,      \* how many signal numbers the peripheral has
    MaxCalls        \* bound: calls each client makes

ASSUME SignalLocksAssumption ==
    /\ Loop \notin Clients /\ MaxCalls \in Nat
    /\ N_SUB_SIG \in Nat \ {0}

Signos == 0 .. N_SUB_SIG - 1
Threads == Clients \cup {Loop}
Mutexes == {"sigpending", "sigusing"}
None == -1

Ops == {"allocate_signo", "release_signo", "set_ready_signal", "get_ready_signal",
        "get_req_num"}

\* Mutant: release_signo takes the mutexes in one order, allocate_signo in the
\* other.
locks_both_ways(o) ==
    CASE o = "allocate_signo" -> << <<"sigusing", "write">>, <<"sigpending", "write">> >>
      [] o = "release_signo" -> << <<"sigpending", "write">>, <<"sigusing", "write">> >>
      [] o = "set_ready_signal" -> << <<"sigpending", "write">> >>
      [] o = "get_ready_signal" -> << <<"sigpending", "read">> >>
      [] o = "get_req_num" -> << <<"sigusing", "read">> >>
\* Mutant: release_signo clears the pending bit without its mutex.
locks_only_using(o) ==
    CASE o \in {"allocate_signo", "release_signo"} -> << <<"sigusing", "write">> >>
      [] o = "set_ready_signal" -> << <<"sigpending", "write">> >>
      [] o = "get_ready_signal" -> << <<"sigpending", "read">> >>
      [] o = "get_req_num" -> << <<"sigusing", "read">> >>
\* Mutant: the number is allocated under a read lock.
locks_read_using(o) ==
    CASE o \in {"allocate_signo", "get_req_num"} -> << <<"sigusing", "read">> >>
      [] o = "release_signo" -> << <<"sigpending", "write">>, <<"sigusing", "write">> >>
      [] o = "set_ready_signal" -> << <<"sigpending", "write">> >>
      [] o = "get_ready_signal" -> << <<"sigpending", "read">> >>
\* The locks a function takes, in order; is_ready_signal is get_ready_signal
\* and is_using_signo is get_req_num as far as locks and writes go.
locks_of(o) ==
    CASE o = "allocate_signo" -> << <<"sigusing", "write">> >>
      [] o = "release_signo" -> << <<"sigpending", "write">>, <<"sigusing", "write">> >>
      [] o = "set_ready_signal" -> << <<"sigpending", "write">> >>
      [] o = "get_ready_signal" -> << <<"sigpending", "read">> >>
      [] o = "get_req_num" -> << <<"sigusing", "read">> >>

VARIABLES mstate, wq, wqe, pc, op, signo, held, waking, seen,
          pending, using, req_nums, poll_times,
          mine, requested, announced, left, panicked

locks == <<mstate, wq, wqe, held, waking>>
data == <<pending, using, req_nums, poll_times>>
book == <<mine, requested, announced, left>>
vars == <<mstate, wq, wqe, pc, op, signo, held, waking, seen,
          pending, using, req_nums, poll_times,
          mine, requested, announced, left, panicked>>

NoRead == [pending |-> {}, using |-> {}, req_nums |-> 0, poll_times |-> 0]

Init ==
    /\ mstate = [m \in Mutexes |-> 0] /\ wq = [m \in Mutexes |-> << >>]
    /\ wqe = [t \in Threads |-> [read |-> FALSE, done |-> FALSE]]
    /\ pc = [t \in Threads |-> "out"]
    /\ op = [t \in Threads |-> "get_req_num"] /\ signo = [t \in Threads |-> None]
    /\ held = [t \in Threads |-> << >>] /\ waking = [t \in Threads |-> "any"]
    /\ seen = [t \in Threads |-> NoRead]
    /\ pending = {} /\ using = {} /\ req_nums = 0 /\ poll_times = 0
    /\ mine = [c \in Clients |-> None]
    /\ requested = << >> /\ announced = {}
    /\ left = [c \in Clients |-> MaxCalls]
    /\ panicked = FALSE

Goto(t, l) == pc' = [pc EXCEPT ![t] = l]

\* The lock t takes next, and the one it gives back next.
NextLock(t) == locks_of(op[t])[Len(held[t]) + 1]
LastLock(t) == Last(held[t])

-----------------------------------------------------------------------------
(* kernel/mutex.c, kernel/wait_queue.c *)

\* Whether mutex_lock or mutex_read_lock finds the mutex free for it.
can_lock(s, mode) == IF mode = "read" THEN s # -1 ELSE s = 0

\* mutex_lock, mutex_read_lock: take the mutex, or join its wait queue.
Lock(t) ==
    LET m == NextLock(t)[1] mode == NextLock(t)[2]
    IN  /\ pc[t] = "lock"
        /\ IF can_lock(mstate[m], mode)
             THEN /\ mstate' = [mstate EXCEPT ![m] = IF mode = "read" THEN @ + 1 ELSE -1]
                  /\ held' = [held EXCEPT ![t] = Append(@, NextLock(t))]
                  /\ Goto(t, IF Len(held[t]) + 1 = Len(locks_of(op[t])) THEN "read" ELSE "lock")
                  /\ UNCHANGED <<wq, wqe>>
             ELSE /\ wq' = [wq EXCEPT ![m] = Append(@, t)]
                  /\ wqe' = [wqe EXCEPT ![t] = [read |-> mode = "read", done |-> FALSE]]
                  /\ Goto(t, "wait")
                  /\ UNCHANGED <<mstate, held>>
        /\ UNCHANGED <<op, signo, waking, seen, panicked, data, book>>

\* wq_wait_final: once marked, leave the wait queue and try again.
wq_wait_final(t) ==
    LET m == NextLock(t)[1]
    IN  /\ pc[t] = "wait" /\ wqe[t].done
        /\ wq' = [wq EXCEPT ![m] = Remove(@, t)]
        /\ wqe' = [wqe EXCEPT ![t] = [read |-> FALSE, done |-> FALSE]]
        /\ Goto(t, "lock")
        /\ UNCHANGED <<mstate, op, signo, held, waking, seen, panicked, data, book>>

\* The mutex was unlocked: "wake eventual waiters".
unlock_wakes(mode, new) == new = 0

\* mutex_unlock, mutex_read_unlock up to the wake-up; the asserted states.
Unlock(t) ==
    LET m == LastLock(t)[1] mode == LastLock(t)[2]
        new == IF mode = "read" THEN mstate[m] - 1 ELSE 0
    IN  /\ pc[t] = "unlock"
        /\ IF mstate[m] = 0 \/ (mode = "read" /\ mstate[m] < 0)
             THEN panicked' = TRUE /\ UNCHANGED <<mstate, pc>>
             ELSE /\ mstate' = [mstate EXCEPT ![m] = new]
                  /\ Goto(t, IF unlock_wakes(mode, new) THEN "wake" ELSE "unlocked")
                  /\ UNCHANGED panicked
        /\ UNCHANGED <<wq, wqe, op, signo, held, waking, seen, data, book>>

\* The waiters wq_wake_next may mark: of the type it has settled on.
Wakable(m, type) ==
    {i \in 1 .. Len(wq[m]) : ~ wqe[wq[m][i]].done
        /\ (type = "any" \/ (type = "read") = wqe[wq[m][i]].read)}
FirstWakable(m, type) == CHOOSE i \in Wakable(m, type) : \A j \in Wakable(m, type) : i <= j

\* One round of wq_wake_next: mark the first waiter that is not done, and go
\* round again after a reader, to wake all of them.
Wake(t) ==
    LET m == LastLock(t)[1]
        u == wq[m][FirstWakable(m, waking[t])]
    IN  /\ pc[t] = "wake"
        /\ IF Wakable(m, waking[t]) = {}
             THEN Goto(t, "unlocked") /\ UNCHANGED <<wqe, waking>>
             ELSE /\ wqe' = [wqe EXCEPT ![u].done = TRUE]
                  /\ waking' = [waking EXCEPT ![t] = IF wqe[u].read THEN "read" ELSE "write"]
                  /\ Goto(t, IF wqe[u].read THEN "wake" ELSE "unlocked")
        /\ UNCHANGED <<mstate, wq, op, signo, held, seen, panicked, data, book>>

\* The unlock returns: the next lock is given back, or the function ends.
Unlocked(t) ==
    /\ pc[t] = "unlocked"
    /\ held' = [held EXCEPT ![t] = Front(@)]
    /\ waking' = [waking EXCEPT ![t] = "any"]
    /\ IF Len(held[t]) > 1
         THEN Goto(t, "unlock") /\ UNCHANGED <<op, signo, seen>>
         ELSE /\ Goto(t, "out")
              /\ op' = [op EXCEPT ![t] = "get_req_num"]
              /\ signo' = [signo EXCEPT ![t] = None]
              /\ seen' = [seen EXCEPT ![t] = NoRead]
    /\ UNCHANGED <<mstate, wq, wqe, panicked, data, book>>

-----------------------------------------------------------------------------
(* io_signal.h: what happens under the locks, the reads and then the writes. *)

\* What a function reads of the data it will write, or decide by.
WhatIsRead(o) ==
    LET signals == o \in {"release_signo", "set_ready_signal", "get_ready_signal"}
        numbers == o \in {"allocate_signo", "release_signo"}
    IN  [pending |-> IF signals THEN pending ELSE {},
         using |-> IF numbers THEN using ELSE {},
         req_nums |-> IF numbers THEN req_nums ELSE 0,
         poll_times |-> IF o = "get_ready_signal" THEN poll_times ELSE 0]

Read(t) ==
    /\ pc[t] = "read"
    /\ seen' = [seen EXCEPT ![t] = WhatIsRead(op[t])]
    /\ Goto(t, "write")
    /\ UNCHANGED <<op, signo, panicked, locks, data, book>>

\* The lowest number whose bit is clear.
Lowest(S) == CHOOSE s \in S : \A r \in S : s <= r

\* Nothing is written when every number is in use: the client gets -1.
allocate_signo(t) ==
    LET s == seen[t] free == Signos \ s.using n == Lowest(free)
    IN  /\ IF free = {}
             THEN UNCHANGED <<using, req_nums, mine, requested>>
             ELSE /\ using' = s.using \cup {n}
                  /\ req_nums' = s.req_nums + 1
                  /\ mine' = [mine EXCEPT ![t] = n]
                  /\ requested' = Append(requested, n)
        /\ UNCHANGED <<pending, poll_times, announced, left>>

release_signo(t) ==
    /\ pending' = seen[t].pending \ {signo[t]}
    /\ using' = seen[t].using \ {signo[t]}
    /\ req_nums' = seen[t].req_nums - 1
    /\ mine' = [mine EXCEPT ![t] = None]
    /\ announced' = announced \ {signo[t]}
    /\ UNCHANGED <<poll_times, requested, left>>

set_ready_signal(t) ==
    /\ pending' = seen[t].pending \cup {signo[t]}
    /\ announced' = announced \cup {signo[t]}
    /\ UNCHANGED <<using, req_nums, poll_times, mine, requested, left>>

\* poll_times counts the calls since a signal was found, "for test".
get_ready_signal(t) ==
    /\ poll_times' = IF seen[t].pending = {} THEN seen[t].poll_times + 1 ELSE 0
    /\ UNCHANGED <<pending, using, req_nums, mine, requested, announced, left>>

get_req_num(t) == UNCHANGED <<data, mine, requested, announced, left>>

Write(t) ==
    /\ pc[t] = "write"
    /\ CASE op[t] = "allocate_signo" -> allocate_signo(t)
         [] op[t] = "release_signo" -> release_signo(t)
         [] op[t] = "set_ready_signal" -> set_ready_signal(t)
         [] op[t] = "get_ready_signal" -> get_ready_signal(t)
         [] op[t] = "get_req_num" -> get_req_num(t)
    /\ Goto(t, "unlock")
    /\ UNCHANGED <<op, signo, seen, panicked, locks>>

-----------------------------------------------------------------------------
(* The callers. *)

\* A command: a request, a poll, or get_data for a number that is ready.
Call(c, o) ==
    /\ pc[c] = "out" /\ left[c] > 0
    /\ o = "allocate_signo" => mine[c] = None
    /\ o = "release_signo" => mine[c] \in announced
    /\ o # "set_ready_signal"
    /\ op' = [op EXCEPT ![c] = o]
    /\ signo' = [signo EXCEPT ![c] = IF o = "release_signo" THEN mine[c] ELSE None]
    /\ left' = [left EXCEPT ![c] = @ - 1]
    /\ Goto(c, "lock")
    /\ UNCHANGED <<seen, panicked, locks, data, mine, requested, announced>>

\* The loop has handled the request at the front of its queue.
LoopReady ==
    /\ pc[Loop] = "out" /\ requested # << >>
    /\ op' = [op EXCEPT ![Loop] = "set_ready_signal"]
    /\ signo' = [signo EXCEPT ![Loop] = Head(requested)]
    /\ requested' = Tail(requested)
    /\ Goto(Loop, "lock")
    /\ UNCHANGED <<seen, panicked, locks, data, mine, announced, left>>

Step(t) == Lock(t) \/ wq_wait_final(t) \/ Unlock(t) \/ Wake(t) \/ Unlocked(t)
           \/ Read(t) \/ Write(t)

\* panic() stops the core.
Next == \/ \E t \in Threads : ~ panicked /\ Step(t)
        \/ \E c \in Clients, o \in Ops : ~ panicked /\ Call(c, o)
        \/ ~ panicked /\ LoopReady

Spec == Init /\ [][Next]_vars

\* A thread inside the core is scheduled; the loop goes on to the next request.
FairSpec == Spec /\ \A t \in Threads : WF_vars(~ panicked /\ Step(t))
                 /\ WF_vars(~ panicked /\ LoopReady)

-----------------------------------------------------------------------------
(* Properties. *)

\* Who is between taking mutex m in a mode and giving it back.
Inside(m, mode) ==
    {t \in Threads : \E i \in 1 .. Len(held[t]) :
        /\ held[t][i] = <<m, mode>>
        /\ ~ (i = Len(held[t]) /\ pc[t] \in {"wake", "unlocked"})}

\* "req_nums is the number of signal using": outside a writer's section the
\* counter and the bits agree, so that no update of either was lost.
NumbersCounted ==
    Inside("sigusing", "write") = {} => req_nums = Cardinality(using)

\* Two clients never have the same number.
NumbersUnique ==
    \A c, d \in Clients : (c # d /\ mine[c] # None) => mine[c] # mine[d]

\* A signal the loop has set is there until its number is released: the
\* read-modify-writes of the loop and of get_data do not undo each other.
SignalsKept == Inside("sigpending", "write") = {} => announced = pending

\* Every function returns: readers and writers wait for each other, and
\* release_signo holds one mutex while it waits for the other, but not for ever.
CallsReturn == \A t \in Threads : (pc[t] # "out") ~> (pc[t] = "out")

=============================================================================
