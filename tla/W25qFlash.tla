------------------------------ MODULE W25qFlash ------------------------------
(***************************************************************************)
(* The driver of the W25Q flash chips and the threads that call it (the    *)
(* flash PTA). A driver function is a row of transfers between spi_acquire *)
(* and spi_release.                                                        *)
(*                                                                         *)
(*   state      spi_locks[bus].state: is the bus's mutex locked?           *)
(*   panicked   has a thread unlocked it while it was not?                 *)
(*   pc, fn, i  each thread's place: function and step                     *)
(*   lastby     the thread that made the last transfer                     *)
(*   mixed      has another thread's transfer come between those of the    *)
(*              thread's function?                                         *)
(*   res        what each thread's last function returned, and mixed       *)
(*   unheld     has a function gone on after spi_acquire refused it?       *)
(*   left       calls a thread will still make                             *)
(*                                                                         *)
(* A step ends in success or in failure; there is no chip here. What       *)
(* success of a transfer tells about the bytes on the wire is module       *)
(* SpiTransfer's: a command without data may still be in the FIFO, and the *)
(* status that is read is the byte clocked in with the command. So success *)
(* of a function does not mean that the chip has done anything.            *)
(* A definition whose comment says "Mutant" is not part of the model.      *)
(***************************************************************************)
EXTENDS Integers, Sequences

CONSTANTS
    Threads,        \* callers of the flash PTA
    MaxCalls        \* bound: calls each thread makes

-----------------------------------------------------------------------------
(* The driver functions. *)

\* A step: a transfer, or a wait, which is a row of status reads; a failure of it
\* ends the function if must.
Enable == [op |-> "enable", must |-> TRUE]
Disable == [op |-> "disable", must |-> TRUE]
Address == [op |-> "address", must |-> TRUE]
Operate == [op |-> "operate", must |-> TRUE]
Read == [op |-> "read", must |-> TRUE]
Wait == [op |-> "wait", must |-> TRUE]
\* Steps whose result is overwritten by "return TEE_SUCCESS".
Ignored(step) == [op |-> step.op, must |-> FALSE]

w25qxx_write_enable == <<Enable, Wait>>
w25qxx_init == w25qxx_write_enable
w25qxx_write_disable == <<Disable, Wait>>
w25qxx_wait_until_ready == <<Wait>>
w25qxx_read_status == <<Read>>
w25qxx_write_status == <<Operate>>
w25qxx_read_id == <<Read>>
w25qxx_read_data == <<Address, Ignored(Read)>>
w25qxx_page_program == <<Enable, Wait, Address, Operate, Ignored(Wait)>>
w25qxx_sector_erase == <<Enable, Wait, Operate, Ignored(Wait)>>
w25qxx_chip_erase == <<Enable, Wait, Operate, Ignored(Wait)>>

Steps ==
    [w25qxx_init |-> w25qxx_init, w25qxx_write_enable |-> w25qxx_write_enable,
     w25qxx_write_disable |-> w25qxx_write_disable,
     w25qxx_wait_until_ready |-> w25qxx_wait_until_ready,
     w25qxx_read_status |-> w25qxx_read_status, w25qxx_write_status |-> w25qxx_write_status,
     w25qxx_read_id |-> w25qxx_read_id, w25qxx_read_data |-> w25qxx_read_data,
     w25qxx_page_program |-> w25qxx_page_program,
     w25qxx_sector_erase |-> w25qxx_sector_erase, w25qxx_chip_erase |-> w25qxx_chip_erase]
Fns == DOMAIN Steps

\* The functions that look at what spi_acquire returned.
Checking == {"w25qxx_read_id", "w25qxx_page_program"}

FlashAssumption == MaxCalls \in Nat

-----------------------------------------------------------------------------

VARIABLES state, panicked, pc, fn, i, lastby, mixed, res, unheld, left

vars == <<state, panicked, pc, fn, i, lastby, mixed, res, unheld, left>>

Nobody == "nobody"
NoFn == "w25qxx_init"

Init ==
    /\ state = FALSE /\ panicked = FALSE
    /\ pc = [t \in Threads |-> "out"] /\ fn = [t \in Threads |-> NoFn]
    /\ i = [t \in Threads |-> 1]
    /\ lastby = Nobody /\ mixed = [t \in Threads |-> FALSE]
    /\ res = [t \in Threads |-> [ret |-> "none", mixed |-> FALSE]]
    /\ unheld = FALSE
    /\ left = [t \in Threads |-> MaxCalls]

Goto(t, l) == pc' = [pc EXCEPT ![t] = l]

Call(t, f) ==
    /\ pc[t] = "out" /\ left[t] > 0 /\ ~ panicked
    /\ Goto(t, "acquire")
    /\ fn' = [fn EXCEPT ![t] = f] /\ i' = [i EXCEPT ![t] = 1]
    /\ mixed' = [mixed EXCEPT ![t] = FALSE]
    /\ left' = [left EXCEPT ![t] = @ - 1]
    /\ UNCHANGED <<state, panicked, lastby, res, unheld>>

Result(t, r) == res' = [res EXCEPT ![t] = [ret |-> r, mixed |-> mixed[t]]]

can_lock == ~ state

\* The chip select is looked at first. A refused one is an error to some
\* functions; the others go on, without the mutex.
spi_acquire(t) ==
    /\ pc[t] = "acquire" /\ ~ panicked
    /\ \/ Goto(t, "lock") /\ UNCHANGED <<res, unheld>>
       \/ fn[t] \in Checking /\ Result(t, "error") /\ Goto(t, "out") /\ UNCHANGED unheld
       \/ fn[t] \notin Checking /\ unheld' = TRUE /\ Goto(t, "in") /\ UNCHANGED res
    /\ UNCHANGED <<state, panicked, fn, i, lastby, mixed, left>>

\* spi_acquire's mutex_lock.
mutex_lock(t) ==
    /\ pc[t] = "lock" /\ ~ panicked /\ can_lock
    /\ state' = TRUE /\ Goto(t, "in")
    /\ UNCHANGED <<panicked, fn, i, lastby, mixed, res, unheld, left>>

Step(t) == Steps[fn[t]][i[t]]
InStep(t) == pc[t] = "in" /\ i[t] <= Len(Steps[fn[t]]) /\ ~ panicked

\* A transfer on the bus; the one before should be this function's.
Transfers(t) ==
    /\ lastby' = t
    /\ mixed' = [mixed EXCEPT ![t] = @ \/ (i[t] > 1 /\ lastby # t)]

\* A step that succeeds, or whose failure does not count: on to the next.
step_done(t) ==
    /\ InStep(t)
    /\ Transfers(t)
    /\ i' = [i EXCEPT ![t] = @ + 1]
    /\ UNCHANGED <<state, panicked, pc, fn, res, unheld, left>>

\* A failed transfer, and a wait that is over (also at the look that finds the
\* chip ready), end the function.
step_fails(t) ==
    /\ InStep(t) /\ Step(t).must
    /\ Transfers(t)
    /\ Result(t, "error") /\ Goto(t, "release")
    /\ UNCHANGED <<state, panicked, fn, i, unheld, left>>

\* The last step is done: success.
finish(t) ==
    /\ pc[t] = "in" /\ i[t] > Len(Steps[fn[t]]) /\ ~ panicked
    /\ Result(t, "ok") /\ Goto(t, "release")
    /\ UNCHANGED <<state, panicked, fn, i, lastby, mixed, unheld, left>>

\* Mutant: an error path returns without spi_release.
unlocks_after_success(t) == res[t].ret = "ok"
\* Every way out goes through spi_release.
unlocks(t) == TRUE

\* mutex_unlock does not ask who has locked; it panics when nobody has.
spi_release(t) ==
    /\ pc[t] = "release" /\ ~ panicked
    /\ IF unlocks(t)
         THEN state' = FALSE /\ panicked' = ~ state
         ELSE UNCHANGED <<state, panicked>>
    /\ Goto(t, "out")
    /\ UNCHANGED <<fn, i, lastby, mixed, res, unheld, left>>

-----------------------------------------------------------------------------

Work(t) ==
    \/ spi_acquire(t) \/ mutex_lock(t)
    \/ step_done(t) \/ step_fails(t) \/ finish(t) \/ spi_release(t)

Next == \E t \in Threads : Work(t) \/ \E f \in Fns : Call(t, f)

Spec == Init /\ [][Next]_vars

\* Threads run, and the mutex serves its waiters in turn. A wait ends: the driver
\* looks at the time after every status read.
FairSpec == Spec /\ \A t \in Threads : WF_vars(Work(t)) /\ SF_vars(mutex_lock(t))

-----------------------------------------------------------------------------
(* Properties. *)

\* At most one thread is between acquiring and releasing the bus, and nobody
\* releases what is not held, until a function goes on without the bus.
ExclusiveBus ==
    ~ unheld =>
        /\ ~ panicked
        /\ \A t, u \in Threads :
             pc[t] \in {"in", "release"} /\ pc[u] \in {"in", "release"} => t = u

\* The transfers of a function that succeeds followed each other on the bus: no
\* other caller's came between the write enable, the address and the data, until
\* a function went on without the bus.
OwnTransfers == ~ unheld => \A t \in Threads : res[t].ret = "ok" => ~ res[t].mixed

=============================================================================
