----------------------------- MODULE IoSigtable -----------------------------
(***************************************************************************)
(* The asynchronous side of the modified WebAssembly runtime: the pending  *)
(* bitmap and handler table of tz_io_sigtable.c, the checkpoint compiled   *)
(* into branches (HANDLE_IO_SIGNAL, aot_poll_ready_signal), and the native *)
(* functions through which an application sends requests and takes results *)
(* (tzio_lib.c), for one runtime instance and several peripherals.         *)
(*                                                                         *)
(* State of the code                                                       *)
(*   io_sigpending, recover_io_sigpending  the two bitmaps, as sets        *)
(*   in_handler, io_sigtable               as in the code                  *)
(*   pc, tmp, found, arg   where the runtime's only thread is: running     *)
(*                         WebAssembly, scanning (tmp_io_sigpending is what*)
(*                         is left to poll), about to call the handler of  *)
(*                         found, registering arg, waiting for arg         *)
(*   frames                the handlers on the stack                       *)
(*   req                   the IO helper: what became of each request      *)
(*   held                  the promises the application has not used yet   *)
(* History: wanted, the handler registered for the request that holds a    *)
(* number; sent, the requests so far; mixed, whether a polled peripheral   *)
(* has had a request without a callback.                                   *)
(*                                                                         *)
(* The loop thread of the IO helper runs beside the runtime, so a poll is  *)
(* one step and the scan over the pending peripherals is not. Which        *)
(* handler pointer is valid, the application's buffers and the pointer     *)
(* signatures are left out; the adaptive checkpoint is module              *)
(* AdaptiveCheckpoint (USE_ADAPTIVE_CHECKPOINT, 0 in the test build).      *)
(***************************************************************************)
EXTENDS Integers, Sequences, FiniteSets

CONSTANTS
    Periphs,      \* peripheral numbers
    NSubSig,      \* N_SUB_SIG, the signal numbers of a peripheral
    Handlers,     \* handler functions of the application
    NoHandler,    \* the null function
    Given,        \* the handler pointers the application passes
    Promises,     \* peripherals used with promises or futures, too
    HandlersTake, \* does every handler take its result before it returns?
    AOT,          \* compiled code (aot_poll_ready_signal) or interpreter
    MaxReq        \* bound: requests sent in one behaviour

Signos == 0 .. NSubSig - 1
Signals == Periphs \X Signos

ASSUME ConstantsAssumption ==
    /\ Periphs \subseteq Nat /\ NSubSig \in Nat \ {0}
    /\ NoHandler \notin Handlers
    /\ Given \subseteq Handlers \cup {NoHandler}
    /\ Promises \subseteq Periphs /\ HandlersTake \in BOOLEAN /\ AOT \in BOOLEAN
    /\ MaxReq \in Nat

VARIABLES io_sigpending, recover_io_sigpending, in_handler, io_sigtable,
          pc, tmp, found, arg, frames, req, held, wanted, sent,
          mixed

sigvars == <<io_sigpending, recover_io_sigpending, in_handler>>
scanvars == <<tmp, found>>
vars == <<sigvars, io_sigtable, pc, scanvars, arg, frames, req, held, wanted, sent>>

NoSignal == <<-1, -1>>
NoArg == [sig |-> NoSignal, fn |-> NoHandler]
Frames == [sig : Signals, fn : Handlers \cup {NoHandler}, took : BOOLEAN]

Init ==
    /\ io_sigpending = {} /\ recover_io_sigpending = {} /\ in_handler = FALSE
    /\ io_sigtable = [x \in Signals |-> NoHandler]
    /\ pc = "run" /\ tmp = {} /\ found = NoSignal /\ arg = NoArg
    /\ frames = << >>
    /\ req = [x \in Signals |-> "free"]
    /\ held = {}
    /\ wanted = [x \in Signals |-> NoHandler]
    /\ sent = 0

\* A definition whose comment says "Mutant" is not part of the model: it is a
\* plausible mistake in the definition that follows it.

\* __builtin_ffsll(bits) - 1, for a bitmap that is not zero.
Lowest(bits) == CHOOSE s \in bits : \A t \in bits : s <= t

-----------------------------------------------------------------------------
(* The commands of the IO helper, as the runtime sees them (module IoHelper) *)

Free(p) == {s \in Signos : req[<<p, s>>] = "free"}
Ready(p) == {s \in Signos : req[<<p, s>>] = "ready"}

\* Mutant: the answer "no request" is not told from "none finished".
poll_never_empty(p) == IF Ready(p) # {} THEN "SUCCESS" ELSE "BUSY"
\* What poll_to_io_helper makes of POLL's answer.
poll_to_io_helper(p) ==
    IF Free(p) = Signos THEN "NO_DATA"
    ELSE IF Ready(p) = {} THEN "BUSY" ELSE "SUCCESS"

\* Mutant: the first number in use instead of the first ready one.
first_used(p) == Lowest(Signos \ Free(p))
\* Mutant: the position counted from 1 is used as the number.
ready_from_one(p) == Lowest(Ready(p)) + 1
\* The number POLL answers.
ready_sub_signo(p) == Lowest(Ready(p))

\* READ_REQ or WRITE_REQ accepted on number s; TEE_ERROR_BUSY changes nothing.
Request(p, s) ==
    /\ pc = "run" /\ sent < MaxReq
    /\ Free(p) # {} /\ s = Lowest(Free(p))
    /\ req' = [req EXCEPT ![<<p, s>>] = "busy"]
    /\ sent' = sent + 1

\* The loop thread finishes a request.
Complete(x) ==
    /\ req[x] = "busy"
    /\ req' = [req EXCEPT ![x] = "ready"]
    /\ UNCHANGED <<sigvars, io_sigtable, pc, scanvars, arg, frames, held, wanted, sent>>

-----------------------------------------------------------------------------
(* tz_io_sigtable.c *)

\* Mutant: the request of a handler is made pending at once.
pending_at_once(p) == <<io_sigpending \cup {p}, recover_io_sigpending>>
\* The bitmaps after set_signal_pending.
set_signal_pending(p) ==
    IF in_handler THEN <<io_sigpending, recover_io_sigpending \cup {p}>>
    ELSE <<io_sigpending \cup {p}, recover_io_sigpending>>

\* Mutant: the bitmap is emptied before it is saved.
unset_before_save == <<{}, {}>>
\* The bitmaps after temp_unset_all_io_signal_pending.
temp_unset_all_io_signal_pending == <<{}, io_sigpending>>

\* Mutant: the peripheral that was handled, p, is taken for finished.
recovered_without(p) == recover_io_sigpending \ {p}
\* io_sigpending after temp_recover_all_io_signal_pending.
recovered(p) == recover_io_sigpending

\* The second half of an asynchronous native function. A null pointer makes
\* tzio_register_handler return -1: the request stays with the IO helper.
tzio_register_handler ==
    /\ pc = "register"
    /\ LET x == arg.sig
           bits == set_signal_pending(x[1])
       IN  \/ /\ arg.fn = NoHandler
              /\ UNCHANGED <<sigvars, io_sigtable, wanted>>
           \/ /\ arg.fn # NoHandler
              /\ io_sigtable' = [io_sigtable EXCEPT ![x] = arg.fn]
              /\ wanted' = [wanted EXCEPT ![x] = arg.fn]
              /\ io_sigpending' = bits[1]
              /\ recover_io_sigpending' = bits[2]
              /\ UNCHANGED in_handler
    /\ pc' = "run" /\ arg' = NoArg
    /\ UNCHANGED <<scanvars, frames, req, held, sent>>

-----------------------------------------------------------------------------
(* The native functions (tzio_lib.c), called by the application's main      *)
(* function or by the handler on top of the stack                           *)

\* dht_read_async and the other callback functions, first half: the request.
AsyncRequest(p, h) ==
    \E s \in Signos :
        /\ Request(p, s)
        /\ pc' = "register" /\ arg' = [sig |-> <<p, s>>, fn |-> h]
        /\ UNCHANGED <<sigvars, io_sigtable, scanvars, frames, held, wanted>>

\* dht_read_async_promise and the future functions: the number is returned.
AsyncPromise(p) ==
    /\ p \in Promises
    /\ \E s \in Signos :
          /\ Request(p, s)
          /\ held' = held \cup {<<p, s>>}
          /\ UNCHANGED <<sigvars, io_sigtable, pc, scanvars, arg, frames, wanted>>

\* promise_set_callback: POLL_SUBSIGNAL refuses a number that is not in use.
promise_set_callback(x, h) ==
    /\ pc = "run" /\ x \in held
    /\ \/ /\ req[x] = "free"
          /\ UNCHANGED <<pc, arg>>
       \/ /\ req[x] # "free"
          /\ pc' = "register" /\ arg' = [sig |-> x, fn |-> h]
    /\ held' = held \ {x}
    /\ UNCHANGED <<sigvars, io_sigtable, scanvars, frames, req, wanted, sent>>

\* get_async_data_promise, get_async_data_future: POLL_SUBSIGNAL in a loop...
get_async_data_promise(x) ==
    /\ pc = "run" /\ x \in held
    /\ \/ /\ req[x] = "free"
          /\ held' = held \ {x}
          /\ UNCHANGED <<pc, arg>>
       \/ /\ req[x] # "free"
          /\ pc' = "await" /\ arg' = [sig |-> x, fn |-> NoHandler]
          /\ UNCHANGED held
    /\ UNCHANGED <<sigvars, io_sigtable, scanvars, frames, req, wanted, sent>>

\* ... and, once it is ready, GET_DATA: the result, or TEE_ERROR_SHORT_BUFFER.
PromiseData ==
    /\ pc = "await" /\ req[arg.sig] = "ready"
    /\ \/ /\ req' = [req EXCEPT ![arg.sig] = "free"]
          /\ wanted' = [wanted EXCEPT ![arg.sig] = NoHandler]
          /\ held' = held \ {arg.sig}
       \/ UNCHANGED <<req, wanted, held>>
    /\ pc' = "run" /\ arg' = NoArg
    /\ UNCHANGED <<sigvars, io_sigtable, scanvars, frames, sent>>

Top == frames[Len(frames)]

\* get_async_data, in a handler, with the numbers it was called with. It fails
\* when the number is not ready any more; TEE_ERROR_SHORT_BUFFER changes nothing
\* and the handler may call it again.
get_async_data ==
    /\ pc = "run" /\ frames # << >> /\ ~Top.took
    /\ LET x == Top.sig IN
       \/ /\ req[x] = "ready"
          /\ req' = [req EXCEPT ![x] = "free"]
          /\ wanted' = [wanted EXCEPT ![x] = NoHandler]
       \/ /\ req[x] # "ready"
          /\ UNCHANGED <<req, wanted>>
    /\ frames' = [frames EXCEPT ![Len(frames)].took = TRUE]
    /\ UNCHANGED <<sigvars, io_sigtable, pc, scanvars, arg, held, sent>>

-----------------------------------------------------------------------------
(* The checkpoint *)

\* get_ready_signal starts; it returns -1 when nothing is pending. Handlers
\* contain branches, so they reach checkpoints as well.
Checkpoint ==
    /\ pc = "run" /\ io_sigpending # {}
    /\ pc' = "scan" /\ tmp' = io_sigpending
    /\ UNCHANGED <<sigvars, io_sigtable, found, arg, frames, req, held, wanted, sent>>

\* One turn of its loop. "rescan" is the call after the handler in compiled
\* code, "must poll one time to update io sigpending": its answer is dropped.
PollOne ==
    /\ pc \in {"scan", "rescan"} /\ tmp # {}
    /\ LET p == Lowest(tmp)
           res == poll_to_io_helper(p)
       IN  /\ tmp' = tmp \ {p}
           /\ \/ /\ res = "SUCCESS"
                 /\ found' = IF pc = "scan" THEN <<p, ready_sub_signo(p)>> ELSE found
                 /\ pc' = IF pc = "scan" THEN "call" ELSE "run"
                 /\ UNCHANGED io_sigpending
              \/ /\ res = "NO_DATA"
                 /\ io_sigpending' = io_sigpending \ {p}
                 /\ UNCHANGED <<found, pc>>
              \/ /\ res = "BUSY"
                 /\ UNCHANGED <<io_sigpending, found, pc>>
    /\ UNCHANGED <<recover_io_sigpending, in_handler, io_sigtable, arg, frames,
                   req, held, wanted, sent>>

ScanEnds ==
    /\ pc \in {"scan", "rescan"} /\ tmp = {}
    /\ pc' = "run"
    /\ UNCHANGED <<sigvars, io_sigtable, scanvars, arg, frames, req, held, wanted, sent>>

\* The handler of the ready number is entered. The interpreter calls function
\* 0 where none was registered; compiled code dereferences the null pointer.
CallHandler ==
    /\ pc = "call"
    /\ \/ /\ AOT /\ io_sigtable[found] = NoHandler
          /\ pc' = "crashed"
          /\ UNCHANGED <<sigvars, frames>>
       \/ /\ ~AOT \/ io_sigtable[found] # NoHandler
          /\ frames' = Append(frames, [sig |-> found, fn |-> io_sigtable[found],
                                       took |-> FALSE])
          /\ io_sigpending' = temp_unset_all_io_signal_pending[1]
          /\ recover_io_sigpending' = temp_unset_all_io_signal_pending[2]
          /\ in_handler' = TRUE
          /\ pc' = "run"
    /\ tmp' = {} /\ found' = NoSignal
    /\ UNCHANGED <<io_sigtable, arg, req, held, wanted, sent>>

HandlerReturns ==
    /\ pc = "run" /\ frames # << >>
    /\ HandlersTake => Top.took
    /\ frames' = SubSeq(frames, 1, Len(frames) - 1)
    /\ in_handler' = FALSE
    /\ io_sigpending' = recovered(Top.sig[1])
    /\ \/ AOT /\ pc' = "rescan" /\ tmp' = io_sigpending'
       \/ ~AOT /\ UNCHANGED <<pc, tmp>>
    /\ UNCHANGED <<recover_io_sigpending, io_sigtable, found, arg, req, held, wanted, sent>>

-----------------------------------------------------------------------------
Next ==
    \/ \E x \in Signals : Complete(x) \/ get_async_data_promise(x)
    \/ \E x \in Signals, h \in Given : promise_set_callback(x, h)
    \/ \E p \in Periphs : AsyncPromise(p) \/ \E h \in Given : AsyncRequest(p, h)
    \/ tzio_register_handler
    \/ PromiseData
    \/ get_async_data
    \/ Checkpoint
    \/ PollOne
    \/ ScanEnds
    \/ CallHandler
    \/ HandlerReturns

\* The helper's loop serves every request; the runtime's thread goes on. The
\* application can only run on by taking branches, that is, through checkpoints,
\* and its handlers take their result and return, whatever else they do
\* meanwhile.
Fairness ==
    /\ \A x \in Signals : WF_vars(Complete(x))
    /\ WF_vars(tzio_register_handler) /\ WF_vars(PromiseData)
    /\ WF_vars(PollOne) /\ WF_vars(ScanEnds) /\ WF_vars(CallHandler)
    /\ SF_vars(Checkpoint)
    /\ SF_vars(get_async_data) /\ SF_vars(HandlerReturns)

SafeSpec == Init /\ [][Next]_vars
Spec == SafeSpec /\ Fairness

-----------------------------------------------------------------------------
(* Properties *)

\* The shape of every variable; a checkpoint that is about to call a handler
\* has found a signal inside the table.
TypeOK ==
    /\ io_sigpending \subseteq Periphs /\ recover_io_sigpending \subseteq Periphs
    /\ in_handler \in BOOLEAN
    /\ io_sigtable \in [Signals -> Handlers \cup {NoHandler}]
    /\ pc \in {"run", "register", "await", "scan", "rescan", "call", "crashed"}
    /\ tmp \subseteq Periphs
    /\ found \in Signals \cup {NoSignal} /\ (pc = "call" => found # NoSignal)
    /\ arg \in [sig : Signals \cup {NoSignal}, fn : Handlers \cup {NoHandler}]
    /\ pc \in {"register", "await"} => arg.sig \in Signals
    /\ frames \in Seq(Frames)
    /\ req \in [Signals -> {"free", "busy", "ready"}]
    /\ held \subseteq Signals
    /\ wanted \in [Signals -> Handlers \cup {NoHandler}]
    /\ sent \in 0 .. MaxReq

\* "you can send async req in a handler func, but the handler can only be
\* triggered out of the handler func" (set_signal_pending): although a handler
\* reaches checkpoints and may make its peripheral pending again, no handler
\* is ever entered on top of another.
NoNestedHandler == Len(frames) <= 1

\* The peripherals the runtime will poll once it is out of the handler.
WillPoll == IF in_handler THEN recover_io_sigpending ELSE io_sigpending

\* No registration is lost: while a request that has a callback is with the IO
\* helper, its peripheral is pending or will be again when the handler ends.
\* So all_signal_handled, asked outside a handler, never answers too early.
PendingKept ==
    \A x \in Signals : wanted[x] # NoHandler => req[x] # "free" /\ x[1] \in WillPoll

\* A peripheral that the runtime polls has a request without a callback: a
\* promise or a future, or a request whose handler was refused.
Mixes ==
    \E x \in Signals :
        /\ req[x] # "free" /\ wanted[x] = NoHandler /\ x[1] \in WillPoll
        /\ ~ (pc = "register" /\ arg.sig = x /\ arg.fn # NoHandler)

\* The specification with mixed.
NoteMixed == mixed' = (mixed \/ Mixes')
MixedInit == Init /\ mixed = FALSE
MixedSpec == MixedInit /\ [][Next /\ NoteMixed]_<<vars, mixed>>

\* As long as no polled peripheral has a request without a callback, a
\* checkpoint calls the handler registered for the request whose number was
\* answered, and that request is finished and its result still there. Numbers
\* are reused and io_sigtable is never cleared.
CallsOwnHandler ==
    (pc = "call" /\ ~ mixed) =>
        /\ req[found] = "ready"
        /\ wanted[found] # NoHandler
        /\ io_sigtable[found] = wanted[found]

\* "directly wait get data" (test/async_promise): a promise that was given no
\* callback keeps its request until the application itself takes the result.
PromiseKept == \A x \in held : req[x] # "free"

-----------------------------------------------------------------------------
(* The inductive invariant of IoSigtableProofs *)

\* Inside a handler nothing is pending, so no checkpoint of it scans.
HandlerState ==
    \/ frames = << >> /\ ~in_handler
    \/ /\ Len(frames) = 1 /\ in_handler
       /\ io_sigpending = {}
       /\ pc \in {"run", "register", "await"}

\* The request whose handler is being registered is still with the IO helper.
RegistersUsed == pc = "register" => req[arg.sig] # "free"

IndInv == TypeOK /\ HandlerState /\ RegistersUsed /\ PendingKept
=============================================================================
