-------------------------- MODULE IoSigtableProofs --------------------------
(***************************************************************************)
(* Proofs about IoSigtable, for every set of peripherals and handlers, with*)
(* and without promises, null handlers and handlers that leave their       *)
(* result, compiled or interpreted.                                        *)
(***************************************************************************)
EXTENDS IoSigtable, TLAPS, SequenceTheorems, WellFoundedInduction

-----------------------------------------------------------------------------
(* The operators the model is built from *)

\* __builtin_ffsll finds a set bit of a bitmap that is not zero.
LEMMA LowestInSet ==
  ASSUME NEW S \in SUBSET Nat, S # {}
  PROVE  Lowest(S) \in S
<1> DEFINE R == OpToRel(<, Nat)
<1>1. IsWellFoundedOn(R, Nat)
  BY NatLessThanWellFounded
<1>2. \A i, j \in Nat : i < j => <<i, j>> \in R
  BY DEF OpToRel
<1> HIDE DEF R
<1>3. PICK x \in S : \A y \in S : ~ (<<y, x>> \in R)
  BY <1>1, WFMin
<1>4. \A y \in S : x <= y
  <2> SUFFICES ASSUME NEW y \in S, y < x PROVE FALSE
    OBVIOUS
  <2>. QED
    BY <1>2, <1>3
<1>. QED
  BY <1>4 DEF Lowest

\* A signal is a peripheral and one of its numbers.
LEMMA SignalPair ==
  /\ \A x \in Signals : x[1] \in Periphs /\ x[2] \in Signos /\ x = <<x[1], x[2]>>
  /\ \A p \in Periphs, s \in Signos : <<p, s>> \in Signals /\ <<p, s>>[1] = p
  BY DEF Signals

\* A peripheral that answers "no request" has no request with a callback.
LEMMA NoDataMeansNone ==
  ASSUME IndInv, NEW p \in Periphs, poll_to_io_helper(p) = "NO_DATA"
  PROVE  \A x \in Signals : x[1] = p => wanted[x] = NoHandler
<1>1. Free(p) = Signos
  BY DEF poll_to_io_helper
<1>2. ASSUME NEW x \in Signals, x[1] = p PROVE req[x] = "free"
  <2>1. x[2] \in Free(p) /\ x = <<p, x[2]>>
    BY <1>1, <1>2, SignalPair
  <2>. QED
    BY <2>1 DEF Free
<1>. QED
  BY <1>2 DEF IndInv, PendingKept

\* What a poll that finds a ready request answers is a signal.
LEMMA ReadyIsSignal ==
  ASSUME NEW p \in Periphs, poll_to_io_helper(p) = "SUCCESS"
  PROVE  <<p, ready_sub_signo(p)>> \in Signals
<1>1. Ready(p) # {}
  BY DEF poll_to_io_helper
<1>2. Ready(p) \in SUBSET Signos /\ Signos \subseteq Nat
  BY ConstantsAssumption DEF Ready, Signos
<1>3. Lowest(Ready(p)) \in Signos
  BY <1>1, <1>2, LowestInSet
<1>. QED
  BY <1>3, SignalPair DEF ready_sub_signo

LEMMA PendingPeriph ==
  ASSUME TypeOK, tmp # {}
  PROVE  Lowest(tmp) \in tmp /\ Lowest(tmp) \in Periphs
<1>1. tmp \in SUBSET Nat
  BY ConstantsAssumption DEF TypeOK
<1>2. Lowest(tmp) \in tmp
  BY <1>1, LowestInSet
<1>. QED
  BY <1>2 DEF TypeOK

LEMMA FramesShape ==
  ASSUME IndInv, frames # << >>
  PROVE  /\ in_handler /\ Len(frames) = 1 /\ io_sigpending = {}
         /\ Top \in Frames /\ Top.sig \in Signals /\ Top.sig[1] \in Periphs
         /\ pc \in {"run", "register", "await"}
<1>1. frames \in Seq(Frames) /\ Len(frames) = 1
  BY DEF IndInv, TypeOK, HandlerState
<1>2. Top \in Frames
  BY <1>1, ElementOfSeq DEF Top
<1>. QED
  BY <1>1, <1>2, SignalPair DEF IndInv, HandlerState, Frames

-----------------------------------------------------------------------------
(* The inductive invariant *)

LEMMA InitIndInv == Init => IndInv
<1> SUFFICES ASSUME Init PROVE IndInv
  OBVIOUS
<1>1. TypeOK
  <2>1. frames \in Seq(Frames)
    BY EmptySeq DEF Init
  <2>2. arg \in [sig : Signals \cup {NoSignal}, fn : Handlers \cup {NoHandler}]
    BY DEF Init, NoArg
  <2>3. sent \in 0 .. MaxReq
    BY ConstantsAssumption DEF Init
  <2>. QED
    BY <2>1, <2>2, <2>3 DEF Init, TypeOK
<1>. QED
  BY <1>1 DEF Init, IndInv, HandlerState, RegistersUsed, PendingKept

\* A step of the IO helper, or of a native function, that leaves the bitmaps
\* and the stack alone.
LEMMA CompleteStep ==
  ASSUME IndInv, NEW x \in Signals, Complete(x)
  PROVE  IndInv'
<1> USE DEF IndInv, Complete, sigvars, scanvars
<1>1. TypeOK'
  BY DEF TypeOK
<1>2. HandlerState' /\ RegistersUsed'
  BY DEF HandlerState, RegistersUsed, TypeOK
<1>3. PendingKept'
  BY DEF PendingKept, WillPoll, TypeOK
<1>. QED
  BY <1>1, <1>2, <1>3

LEMMA RequestStep ==
  ASSUME IndInv, NEW p \in Periphs,
         AsyncPromise(p) \/ \E h \in Given : AsyncRequest(p, h)
  PROVE  IndInv'
<1>1. PICK s \in Signos :
        /\ pc = "run" /\ sent < MaxReq
        /\ req' = [req EXCEPT ![<<p, s>>] = "busy"] /\ sent' = sent + 1
        /\ \/ pc' = pc /\ arg' = arg /\ held' = held \cup {<<p, s>>}
           \/ /\ pc' = "register" /\ held' = held
              /\ \E h \in Given : arg' = [sig |-> <<p, s>>, fn |-> h]
        /\ UNCHANGED <<sigvars, io_sigtable, scanvars, frames, wanted>>
  BY DEF AsyncPromise, AsyncRequest, Request
<1>2. <<p, s>> \in Signals
  BY SignalPair
<1>3. TypeOK'
  <2>1. /\ arg' \in [sig : Signals \cup {NoSignal}, fn : Handlers \cup {NoHandler}]
        /\ pc' \in {"register", "await"} => arg'.sig \in Signals
    <3>1. \A h \in Given : h \in Handlers \cup {NoHandler}
      BY ConstantsAssumption
    <3>2. CASE pc' = pc /\ arg' = arg
      BY <1>1, <3>2 DEF IndInv, TypeOK
    <3>3. CASE \E h \in Given : arg' = [sig |-> <<p, s>>, fn |-> h]
      BY <1>2, <3>1, <3>3
    <3>. QED
      BY <1>1, <3>2, <3>3
  <2>2. sent' \in 0 .. MaxReq
    BY <1>1, ConstantsAssumption DEF IndInv, TypeOK
  <2>3. pc' \in {"run", "register"}
    BY <1>1
  <2>. QED
    BY <1>1, <1>2, <2>1, <2>2, <2>3 DEF IndInv, TypeOK, sigvars, scanvars
<1>4. HandlerState' /\ RegistersUsed'
  BY <1>1, <1>2 DEF IndInv, HandlerState, RegistersUsed, TypeOK, sigvars, scanvars
<1>5. PendingKept'
  BY <1>1, <1>2 DEF IndInv, PendingKept, WillPoll, TypeOK, sigvars
<1>. QED
  BY <1>3, <1>4, <1>5 DEF IndInv

LEMMA RegisterStep ==
  ASSUME IndInv, tzio_register_handler
  PROVE  IndInv'
<1> USE DEF IndInv, sigvars, scanvars
<1>1. arg.sig \in Signals /\ arg.sig[1] \in Periphs /\ req[arg.sig] # "free"
      /\ arg.fn \in Handlers \cup {NoHandler} /\ pc = "register"
  BY SignalPair DEF tzio_register_handler, TypeOK, RegistersUsed
<1>2. TypeOK'
  BY <1>1 DEF tzio_register_handler, TypeOK, set_signal_pending, NoArg
<1>3. HandlerState' /\ RegistersUsed'
  BY <1>1 DEF tzio_register_handler, HandlerState, RegistersUsed, set_signal_pending
<1>4. PendingKept'
  BY <1>1 DEF tzio_register_handler, PendingKept, WillPoll, TypeOK, set_signal_pending
<1>. QED
  BY <1>2, <1>3, <1>4

LEMMA PromiseStep ==
  ASSUME IndInv, NEW x \in Signals,
         get_async_data_promise(x) \/ \E h \in Given : promise_set_callback(x, h)
  PROVE  IndInv'
<1> USE DEF IndInv, sigvars, scanvars
<1>1. TypeOK'
  <2>1. /\ arg' \in [sig : Signals \cup {NoSignal}, fn : Handlers \cup {NoHandler}]
        /\ pc' \in {"register", "await"} => arg'.sig \in Signals
    BY ConstantsAssumption DEF get_async_data_promise, promise_set_callback, TypeOK
  <2>2. pc' \in {"run", "register", "await"} /\ held' \in SUBSET Signals
    BY DEF get_async_data_promise, promise_set_callback, TypeOK
  <2>3. UNCHANGED <<io_sigpending, recover_io_sigpending, in_handler, io_sigtable, tmp,
                    found, frames, req, wanted, sent>>
    BY DEF get_async_data_promise, promise_set_callback
  <2>. QED
    BY <2>1, <2>2, <2>3 DEF TypeOK
<1>2. HandlerState' /\ RegistersUsed'
  BY DEF get_async_data_promise, promise_set_callback, HandlerState, RegistersUsed, TypeOK
<1>3. PendingKept'
  BY DEF get_async_data_promise, promise_set_callback, PendingKept, WillPoll
<1>. QED
  BY <1>1, <1>2, <1>3

LEMMA PromiseDataStep ==
  ASSUME IndInv, PromiseData
  PROVE  IndInv'
<1> USE DEF IndInv, sigvars, scanvars
<1>1. arg.sig \in Signals
  BY DEF PromiseData, TypeOK
<1>2. TypeOK'
  BY <1>1 DEF PromiseData, TypeOK, NoArg
<1>3. HandlerState' /\ RegistersUsed'
  BY DEF PromiseData, HandlerState, RegistersUsed
<1>4. PendingKept'
  BY <1>1 DEF PromiseData, PendingKept, WillPoll, TypeOK
<1>. QED
  BY <1>2, <1>3, <1>4

LEMMA GetDataStep ==
  ASSUME IndInv, get_async_data
  PROVE  IndInv'
<1> USE DEF sigvars, scanvars
<1>1. frames # << >> /\ Len(frames) = 1 /\ Top.sig \in Signals /\ Top \in Frames
  BY FramesShape DEF get_async_data
<1>2. frames' \in Seq(Frames) /\ Len(frames') = 1
  <2>1. frames \in Seq(Frames) /\ frames[1] \in Frames
    BY <1>1 DEF IndInv, TypeOK, Top
  <2>2. [frames[1] EXCEPT !.took = TRUE] \in Frames
    BY <2>1 DEF Frames
  <2>3. frames' = [frames EXCEPT ![1] = [frames[1] EXCEPT !.took = TRUE]]
    BY <1>1 DEF get_async_data
  <2>. QED
    BY <1>1, <2>1, <2>2, <2>3, ExceptSeq
<1>3. TypeOK'
  BY <1>1, <1>2 DEF get_async_data, IndInv, TypeOK
<1>4. HandlerState' /\ RegistersUsed'
  BY <1>1, <1>2, FramesShape DEF get_async_data, IndInv, HandlerState, RegistersUsed
<1>5. PendingKept'
  BY <1>1 DEF get_async_data, IndInv, PendingKept, WillPoll, TypeOK
<1>. QED
  BY <1>3, <1>4, <1>5 DEF IndInv

\* The steps of the checkpoint happen outside every handler.
LEMMA ScanStep ==
  ASSUME IndInv, Checkpoint \/ ScanEnds
  PROVE  IndInv'
<1> USE DEF IndInv, sigvars, scanvars
<1>1. frames = << >> /\ ~in_handler
  BY DEF Checkpoint, ScanEnds, HandlerState
<1>2. TypeOK'
  BY DEF Checkpoint, ScanEnds, TypeOK
<1>3. HandlerState' /\ RegistersUsed'
  BY <1>1 DEF Checkpoint, ScanEnds, HandlerState, RegistersUsed
<1>4. PendingKept'
  BY DEF Checkpoint, ScanEnds, PendingKept, WillPoll
<1>. QED
  BY <1>2, <1>3, <1>4

LEMMA PollOneStep ==
  ASSUME IndInv, PollOne
  PROVE  IndInv'
<1> DEFINE p == Lowest(tmp)
           res == poll_to_io_helper(p)
<1>1. frames = << >> /\ ~in_handler /\ pc \in {"scan", "rescan"} /\ tmp # {}
  BY DEF PollOne, IndInv, HandlerState
<1>2. p \in tmp /\ p \in Periphs
  BY <1>1, PendingPeriph DEF IndInv
<1>3. UNCHANGED <<recover_io_sigpending, in_handler, io_sigtable, arg, frames, req,
                  held, wanted, sent>> /\ tmp' = tmp \ {p}
  BY DEF PollOne
<1>4. \/ /\ res = "SUCCESS" /\ io_sigpending' = io_sigpending
         /\ \/ pc' = "run" /\ found' = found
            \/ pc' = "call" /\ found' = <<p, ready_sub_signo(p)>>
      \/ /\ res = "NO_DATA" /\ io_sigpending' = io_sigpending \ {p}
         /\ UNCHANGED <<found, pc>>
      \/ res = "BUSY" /\ UNCHANGED <<io_sigpending, found, pc>>
  BY <1>1 DEF PollOne
<1>5. res = "SUCCESS" => <<p, ready_sub_signo(p)>> \in Signals
  BY <1>2, ReadyIsSignal
<1>6. res = "NO_DATA" => \A x \in Signals : x[1] = p => wanted[x] = NoHandler
  BY <1>2, NoDataMeansNone
<1> HIDE DEF p, res
<1>7. NoSignal \notin Signals
  BY ConstantsAssumption DEF NoSignal, Signals
<1>8. TypeOK'
  BY <1>1, <1>2, <1>3, <1>4, <1>5, <1>7 DEF IndInv, TypeOK
<1>9. HandlerState' /\ RegistersUsed'
  BY <1>1, <1>3, <1>4 DEF HandlerState, RegistersUsed
<1>10. PendingKept'
  BY <1>1, <1>3, <1>4, <1>6 DEF IndInv, PendingKept, WillPoll
<1>. QED
  BY <1>8, <1>9, <1>10 DEF IndInv

LEMMA CallStep ==
  ASSUME IndInv, CallHandler
  PROVE  IndInv'
<1>1. frames = << >> /\ ~in_handler /\ pc = "call" /\ found \in Signals
  BY DEF CallHandler, IndInv, HandlerState, TypeOK
<1>2. CASE pc' = "crashed" /\ UNCHANGED <<sigvars, frames>>
  BY <1>1, <1>2 DEF CallHandler, IndInv, TypeOK, HandlerState, RegistersUsed, PendingKept,
     WillPoll, sigvars
<1>3. CASE pc' = "run"
  <2> DEFINE f == [sig |-> found, fn |-> io_sigtable[found], took |-> FALSE]
  <2>1. f \in Frames
    BY <1>1 DEF IndInv, TypeOK, Frames
  <2>2. frames' = Append(frames, f) /\ io_sigpending' = {} /\ in_handler'
        /\ recover_io_sigpending' = io_sigpending
    BY <1>1, <1>3 DEF CallHandler, temp_unset_all_io_signal_pending
  <2> HIDE DEF f
  <2>3. frames' \in Seq(Frames) /\ Len(frames') = 1
    BY <1>1, <2>1, <2>2
  <2>4. TypeOK'
    BY <1>3, <2>2, <2>3 DEF CallHandler, IndInv, TypeOK
  <2>5. HandlerState' /\ RegistersUsed'
    BY <1>3, <2>2, <2>3 DEF HandlerState, RegistersUsed
  <2>6. PendingKept'
    BY <1>1, <2>2 DEF CallHandler, IndInv, PendingKept, WillPoll
  <2>. QED
    BY <2>4, <2>5, <2>6 DEF IndInv
<1>. QED
  BY <1>2, <1>3 DEF CallHandler

LEMMA ReturnStep ==
  ASSUME IndInv, HandlerReturns
  PROVE  IndInv'
<1>1. frames # << >> /\ Len(frames) = 1 /\ in_handler /\ pc = "run"
  BY FramesShape DEF HandlerReturns
<1>2. frames' = << >>
  BY <1>1 DEF HandlerReturns, IndInv, TypeOK
<1>3. io_sigpending' = recover_io_sigpending /\ ~in_handler'
  BY DEF HandlerReturns, recovered
<1>4. TypeOK'
  <2>1. frames' \in Seq(Frames)
    BY <1>2, EmptySeq
  <2>. QED
    BY <1>1, <1>3, <2>1 DEF HandlerReturns, IndInv, TypeOK
<1>5. HandlerState' /\ RegistersUsed'
  BY <1>1, <1>2, <1>3 DEF HandlerReturns, HandlerState, RegistersUsed
<1>6. PendingKept'
  BY <1>1, <1>3 DEF HandlerReturns, IndInv, PendingKept, WillPoll
<1>. QED
  BY <1>4, <1>5, <1>6 DEF IndInv

LEMMA NextIndInv == IndInv /\ [Next]_vars => IndInv'
<1> SUFFICES ASSUME IndInv, [Next]_vars PROVE IndInv'
  OBVIOUS
<1>1. CASE UNCHANGED vars
  BY <1>1 DEF vars, sigvars, scanvars, IndInv, TypeOK, HandlerState, RegistersUsed,
     PendingKept, WillPoll
<1>2. CASE Next
  BY <1>2, CompleteStep, RequestStep, RegisterStep, PromiseStep, PromiseDataStep,
     GetDataStep, ScanStep, PollOneStep, CallStep, ReturnStep DEF Next
<1>. QED
  BY <1>1, <1>2

-----------------------------------------------------------------------------
(* The theorems *)

\* The inductive invariant holds throughout every behaviour.
THEOREM Inductive == SafeSpec => []IndInv
  BY InitIndInv, NextIndInv, PTL DEF SafeSpec

\* Every variable keeps its type: a checkpoint never calls through a number
\* outside the handler table.
THEOREM TypeCorrect == SafeSpec => []TypeOK
  BY Inductive, PTL DEF IndInv

\* No handler is entered while another runs, whatever the handlers do: send,
\* await, leave their result, pass null pointers or reach checkpoints.
THEOREM NoNesting == SafeSpec => []NoNestedHandler
<1>1. IndInv => NoNestedHandler
  <2> DEFINE n == Len(frames)
  <2> SUFFICES ASSUME IndInv PROVE n <= 1
    BY DEF NoNestedHandler
  <2>1. Len(<< >>) = 0
    BY EmptySeq
  <2>2. n = 0 \/ n = 1
    BY <2>1, Zenon DEF IndInv, HandlerState
  <2> HIDE DEF n
  <2>. QED
    BY <2>2
<1>. QED
  BY <1>1, Inductive, PTL

\* No registration is lost by the scan, by the save around a handler or by a
\* request that a handler sends.
THEOREM NothingLost == SafeSpec => []PendingKept
  BY Inductive, PTL DEF IndInv

-----------------------------------------------------------------------------
(* Handlers and requests, with the history of mixing *)

\* What a checkpoint has found is ready and of a pending peripheral, and the
\* table has the handler of every request that has one.
FoundReady ==
    /\ \A x \in Signals : wanted[x] # NoHandler => io_sigtable[x] = wanted[x]
    /\ pc \in {"scan", "rescan"} => tmp \subseteq io_sigpending
    /\ pc = "call" => req[found] = "ready" /\ found[1] \in io_sigpending

\* Until a polled peripheral has a request without a callback, a promise keeps
\* its request and has no handler, and the handler that runs finds its result.
Apart ==
    ~ mixed =>
        /\ \A x \in held : req[x] # "free" /\ wanted[x] = NoHandler
        /\ pc = "register" => arg.sig \notin held /\ wanted[arg.sig] = NoHandler
        /\ pc = "await" => arg.sig \in held
        /\ frames # << >> =>
             Top.took \/ (req[Top.sig] = "ready" /\ wanted[Top.sig] # NoHandler)

OwnInv == IndInv /\ FoundReady /\ (Mixes => mixed) /\ Apart

\* The handler a checkpoint is about to call is the request's own.
LEMMA OwnCalled == OwnInv => CallsOwnHandler
<1> SUFFICES ASSUME OwnInv, pc = "call", ~ mixed
             PROVE  /\ req[found] = "ready" /\ wanted[found] # NoHandler
                    /\ io_sigtable[found] = wanted[found]
  BY DEF CallsOwnHandler
<1>1. found \in Signals /\ req[found] = "ready" /\ found[1] \in WillPoll
  BY DEF OwnInv, FoundReady, IndInv, TypeOK, HandlerState, WillPoll
<1>2. wanted[found] # NoHandler
  BY <1>1 DEF OwnInv, Mixes
<1>. QED
  BY <1>1, <1>2 DEF OwnInv, FoundReady

LEMMA OwnComplete ==
  ASSUME OwnInv, NEW x \in Signals, Complete(x), mixed => mixed'
  PROVE  FoundReady' /\ Apart'
<1>1. /\ req[x] = "busy" /\ req' = [req EXCEPT ![x] = "ready"]
      /\ UNCHANGED <<io_sigpending, in_handler, io_sigtable, pc, tmp, found, arg, frames, held, wanted>>
  BY DEF Complete, sigvars, scanvars
<1>2. \A y \in Signals : req'[y] = IF y = x THEN "ready" ELSE req[y]
  BY <1>1 DEF OwnInv, IndInv, TypeOK
<1>3. FoundReady'
  BY <1>1, <1>2 DEF OwnInv, FoundReady, IndInv, TypeOK
<1>4. Apart'
  <2>1. frames # << >> => Top' = Top /\ Top.sig \in Signals
    BY <1>1, FramesShape DEF Top, OwnInv
  <2>2. held \subseteq Signals
    BY DEF OwnInv, IndInv, TypeOK
  <2>. QED
    BY <1>1, <1>2, <2>1, <2>2 DEF OwnInv, Apart
<1>. QED
  BY <1>3, <1>4

LEMMA OwnRequest ==
  ASSUME OwnInv, NEW p \in Periphs, AsyncPromise(p) \/ \E h \in Given : AsyncRequest(p, h),
         mixed => mixed'
  PROVE  FoundReady' /\ Apart'
<1>1. PICK s \in Signos :
        /\ pc = "run" /\ Free(p) # {} /\ s = Lowest(Free(p))
        /\ req' = [req EXCEPT ![<<p, s>>] = "busy"]
        /\ \/ pc' = pc /\ held' = held \cup {<<p, s>>}
           \/ pc' = "register" /\ held' = held /\ \E h : arg' = [sig |-> <<p, s>>, fn |-> h]
        /\ UNCHANGED <<io_sigtable, frames, wanted>>
  BY DEF AsyncPromise, AsyncRequest, Request
<1>2. PICK x \in Signals : x = <<p, s>>
  BY SignalPair
<1>3. req[x] = "free" /\ wanted[x] = NoHandler
  <2>1. Free(p) \in SUBSET Nat
    BY ConstantsAssumption DEF Free, Signos
  <2>2. s \in Free(p)
    BY <1>1, <2>1, LowestInSet
  <2>. QED
    BY <1>2, <2>2 DEF Free, OwnInv, IndInv, PendingKept
<1>4. \A y \in Signals : y # x => req'[y] = req[y]
  BY <1>1, <1>2 DEF OwnInv, IndInv, TypeOK
<1>5. req'[x] # "free"
  BY <1>1, <1>2 DEF OwnInv, IndInv, TypeOK
<1>6. FoundReady'
  BY <1>1 DEF OwnInv, FoundReady
<1>7. ASSUME ~ mixed'
      PROVE  /\ \A y \in held' : req'[y] # "free" /\ wanted'[y] = NoHandler
             /\ pc' = "register" => arg'.sig \notin held' /\ wanted'[arg'.sig] = NoHandler
  <2>1. \A y \in held : y \in Signals /\ req[y] # "free" /\ wanted[y] = NoHandler
    BY <1>7 DEF OwnInv, Apart, IndInv, TypeOK
  <2>2. x \notin held
    BY <1>3, <2>1
  <2>. QED
    BY <1>1, <1>2, <1>3, <1>4, <1>5, <2>1, <2>2
<1>8. ASSUME ~ mixed', frames' # << >>
      PROVE  Top'.took \/ (req'[Top'.sig] = "ready" /\ wanted'[Top'.sig] # NoHandler)
  <2>1. Top' = Top /\ Top.sig \in Signals
    BY <1>1, <1>8, FramesShape DEF Top, OwnInv
  <2>2. Top.took \/ (req[Top.sig] = "ready" /\ wanted[Top.sig] # NoHandler)
    BY <1>1, <1>8 DEF OwnInv, Apart
  <2>. QED
    BY <1>1, <1>3, <1>4, <2>1, <2>2
<1>. QED
  BY <1>1, <1>6, <1>7, <1>8 DEF Apart

LEMMA OwnRegister ==
  ASSUME OwnInv, tzio_register_handler, mixed => mixed'
  PROVE  FoundReady' /\ Apart'
<1>1. PICK x \in Signals : x = arg.sig
  BY DEF tzio_register_handler, OwnInv, IndInv, TypeOK
<1>2. /\ pc = "register" /\ pc' = "run" /\ UNCHANGED <<frames, req, held>>
      /\ \/ UNCHANGED <<io_sigtable, wanted>>
         \/ /\ io_sigtable' = [io_sigtable EXCEPT ![x] = arg.fn]
            /\ wanted' = [wanted EXCEPT ![x] = arg.fn]
            /\ arg.fn # NoHandler
  BY <1>1 DEF tzio_register_handler
<1>3. FoundReady'
  BY <1>2 DEF OwnInv, FoundReady, IndInv, TypeOK
<1>4. Apart'
  <2> SUFFICES ASSUME ~ mixed'
               PROVE  /\ \A y \in held : req[y] # "free" /\ wanted'[y] = NoHandler
                      /\ frames # << >> =>
                           Top.took \/ (req[Top.sig] = "ready" /\ wanted'[Top.sig] # NoHandler)
    BY <1>2 DEF Apart, Top
  <2>1. x \notin held /\ \A y \in held : y \in Signals /\ req[y] # "free" /\ wanted[y] = NoHandler
    BY <1>1, <1>2 DEF OwnInv, Apart, IndInv, TypeOK
  <2>2. frames # << >> =>
          Top.sig \in Signals
          /\ (Top.took \/ (req[Top.sig] = "ready" /\ wanted[Top.sig] # NoHandler))
    BY FramesShape DEF OwnInv, Apart
  <2>3. \A y \in Signals : wanted'[y] = wanted[y] \/ (y = x /\ wanted'[y] # NoHandler)
    BY <1>2 DEF OwnInv, IndInv, TypeOK
  <2>. QED
    BY <2>1, <2>2, <2>3
<1>. QED
  BY <1>3, <1>4

LEMMA OwnPromise ==
  ASSUME OwnInv, NEW x \in Signals, mixed => mixed',
         get_async_data_promise(x) \/ \E h \in Given : promise_set_callback(x, h)
  PROVE  FoundReady' /\ Apart'
<1>1. /\ pc = "run" /\ x \in held
      /\ \/ pc' = pc /\ held' = held \ {x}
         \/ pc' = "register" /\ arg'.sig = x /\ held' = held \ {x}
         \/ pc' = "await" /\ arg'.sig = x /\ held' = held
      /\ UNCHANGED <<io_sigtable, frames, req, wanted>>
  BY DEF get_async_data_promise, promise_set_callback
<1>2. Top' = Top
  BY <1>1 DEF Top
<1>3. FoundReady'
  BY <1>1 DEF OwnInv, FoundReady
<1>4. Apart'
  BY <1>1, <1>2 DEF OwnInv, Apart
<1>. QED
  BY <1>3, <1>4

LEMMA OwnPromiseData ==
  ASSUME OwnInv, PromiseData, mixed => mixed'
  PROVE  FoundReady' /\ Apart'
<1>1. PICK x \in Signals : x = arg.sig
  BY DEF PromiseData, OwnInv, IndInv, TypeOK
<1>2. /\ pc = "await" /\ pc' = "run" /\ UNCHANGED <<io_sigtable, frames>>
      /\ \/ /\ req' = [req EXCEPT ![x] = "free"] /\ wanted' = [wanted EXCEPT ![x] = NoHandler]
            /\ held' = held \ {x}
         \/ UNCHANGED <<req, wanted, held>>
  BY <1>1 DEF PromiseData
<1>3. \A y \in Signals : y # x => req'[y] = req[y] /\ wanted'[y] = wanted[y]
  BY <1>2 DEF OwnInv, IndInv, TypeOK
<1>4. wanted'[x] = wanted[x] \/ wanted'[x] = NoHandler
  BY <1>2 DEF OwnInv, IndInv, TypeOK
<1>5. FoundReady'
  BY <1>2, <1>3, <1>4 DEF OwnInv, FoundReady
<1>6. ASSUME ~ mixed'
      PROVE  \A y \in held' : req'[y] # "free" /\ wanted'[y] = NoHandler
  BY <1>2, <1>3, <1>6 DEF OwnInv, Apart, IndInv, TypeOK
<1>7. ASSUME ~ mixed', frames' # << >>
      PROVE  Top'.took \/ (req'[Top'.sig] = "ready" /\ wanted'[Top'.sig] # NoHandler)
  <2>1. Top' = Top /\ Top.sig \in Signals
    BY <1>2, <1>7, FramesShape DEF Top, OwnInv
  <2>2. Top.took \/ (req[Top.sig] = "ready" /\ wanted[Top.sig] # NoHandler)
    BY <1>2, <1>7 DEF OwnInv, Apart
  <2>3. wanted[x] = NoHandler
    BY <1>1, <1>2, <1>7 DEF OwnInv, Apart
  <2>. QED
    BY <1>3, <2>1, <2>2, <2>3
<1>. QED
  BY <1>2, <1>5, <1>6, <1>7 DEF Apart

LEMMA OwnGetData ==
  ASSUME OwnInv, get_async_data, mixed => mixed'
  PROVE  FoundReady' /\ Apart'
<1>1. /\ frames # << >> /\ Len(frames) = 1 /\ Top.sig \in Signals /\ Top \in Frames
      /\ frames \in Seq(Frames)
  BY FramesShape DEF get_async_data, OwnInv, IndInv, TypeOK
<1>2. PICK x \in Signals : x = Top.sig
  BY <1>1
<1>3. /\ pc = "run" /\ pc' = "run" /\ ~ Top.took /\ UNCHANGED <<io_sigtable, held>>
      /\ \/ /\ req[x] = "ready" /\ req' = [req EXCEPT ![x] = "free"]
            /\ wanted' = [wanted EXCEPT ![x] = NoHandler]
         \/ req[x] # "ready" /\ UNCHANGED <<req, wanted>>
  BY <1>2 DEF get_async_data
<1>4. Top'.took
  <2>1. frames' = [frames EXCEPT ![1] = [frames[1] EXCEPT !.took = TRUE]]
    BY <1>1 DEF get_async_data
  <2>2. [frames[1] EXCEPT !.took = TRUE].took
    BY <1>1 DEF Frames, Top
  <2>3. Len(frames') = 1 /\ frames'[1].took
    BY <1>1, <2>1, <2>2
  <2>. QED
    BY <2>3 DEF Top
<1>5. \A y \in Signals : /\ y # x => req'[y] = req[y] /\ wanted'[y] = wanted[y]
                         /\ wanted'[y] = wanted[y] \/ wanted'[y] = NoHandler
  BY <1>3 DEF OwnInv, IndInv, TypeOK
<1>6. FoundReady'
  BY <1>3, <1>5 DEF OwnInv, FoundReady
<1>7. ASSUME ~ mixed'
      PROVE  \A y \in held' : req'[y] # "free" /\ wanted'[y] = NoHandler
  <2>1. wanted[x] # NoHandler
    BY <1>1, <1>2, <1>3, <1>7 DEF OwnInv, Apart
  <2>2. \A y \in held : y \in Signals /\ req[y] # "free" /\ wanted[y] = NoHandler
    BY <1>7 DEF OwnInv, Apart, IndInv, TypeOK
  <2>. QED
    BY <1>3, <1>5, <2>1, <2>2
<1>. QED
  BY <1>3, <1>4, <1>6, <1>7 DEF Apart

LEMMA OwnScan ==
  ASSUME OwnInv, Checkpoint \/ ScanEnds, mixed => mixed'
  PROVE  FoundReady' /\ Apart'
<1>1. /\ pc' \in {"scan", "run"} /\ (pc' = "scan" => tmp' = io_sigpending')
      /\ UNCHANGED <<io_sigtable, frames, req, held, wanted>>
  BY DEF Checkpoint, ScanEnds, sigvars
<1>2. FoundReady'
  BY <1>1 DEF OwnInv, FoundReady
<1>3. Apart'
  BY <1>1 DEF OwnInv, Apart, Top
<1>. QED
  BY <1>2, <1>3

LEMMA OwnPollOne ==
  ASSUME OwnInv, PollOne, mixed => mixed'
  PROVE  FoundReady' /\ Apart'
<1>1. PICK p : p = Lowest(tmp)
  OBVIOUS
<1>2. /\ pc \in {"scan", "rescan"} /\ tmp # {} /\ tmp' = tmp \ {p}
      /\ UNCHANGED <<io_sigtable, frames, req, held, wanted>>
      /\ pc' \in {"scan", "rescan", "call", "run"}
  BY <1>1 DEF PollOne
<1>3. p \in tmp /\ p \in Periphs
  BY <1>1, <1>2, PendingPeriph DEF OwnInv, IndInv
<1>4. pc' \in {"scan", "rescan"} => tmp' \subseteq io_sigpending'
  BY <1>1, <1>2 DEF PollOne, OwnInv, FoundReady
<1>5. ASSUME pc' = "call"
      PROVE  req'[found'] = "ready" /\ found'[1] \in io_sigpending'
  <2>1. /\ poll_to_io_helper(p) = "SUCCESS" /\ io_sigpending' = io_sigpending
        /\ found' = <<p, ready_sub_signo(p)>>
    BY <1>1, <1>2, <1>5 DEF PollOne
  <2>2. ready_sub_signo(p) \in Ready(p)
    <3>1. Ready(p) # {}
      BY <2>1 DEF poll_to_io_helper
    <3>2. Ready(p) \in SUBSET Nat
      BY ConstantsAssumption DEF Ready, Signos
    <3>. QED
      BY <3>1, <3>2, LowestInSet DEF ready_sub_signo
  <2>3. p \in io_sigpending
    BY <1>2, <1>3 DEF OwnInv, FoundReady
  <2>. QED
    BY <1>2, <2>1, <2>2, <2>3 DEF Ready
<1>6. FoundReady'
  BY <1>2, <1>4, <1>5 DEF OwnInv, FoundReady
<1>7. Apart'
  BY <1>2 DEF OwnInv, Apart, Top
<1>. QED
  BY <1>6, <1>7

LEMMA OwnCall ==
  ASSUME OwnInv, CallHandler, mixed => mixed'
  PROVE  FoundReady' /\ Apart'
<1>1. /\ frames = << >> /\ pc = "call" /\ found \in Signals /\ pc' \in {"crashed", "run"}
      /\ UNCHANGED <<io_sigtable, req, held, wanted>>
  BY DEF CallHandler, OwnInv, IndInv, HandlerState, TypeOK
<1>2. FoundReady'
  BY <1>1 DEF OwnInv, FoundReady
<1>3. frames' = << >> \/ (Top'.sig = found /\ ~ Top'.took)
  <2>1. PICK f : f = [sig |-> found, fn |-> io_sigtable[found], took |-> FALSE]
    OBVIOUS
  <2>2. frames' = frames \/ frames' = Append(frames, f)
    BY <2>1 DEF CallHandler
  <2>3. frames' = Append(frames, f) => Top' = f
    BY <1>1 DEF Top
  <2>. QED
    BY <1>1, <2>1, <2>2, <2>3
<1>4. ~ mixed => req[found] = "ready" /\ wanted[found] # NoHandler
  BY <1>1, OwnCalled DEF CallsOwnHandler
<1>5. Apart'
  BY <1>1, <1>3, <1>4 DEF OwnInv, Apart
<1>. QED
  BY <1>2, <1>5

LEMMA OwnReturn ==
  ASSUME OwnInv, HandlerReturns, mixed => mixed'
  PROVE  FoundReady' /\ Apart'
<1>1. /\ pc = "run" /\ pc' \in {"run", "rescan"} /\ (pc' = "rescan" => tmp' = io_sigpending')
      /\ UNCHANGED <<io_sigtable, req, held, wanted>>
  BY DEF HandlerReturns
<1>2. frames' = << >>
  <2>1. Len(frames) = 1
    BY FramesShape DEF HandlerReturns, OwnInv
  <2>. QED
    BY <2>1 DEF HandlerReturns, OwnInv, IndInv, TypeOK
<1>3. FoundReady'
  BY <1>1 DEF OwnInv, FoundReady
<1>4. Apart'
  BY <1>1, <1>2 DEF OwnInv, Apart
<1>. QED
  BY <1>3, <1>4

LEMMA OwnStep ==
  ASSUME OwnInv, [Next]_vars, NoteMixed
  PROVE  OwnInv'
<1>1. IndInv'
  BY NextIndInv DEF OwnInv
<1>2. (Mixes => mixed)' /\ (mixed => mixed')
  BY DEF NoteMixed
<1>3. CASE UNCHANGED vars
  <2>1. FoundReady' /\ Apart'
    BY <1>2, <1>3 DEF OwnInv, FoundReady, Apart, Top, vars, sigvars, scanvars
  <2>. QED
    BY <1>1, <1>2, <2>1 DEF OwnInv
<1>4. CASE Next
  <2>1. FoundReady' /\ Apart'
    BY <1>2, <1>4, OwnComplete, OwnRequest, OwnRegister, OwnPromise, OwnPromiseData, OwnGetData,
       OwnScan, OwnPollOne, OwnCall, OwnReturn DEF Next
  <2>. QED
    BY <1>1, <1>2, <2>1 DEF OwnInv
<1>. QED
  BY <1>3, <1>4

LEMMA OwnStutter ==
  ASSUME OwnInv, UNCHANGED <<vars, mixed>>
  PROVE  OwnInv'
<1>1. IndInv'
  BY NextIndInv DEF OwnInv
<1>2. FoundReady' /\ Apart'
  BY DEF OwnInv, FoundReady, Apart, Top, vars, sigvars, scanvars
<1>3. (Mixes => mixed)'
  BY DEF OwnInv, Mixes, WillPoll, vars, sigvars, scanvars
<1>. QED
  BY <1>1, <1>2, <1>3 DEF OwnInv

LEMMA OwnInit == Init /\ mixed = FALSE => OwnInv
<1> SUFFICES ASSUME Init, mixed = FALSE PROVE OwnInv
  OBVIOUS
<1>1. FoundReady /\ Apart
  BY DEF Init, FoundReady, Apart
<1>2. ~ Mixes
  BY DEF Init, Mixes
<1>. QED
  BY <1>1, <1>2, InitIndInv DEF OwnInv

\* Requests, handlers and promises stay apart as OwnInv says.
THEOREM OwnInductive == MixedSpec => []OwnInv
<1>1. OwnInv /\ [Next /\ NoteMixed]_<<vars, mixed>> => OwnInv'
  BY OwnStep, OwnStutter
<1>. QED
  BY <1>1, OwnInit, PTL DEF MixedSpec, MixedInit

\* As long as no polled peripheral has a request without a callback, the handler
\* a checkpoint calls is the one registered for the finished request, although
\* numbers are reused and the table keeps the handlers of old requests.
THEOREM OwnHandlerCorrect == MixedSpec => []CallsOwnHandler
  BY OwnInductive, OwnCalled, PTL

\* Under the same condition a promise without a callback keeps its request until
\* the application takes the result.
THEOREM PromiseKeptUnmixed == MixedSpec => [](~ mixed => PromiseKept)
<1>1. OwnInv => (~ mixed => PromiseKept)
  BY DEF OwnInv, Apart, PromiseKept
<1>. QED
  BY <1>1, OwnInductive, PTL

=============================================================================
