-------------------------- MODULE AdaptiveCheckpoint --------------------------
(***************************************************************************)
(* The checkpoint of a build with USE_ADAPTIVE_CHECKPOINT: the signal      *)
(* table of module IoSigtable, where a checkpoint asks the IO helper only  *)
(* when profile expects an answer. Every action here is the one of         *)
(* IoSigtable together with what the build adds to it.                     *)
(*                                                                         *)
(*   io_queues      per peripheral the estimates of its requests, oldest   *)
(*                  first: the types of the requests                       *)
(*   due            peripherals whose first estimate has run out, that is  *)
(*                  now > guess_end; times and the k, b of exec_time_table *)
(*                  are abstracted to when that happens                    *)
(*   table          exec_time_table[type].wait_profile                     *)
(*   no_profile, wait_profile, profile_times    as in the code             *)
(*   req_type       argument of the tzio_register_handler about to run     *)
(*   fifo           the IO helper's queues: the signals of the requests it *)
(*                  has not served yet, in the order they were sent        *)
(* History: wild, whether an entry was ever updated through the type of an *)
(* estimate that dequeue did not find.                                     *)
(*                                                                         *)
(* Compiled code and interpreter differ in a coefficient of b only, so AOT *)
(* is TRUE. A definition whose comment says "Mutant" is not part of the    *)
(* model.                                                                  *)
(***************************************************************************)
EXTENDS IoSigtable

CONSTANTS
    TypesOf,        \* the request types of a peripheral
    N_REQ_TYPE,     \* size of exec_time_table
    EnqueueFails,   \* may malloc fail in enqueue?
    Garbage,        \* what profile may find in front of io_queues: no estimate
                    \* ("null"), or one that has run out ("late") or not ("early")
    MaxProfile      \* bound: profile_times stays there

\* Mutant: the value is left to an entry that does not exist.
REQ_TYPE_NONE_after == N_REQ_TYPE + 1
REQ_TYPE_NONE == N_REQ_TYPE
Types == 0 .. N_REQ_TYPE - 1
\* With the memory right behind the table, which REQ_TYPE_NONE reaches. What
\* else lives there, and further away, is not modelled.
Slots == 0 .. N_REQ_TYPE

ASSUME AdaptiveAssumption ==
    /\ AOT = TRUE
    /\ N_REQ_TYPE \in Nat \ {0} /\ TypesOf \in [Periphs -> SUBSET Types]
    /\ EnqueueFails \in BOOLEAN /\ Garbage \subseteq {"null", "late", "early"} /\ MaxProfile \in Nat

VARIABLES io_queues, due, table, no_profile, wait_profile, profile_times, req_type, fifo, wild

profvars == <<table, no_profile, wait_profile, profile_times>>
history == <<fifo, wild>>
estvars == <<io_queues, due, profvars, req_type, history>>
avars == <<vars, estvars>>

AdaptiveInit ==
    /\ Init
    /\ io_queues = [p \in Periphs |-> <<>>] /\ due = {}
    /\ table = [t \in Slots |-> 0]
    /\ no_profile = FALSE /\ wait_profile = 0 /\ profile_times = 0 /\ req_type = 0
    /\ fifo = [p \in Periphs |-> <<>>] /\ wild = FALSE

\* guess_end of the first estimate of p passes.
GuessEnds(p) ==
    /\ io_queues[p] # <<>> /\ p \notin due
    /\ due' = due \cup {p}
    /\ UNCHANGED <<vars, io_queues, profvars, req_type, history>>

-----------------------------------------------------------------------------
(* Requests *)

\* The IO helper serves the requests of a peripheral in the order they came.
CompleteInOrder(x) ==
    /\ fifo[x[1]] # <<>> /\ x = Head(fifo[x[1]])
    /\ Complete(x)
    /\ fifo' = [fifo EXCEPT ![x[1]] = Tail(@)]
    /\ UNCHANGED <<io_queues, due, profvars, req_type, wild>>

\* Request gives the lowest free number.
Sends(p) == fifo' = [fifo EXCEPT ![p] = Append(@, <<p, Lowest(Free(p))>>)]

AdaptiveRequest(p, h) ==
    /\ AsyncRequest(p, h) /\ Sends(p)
    /\ req_type' \in TypesOf[p]
    /\ UNCHANGED <<io_queues, due, profvars, wild>>

AdaptivePromise(p) ==
    /\ AsyncPromise(p) /\ Sends(p)
    /\ UNCHANGED <<io_queues, due, profvars, req_type, wild>>

adaptive_set_callback(x, h) ==
    /\ promise_set_callback(x, h)
    /\ req_type' = REQ_TYPE_NONE
    /\ UNCHANGED <<io_queues, due, profvars, history>>

\* The queues enqueue may leave behind; its result is not looked at.
enqueued(p) ==
    {[io_queues EXCEPT ![p] = Append(@, req_type)]}
    \cup (IF EnqueueFails THEN {io_queues} ELSE {})

adaptive_register_handler ==
    /\ tzio_register_handler
    /\ io_queues' \in IF arg.fn = NoHandler THEN {io_queues} ELSE enqueued(arg.sig[1])
    /\ UNCHANGED <<due, profvars, req_type, history>>

-----------------------------------------------------------------------------
(* The checkpoint *)

\* Mutant: the last pending peripheral instead of the first.
highest_pending == CHOOSE p \in io_sigpending : \A q \in io_sigpending : q <= p
\* The peripheral profile looks at.
looked_at == Lowest(io_sigpending)

Saturated(n) == IF n < MaxProfile THEN n + 1 ELSE MaxProfile

\* profile() answers that the IO helper is to be asked. With nothing pending
\* it reads what lies in front of io_queues.
ProfileTrue ==
    IF io_sigpending = {} THEN "late" \in Garbage
    ELSE io_queues[looked_at] # <<>> /\ looked_at \in due

\* profile() answers no and, where there is an estimate, says how many
\* checkpoints to skip: any number, also one below zero, where it takes what
\* lies in front of io_queues for an estimate.
ProfileFalse ==
    \/ /\ io_sigpending # {} /\ ~ ProfileTrue
       /\ wait_profile' = IF io_queues[looked_at] # <<>>
                            THEN table[Head(io_queues[looked_at])] ELSE wait_profile
    \/ /\ io_sigpending = {} /\ "null" \in Garbage
       /\ UNCHANGED wait_profile
    \/ /\ io_sigpending = {} /\ "early" \in Garbage
       /\ wait_profile' \in -1 .. MaxProfile

may_profile == wait_profile <= 0

Skip ==
    /\ pc = "run" /\ ~ no_profile /\ ~ may_profile
    /\ wait_profile' = wait_profile - 1
    /\ UNCHANGED <<vars, io_queues, due, table, no_profile, profile_times, req_type, history>>

ProfileSaysNo ==
    /\ pc = "run" /\ ~ no_profile /\ may_profile
    /\ ProfileFalse
    /\ profile_times' = Saturated(profile_times)
    /\ UNCHANGED <<vars, io_queues, due, table, no_profile, req_type, history>>

\* get_ready_signal returns at once when nothing is pending.
Scan == Checkpoint \/ (io_sigpending = {} /\ UNCHANGED vars)

ProfileSaysYes ==
    /\ pc = "run" /\ ~ no_profile /\ may_profile
    /\ ProfileTrue
    /\ Scan
    /\ no_profile' = TRUE /\ profile_times' = Saturated(profile_times)
    /\ UNCHANGED <<io_queues, due, table, wait_profile, req_type, history>>

PollAgain == no_profile /\ Checkpoint /\ UNCHANGED estvars

\* get_ready_signal has ended; after the one that follows a handler profile is
\* asked again.
AfterScan ==
    IF pc = "rescan" /\ pc' = "run"
      THEN /\ no_profile' = FALSE /\ wait_profile' = 0
           /\ UNCHANGED <<io_queues, due, table, profile_times, req_type, history>>
      ELSE UNCHANGED estvars

AdaptivePollOne == PollOne /\ AfterScan
AdaptiveScanEnds == ScanEnds /\ AfterScan

\* Mutant: the estimate stays in the queue.
dequeue_nothing(p) == io_queues
\* dequeue; of an empty queue it changes nothing.
dequeue(p) == IF io_queues[p] = <<>> THEN io_queues ELSE [io_queues EXCEPT ![p] = Tail(@)]

\* What is done about the estimate before the handler is called. The next
\* estimate of the peripheral starts now. Where dequeue has found none, the
\* type is what the stack holds: some entry is updated, or memory elsewhere.
AdaptiveCallHandler ==
    /\ CallHandler
    /\ LET p == found[1]
           update(t) == [table EXCEPT ![t] = (profile_times * 8) \div 10]
       IN /\ io_queues' = dequeue(p)
          /\ due' = due \ {p}
          /\ \/ /\ io_queues[p] # <<>>
                /\ table' = update(Head(io_queues[p]))
                /\ UNCHANGED wild
             \/ /\ io_queues[p] = <<>>
                /\ table' \in {table} \cup {update(t) : t \in Slots}
                /\ wild' = TRUE
    /\ UNCHANGED <<no_profile, wait_profile, profile_times, req_type, fifo>>

AdaptiveHandlerReturns == HandlerReturns /\ UNCHANGED estvars
adaptive_get_async_data == get_async_data /\ UNCHANGED estvars
adaptive_get_promise(x) == get_async_data_promise(x) /\ UNCHANGED estvars
adaptive_promise_data == PromiseData /\ UNCHANGED estvars

\* The application asks for the number of profiles.
tzio_reset_profile_times ==
    /\ pc = "run" /\ profile_times > 0
    /\ profile_times' = 0
    /\ UNCHANGED <<vars, io_queues, due, table, no_profile, wait_profile, req_type, history>>

-----------------------------------------------------------------------------

AdaptiveCheckpoint == Skip \/ ProfileSaysNo \/ ProfileSaysYes \/ PollAgain

AdaptiveNext ==
    \/ \E x \in Signals : CompleteInOrder(x) \/ adaptive_get_promise(x)
    \/ \E p \in Periphs : GuessEnds(p) \/ AdaptivePromise(p)
    \/ \E p \in Periphs, h \in Given : AdaptiveRequest(p, h)
    \/ \E x \in Signals, h \in Given : adaptive_set_callback(x, h)
    \/ adaptive_register_handler
    \/ adaptive_promise_data
    \/ adaptive_get_async_data
    \/ Skip \/ ProfileSaysNo \/ ProfileSaysYes \/ PollAgain
    \/ AdaptivePollOne
    \/ AdaptiveScanEnds
    \/ AdaptiveCallHandler
    \/ AdaptiveHandlerReturns
    \/ tzio_reset_profile_times

AdaptiveSafeSpec == AdaptiveInit /\ [][AdaptiveNext]_avars

\* As in IoSigtable; time passes.
AdaptiveFairness ==
    /\ \A x \in Signals : WF_avars(CompleteInOrder(x))
    /\ \A p \in Periphs : WF_avars(GuessEnds(p))
    /\ WF_avars(adaptive_register_handler) /\ WF_avars(adaptive_promise_data)
    /\ WF_avars(AdaptivePollOne) /\ WF_avars(AdaptiveScanEnds) /\ WF_avars(AdaptiveCallHandler)
    /\ SF_avars(AdaptiveCheckpoint)
    /\ SF_avars(adaptive_get_async_data) /\ SF_avars(AdaptiveHandlerReturns)

-----------------------------------------------------------------------------
(* Properties *)

\* The shape of every variable. It bounds no index the code uses: an estimate
\* may have REQ_TYPE_NONE, and an update that is wild may go anywhere.
AdaptiveTypeOK ==
    /\ io_queues \in [Periphs -> Seq(Slots)]
    /\ due \subseteq Periphs /\ table \in [Slots -> 0 .. MaxProfile]
    /\ no_profile \in BOOLEAN /\ wait_profile \in -1 .. MaxProfile
    /\ profile_times \in 0 .. MaxProfile /\ req_type \in Slots
    /\ fifo \in [Periphs -> Seq(Signals)] /\ wild \in BOOLEAN

\* The requests of p whose handler has not been called yet.
Uncalled(p) ==
    {s \in Signos : /\ wanted[<<p, s>>] # NoHandler
                    /\ frames # <<>> => Top.took \/ Top.sig # <<p, s>>}

\* The specification with mixed.
AdaptiveMixedInit == AdaptiveInit /\ mixed = FALSE
AdaptiveMixedSpec == AdaptiveMixedInit /\ [][AdaptiveNext /\ NoteMixed]_<<avars, mixed>>

\* As long as no polled peripheral has a request without a callback, there is
\* one estimate for every request that still waits for its handler, however
\* requests, completions, handlers and their own requests interleave: dequeue
\* has always found one, no entry was updated through a type nobody has set,
\* and none is left over.
EstimatePerRequest ==
    ~ mixed => /\ \A p \in Periphs : Len(io_queues[p]) = Cardinality(Uncalled(p))
               /\ ~ wild

=============================================================================
