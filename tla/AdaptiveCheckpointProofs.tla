----------------------- MODULE AdaptiveCheckpointProofs -----------------------
(***************************************************************************)
(* Proofs about AdaptiveCheckpoint: it implements IoSigtable and keeps its *)
(* invariants, whatever profile answers, in every build it models.         *)
(***************************************************************************)
EXTENDS AdaptiveCheckpoint, IoSigtableProofs, FiniteSetTheorems

\* What the adaptive build does at a checkpoint is, without the estimates, a
\* checkpoint of the plain build or nothing.
LEMMA CheckpointImplements ==
  Skip \/ ProfileSaysNo \/ ProfileSaysYes \/ PollAgain => [Checkpoint]_vars
  BY DEF Skip, ProfileSaysNo, ProfileSaysYes, PollAgain, Scan

\* Every step of the adaptive build is a step of the plain one or changes the
\* estimates only.
LEMMA StepImplements == [AdaptiveNext]_avars => [Next]_vars
<1> SUFFICES ASSUME [AdaptiveNext]_avars PROVE [Next]_vars
  OBVIOUS
<1>1. CASE \E x \in Signals : CompleteInOrder(x) \/ adaptive_get_promise(x)
  BY <1>1 DEF CompleteInOrder, adaptive_get_promise, Next
<1>2. CASE \E p \in Periphs : GuessEnds(p) \/ AdaptivePromise(p)
  BY <1>2 DEF GuessEnds, AdaptivePromise, Next
<1>3. CASE \E p \in Periphs, h \in Given : AdaptiveRequest(p, h)
  BY <1>3 DEF AdaptiveRequest, Next
<1>4. CASE \E x \in Signals, h \in Given : adaptive_set_callback(x, h)
  BY <1>4 DEF adaptive_set_callback, Next
<1>5. CASE adaptive_register_handler
  BY <1>5 DEF adaptive_register_handler, Next
<1>6. CASE adaptive_promise_data \/ adaptive_get_async_data
  BY <1>6 DEF adaptive_promise_data, adaptive_get_async_data, Next
<1>7. CASE Skip \/ ProfileSaysNo \/ ProfileSaysYes \/ PollAgain
  BY <1>7, CheckpointImplements DEF Next
<1>8. CASE AdaptivePollOne \/ AdaptiveScanEnds
  BY <1>8 DEF AdaptivePollOne, AdaptiveScanEnds, Next
<1>9. CASE AdaptiveCallHandler \/ AdaptiveHandlerReturns
  BY <1>9 DEF AdaptiveCallHandler, AdaptiveHandlerReturns, Next
<1>10. CASE tzio_reset_profile_times
  BY <1>10 DEF tzio_reset_profile_times
<1>11. CASE UNCHANGED avars
  BY <1>11 DEF avars
<1>. QED
  BY <1>1, <1>2, <1>3, <1>4, <1>5, <1>6, <1>7, <1>8, <1>9, <1>10, <1>11 DEF AdaptiveNext

\* The adaptive checkpoint implements the signal table of IoSigtable: profile
\* only chooses which checkpoints ask the IO helper.
THEOREM Implements == AdaptiveSafeSpec => SafeSpec
<1>1. AdaptiveInit => Init
  BY DEF AdaptiveInit
<1>. QED
  BY <1>1, StepImplements, PTL DEF AdaptiveSafeSpec, SafeSpec

\* No handler of the adaptive build is entered on top of another.
THEOREM AdaptiveNoNesting == AdaptiveSafeSpec => []NoNestedHandler
  BY Implements, NoNesting, PTL

\* In the adaptive build too a request with a callback keeps its peripheral
\* pending, or pending again after the handler, until it is served.
THEOREM AdaptiveNothingLost == AdaptiveSafeSpec => []PendingKept
  BY Implements, NothingLost, PTL

-----------------------------------------------------------------------------
(* The estimates *)

\* wait_profile starts from a share of profile_times.
LEMMA Share == \A n \in 0 .. MaxProfile : (n * 8) \div 10 \in 0 .. MaxProfile
  BY AdaptiveAssumption

\* The type of the oldest estimate is an index of the table.
LEMMA HeadType ==
  ASSUME AdaptiveTypeOK, NEW p \in Periphs, io_queues[p] # << >>
  PROVE  Head(io_queues[p]) \in Slots
<1>1. io_queues[p] \in Seq(Slots)
  BY DEF AdaptiveTypeOK
<1>. QED
  BY <1>1, HeadTailProperties

\* A registration appends an estimate of the request's type.
LEMMA RegisterTypes ==
  ASSUME TypeOK, AdaptiveTypeOK, adaptive_register_handler
  PROVE  AdaptiveTypeOK'
<1>1. arg.sig \in Signals
  BY DEF adaptive_register_handler, tzio_register_handler, TypeOK
<1>3. arg.sig[1] \in Periphs
  BY <1>1, SignalPair
<1>4. Append(io_queues[arg.sig[1]], req_type) \in Seq(Slots)
  BY <1>3, AppendProperties DEF AdaptiveTypeOK
<1>5. \A q \in enqueued(arg.sig[1]) : q \in [Periphs -> Seq(Slots)]
  BY <1>3, <1>4 DEF enqueued, AdaptiveTypeOK
<1>6. io_queues' \in [Periphs -> Seq(Slots)]
  BY <1>5 DEF adaptive_register_handler, AdaptiveTypeOK
<1>. QED
  BY <1>6 DEF adaptive_register_handler, profvars, history, AdaptiveTypeOK

\* A call takes an estimate out and writes a share of profile_times.
LEMMA CallTypes ==
  ASSUME TypeOK, AdaptiveTypeOK, AdaptiveCallHandler
  PROVE  AdaptiveTypeOK'
<1> DEFINE p == found[1]
<1>1. p \in Periphs
  <2>1. found \in Signals
    BY DEF AdaptiveCallHandler, CallHandler, TypeOK
  <2>. QED
    BY <2>1, SignalPair
<1>2. io_queues' \in [Periphs -> Seq(Slots)]
  <2>1. io_queues[p] # << >> => Tail(io_queues[p]) \in Seq(Slots)
    BY <1>1, HeadTailProperties DEF AdaptiveTypeOK
  <2>. QED
    BY <1>1, <2>1 DEF AdaptiveCallHandler, dequeue, AdaptiveTypeOK
<1>3. table' \in [Slots -> 0 .. MaxProfile]
  <2>1. (profile_times * 8) \div 10 \in 0 .. MaxProfile
    BY Share DEF AdaptiveTypeOK
  <2>2. \A t \in Slots : [table EXCEPT ![t] = (profile_times * 8) \div 10] \in [Slots -> 0 .. MaxProfile]
    BY <2>1 DEF AdaptiveTypeOK
  <2>3. table \in [Slots -> 0 .. MaxProfile]
    BY DEF AdaptiveTypeOK
  <2>. QED
    BY <1>1, <2>2, <2>3, HeadType DEF AdaptiveCallHandler
<1>4. due' \subseteq Periphs
  BY DEF AdaptiveCallHandler, AdaptiveTypeOK
<1>5. wild' \in BOOLEAN
  BY DEF AdaptiveCallHandler, AdaptiveTypeOK
<1>. QED
  BY <1>2, <1>3, <1>4, <1>5 DEF AdaptiveCallHandler, AdaptiveTypeOK

\* A checkpoint counts down from a positive number or from a table entry.
LEMMA CheckpointTypes ==
  ASSUME TypeOK, AdaptiveTypeOK, Skip \/ ProfileSaysNo \/ ProfileSaysYes \/ PollAgain
  PROVE  AdaptiveTypeOK'
<1>1. Saturated(profile_times) \in 0 .. MaxProfile
  BY AdaptiveAssumption DEF AdaptiveTypeOK, Saturated
<1>2. CASE Skip
  BY <1>2, AdaptiveAssumption DEF Skip, may_profile, history, AdaptiveTypeOK
<1>3. CASE ProfileSaysNo
  <2>1. wait_profile' \in -1 .. MaxProfile
    <3>1. io_sigpending # {} => looked_at \in Periphs
      BY LowestInSet, ConstantsAssumption DEF looked_at, TypeOK
    <3>. QED
      BY <1>3, <3>1, HeadType DEF ProfileSaysNo, ProfileFalse, AdaptiveTypeOK
  <2>. QED
    BY <1>1, <1>3, <2>1 DEF ProfileSaysNo, history, AdaptiveTypeOK
<1>4. CASE ProfileSaysYes
  BY <1>1, <1>4 DEF ProfileSaysYes, history, AdaptiveTypeOK
<1>5. CASE PollAgain
  BY <1>5 DEF PollAgain, estvars, profvars, history, AdaptiveTypeOK
<1>. QED
  BY <1>2, <1>3, <1>4, <1>5

\* What is sent is a signal of its peripheral.
LEMMA SendsTypes ==
  ASSUME AdaptiveTypeOK, NEW p \in Periphs, Free(p) # {}, Sends(p)
  PROVE  fifo' \in [Periphs -> Seq(Signals)]
<1>1. Lowest(Free(p)) \in Signos
  <2>1. Free(p) \subseteq Signos /\ Free(p) \subseteq Nat
    BY ConstantsAssumption DEF Free, Signos
  <2>2. Lowest(Free(p)) \in Free(p)
    BY <2>1, LowestInSet
  <2>. QED
    BY <2>1, <2>2
<1>2. <<p, Lowest(Free(p))>> \in Signals
  BY <1>1 DEF Signals
<1>. QED
  BY <1>2, AppendProperties DEF Sends, AdaptiveTypeOK

\* Every step keeps the types of the estimates.
LEMMA NextTypes == TypeOK /\ AdaptiveTypeOK /\ [AdaptiveNext]_avars => AdaptiveTypeOK'
<1> SUFFICES ASSUME TypeOK, AdaptiveTypeOK, [AdaptiveNext]_avars PROVE AdaptiveTypeOK'
  OBVIOUS
<1>1. CASE UNCHANGED estvars
  BY <1>1 DEF estvars, profvars, history, AdaptiveTypeOK
<1>2. ASSUME NEW p \in Periphs, GuessEnds(p) PROVE AdaptiveTypeOK'
  BY <1>2 DEF GuessEnds, profvars, history, AdaptiveTypeOK
<1>3. ASSUME NEW p \in Periphs, NEW h \in Given, AdaptiveRequest(p, h) PROVE AdaptiveTypeOK'
  <2>1. req_type' \in Slots
    BY <1>3, AdaptiveAssumption DEF AdaptiveRequest, Types, Slots
  <2>2. fifo' \in [Periphs -> Seq(Signals)]
    BY <1>3, SendsTypes DEF AdaptiveRequest, AsyncRequest, Request
  <2>. QED
    BY <1>3, <2>1, <2>2 DEF AdaptiveRequest, profvars, AdaptiveTypeOK
<1>4. ASSUME NEW x \in Signals, NEW h \in Given, adaptive_set_callback(x, h) PROVE AdaptiveTypeOK'
  <2>1. req_type' \in Slots
    BY <1>4, AdaptiveAssumption DEF adaptive_set_callback, REQ_TYPE_NONE, Slots
  <2>. QED
    BY <1>4, <2>1 DEF adaptive_set_callback, profvars, history, AdaptiveTypeOK
<1>5. CASE AdaptivePollOne \/ AdaptiveScanEnds
  <2>1. AfterScan
    BY <1>5 DEF AdaptivePollOne, AdaptiveScanEnds
  <2>2. CASE /\ no_profile' = FALSE /\ wait_profile' = 0
             /\ UNCHANGED <<io_queues, due, table, profile_times, req_type, history>>
    <3>1. 0 \in -1 .. MaxProfile
      BY AdaptiveAssumption
    <3>2. wait_profile' \in -1 .. MaxProfile
      BY <2>2, <3>1
    <3>. QED
      BY <2>2, <3>2, Zenon DEF AdaptiveTypeOK, history
  <2>. QED
    BY <1>1, <2>1, <2>2, Zenon DEF AfterScan
<1>6. CASE tzio_reset_profile_times
  BY <1>6, AdaptiveAssumption DEF tzio_reset_profile_times, history, AdaptiveTypeOK
<1>7. ASSUME NEW x \in Signals, CompleteInOrder(x) PROVE AdaptiveTypeOK'
  <2>1. x[1] \in Periphs
    BY SignalPair
  <2>2. fifo' \in [Periphs -> Seq(Signals)]
    <3>1. Tail(fifo[x[1]]) \in Seq(Signals)
      BY <1>7, <2>1, HeadTailProperties DEF CompleteInOrder, AdaptiveTypeOK
    <3>. QED
      BY <1>7, <2>1, <3>1 DEF CompleteInOrder, AdaptiveTypeOK
  <2>. QED
    BY <1>7, <2>2 DEF CompleteInOrder, profvars, AdaptiveTypeOK
<1>7a. ASSUME NEW x \in Signals, adaptive_get_promise(x) PROVE AdaptiveTypeOK'
  BY <1>1, <1>7a DEF adaptive_get_promise
<1>8. ASSUME NEW p \in Periphs, AdaptivePromise(p) PROVE AdaptiveTypeOK'
  <2>1. fifo' \in [Periphs -> Seq(Signals)]
    BY <1>8, SendsTypes DEF AdaptivePromise, AsyncPromise, Request
  <2>. QED
    BY <1>8, <2>1 DEF AdaptivePromise, profvars, AdaptiveTypeOK
<1>9. CASE adaptive_promise_data \/ adaptive_get_async_data \/ AdaptiveHandlerReturns \/ UNCHANGED avars
  BY <1>1, <1>9 DEF adaptive_promise_data, adaptive_get_async_data, AdaptiveHandlerReturns, avars
<1>. QED
  BY <1>2, <1>3, <1>4, <1>5, <1>6, <1>7, <1>7a, <1>8, <1>9, RegisterTypes, CallTypes, CheckpointTypes DEF AdaptiveNext

\* The variables keep their shape, whatever profile takes for an estimate and
\* whichever entry an update goes to for which dequeue has found none.
THEOREM AdaptiveTypeCorrect == AdaptiveSafeSpec => []AdaptiveTypeOK
<1>1. AdaptiveInit => AdaptiveTypeOK
  <2> SUFFICES ASSUME AdaptiveInit PROVE AdaptiveTypeOK
    OBVIOUS
  <2>1. << >> \in Seq(Slots)
    BY EmptySeq
  <2>2. << >> \in Seq(Signals)
    BY EmptySeq
  <2>3. 0 \in 0 .. MaxProfile /\ 0 \in -1 .. MaxProfile /\ 0 \in Slots
    BY AdaptiveAssumption DEF Slots
  <2>4. /\ io_queues \in [Periphs -> Seq(Slots)] /\ fifo \in [Periphs -> Seq(Signals)]
        /\ table \in [Slots -> 0 .. MaxProfile]
    BY <2>1, <2>2, <2>3 DEF AdaptiveInit
  <2>. QED
    BY <2>3, <2>4 DEF AdaptiveInit, AdaptiveTypeOK
<1>2. AdaptiveSafeSpec => []TypeOK
  BY Implements, TypeCorrect, PTL
<1>. QED
  BY <1>1, <1>2, NextTypes, PTL DEF AdaptiveSafeSpec

-----------------------------------------------------------------------------
(* One estimate per request *)

\* Where no allocation fails and every handler takes its result.
EstInv == OwnInv /\ AdaptiveTypeOK /\ EstimatePerRequest

LEMMA UncalledFinite ==
  ASSUME NEW p \in Periphs
  PROVE  IsFiniteSet(Uncalled(p)) /\ Cardinality(Uncalled(p)) \in Nat
<1>1. IsFiniteSet(Signos)
  BY ConstantsAssumption, FS_Interval DEF Signos
<1>2. IsFiniteSet(Uncalled(p))
  BY <1>1, FS_Subset DEF Uncalled
<1>. QED
  BY <1>2, FS_CardinalityType

\* The requests that wait for their handler change with wanted and the stack only.
LEMMA UncalledSame ==
  ASSUME UNCHANGED <<wanted, frames>>
  PROVE  \A p \in Periphs : Uncalled(p)' = Uncalled(p)
<1>1. Top' = Top
  BY DEF Top
<1>. QED
  BY <1>1 DEF Uncalled

LEMMA EstSame ==
  ASSUME EstInv, UNCHANGED <<io_queues, wild>>, ~ mixed' => ~ mixed,
         ~ mixed' => \A p \in Periphs : Uncalled(p)' = Uncalled(p)
  PROVE  EstimatePerRequest'
  BY DEF EstInv, EstimatePerRequest

LEMMA EstRegister ==
  ASSUME EstInv, EnqueueFails = FALSE, adaptive_register_handler, ~ mixed' => ~ mixed
  PROVE  EstimatePerRequest'
<1>1. CASE arg.fn = NoHandler
  <2>1. UNCHANGED <<io_queues, wild, wanted, frames>>
    BY <1>1 DEF adaptive_register_handler, tzio_register_handler, history
  <2>. QED
    BY <2>1, UncalledSame, EstSame
<1>2. CASE arg.fn # NoHandler
  <2>0. wild' = wild
    BY DEF adaptive_register_handler, history
  <2> SUFFICES ASSUME ~ mixed', ~ mixed, NEW p \in Periphs
               PROVE  Len(io_queues'[p]) = Cardinality(Uncalled(p)')
    BY <2>0 DEF EstimatePerRequest, EstInv
  <2>1. PICK q \in Periphs, s \in Signos : arg.sig = <<q, s>> /\ <<q, s>> \in Signals
    BY SignalPair DEF adaptive_register_handler, tzio_register_handler, EstInv, OwnInv, IndInv, TypeOK
  <2>2. PICK e \in Slots : io_queues' = [io_queues EXCEPT ![q] = Append(io_queues[q], e)]
    BY <1>2, <2>1 DEF adaptive_register_handler, enqueued, EstInv, AdaptiveTypeOK
  <2>3. /\ wanted' = [wanted EXCEPT ![<<q, s>>] = arg.fn] /\ frames' = frames
        /\ wanted[<<q, s>>] = NoHandler
    BY <1>2, <2>1 DEF adaptive_register_handler, tzio_register_handler, EstInv, OwnInv, Apart
  <2>4. Top' = Top
    BY <2>3 DEF Top
  <2>5. \A r \in Periphs, z \in Signos :
          wanted'[<<r, z>>] = IF r = q /\ z = s THEN arg.fn ELSE wanted[<<r, z>>]
    BY <2>3, SignalPair DEF EstInv, OwnInv, IndInv, TypeOK
  <2>6. frames # << >> => Top.took \/ Top.sig # <<q, s>>
    BY <2>3 DEF EstInv, OwnInv, Apart
  <2>7. Len(io_queues[p]) = Cardinality(Uncalled(p)) /\ io_queues[p] \in Seq(Slots)
    BY DEF EstInv, EstimatePerRequest, AdaptiveTypeOK
  <2>8. CASE p # q
    <3>1. Uncalled(p)' = Uncalled(p)
      BY <2>3, <2>4, <2>5, <2>8 DEF Uncalled
    <3>. QED
      BY <2>2, <2>7, <2>8, <3>1 DEF EstInv, AdaptiveTypeOK
  <2>9. CASE p = q
    <3>1. s \notin Uncalled(p) /\ Uncalled(p)' = Uncalled(p) \cup {s}
      BY <1>2, <2>3, <2>4, <2>5, <2>6, <2>9 DEF Uncalled
    <3>2. Cardinality(Uncalled(p) \cup {s}) = Cardinality(Uncalled(p)) + 1
      BY <3>1, UncalledFinite, FS_AddElement
    <3>3. io_queues'[p] = Append(io_queues[p], e)
      BY <2>2, <2>9 DEF EstInv, AdaptiveTypeOK
    <3>4. Len(Append(io_queues[p], e)) = Len(io_queues[p]) + 1
      BY <2>7, AppendProperties
    <3>. QED
      BY <2>7, <3>1, <3>2, <3>3, <3>4
  <2>. QED
    BY <2>8, <2>9
<1>. QED
  BY <1>1, <1>2

LEMMA EstCall ==
  ASSUME EstInv, AdaptiveCallHandler, ~ mixed' => ~ mixed
  PROVE  EstimatePerRequest'
<1> SUFFICES ASSUME ~ mixed', ~ mixed, NEW p \in Periphs
             PROVE  Len(io_queues'[p]) = Cardinality(Uncalled(p)') /\ (p = found[1] => ~ wild')
  <2>1. found[1] \in Periphs
    BY SignalPair DEF AdaptiveCallHandler, CallHandler, EstInv, OwnInv, IndInv, TypeOK
  <2>. QED
    BY <2>1 DEF EstimatePerRequest
<1>1. pc = "call" /\ frames = << >> /\ found \in Signals /\ wanted' = wanted
  BY DEF AdaptiveCallHandler, CallHandler, EstInv, OwnInv, IndInv, HandlerState, TypeOK
<1>2. wanted[found] # NoHandler /\ io_sigtable[found] # NoHandler
  <2>1. CallsOwnHandler
    BY OwnCalled DEF EstInv
  <2>. QED
    BY <1>1, <2>1 DEF CallsOwnHandler
<1>3. PICK q \in Periphs, s \in Signos : found = <<q, s>>
  BY <1>1, SignalPair
<1>4. frames' # << >> /\ Top'.sig = <<q, s>> /\ ~ Top'.took
  <2>1. PICK f : f = [sig |-> found, fn |-> io_sigtable[found], took |-> FALSE]
    OBVIOUS
  <2>2. frames' = Append(frames, f)
    BY <1>2, <2>1 DEF AdaptiveCallHandler, CallHandler
  <2>3. frames' = << f >>
    BY <1>1, <2>2
  <2>4. Top' = f /\ frames' # << >>
    BY <2>3 DEF Top
  <2>. QED
    BY <1>3, <2>1, <2>4
<1>5. \A r \in Periphs :
        Uncalled(r)' = IF r = q THEN Uncalled(r) \ {s} ELSE Uncalled(r)
  BY <1>1, <1>4 DEF Uncalled
<1>6. Len(io_queues[p]) = Cardinality(Uncalled(p)) /\ io_queues[p] \in Seq(Slots)
  BY DEF EstInv, EstimatePerRequest, AdaptiveTypeOK
<1>7. io_queues' = dequeue(q)
  BY <1>3 DEF AdaptiveCallHandler
<1>8. CASE p # q
  <2>1. io_queues'[p] = io_queues[p]
    BY <1>7, <1>8 DEF dequeue, EstInv, AdaptiveTypeOK
  <2>. QED
    BY <1>3, <1>5, <1>6, <1>8, <2>1
<1>9. CASE p = q
  <2>1. s \in Uncalled(p)
    BY <1>1, <1>2, <1>3, <1>9 DEF Uncalled
  <2>2. Cardinality(Uncalled(p) \ {s}) = Cardinality(Uncalled(p)) - 1
    BY <2>1, UncalledFinite, FS_RemoveElement
  <2>3. Cardinality(Uncalled(p) \ {s}) \in Nat
    BY UncalledFinite, FS_RemoveElement, FS_CardinalityType
  <2>4. io_queues[p] # << >>
    BY <1>6, <2>2, <2>3, UncalledFinite
  <2>5. io_queues'[p] = Tail(io_queues[p])
    BY <1>7, <1>9, <2>4 DEF dequeue, EstInv, AdaptiveTypeOK
  <2>6. Len(Tail(io_queues[p])) = Len(io_queues[p]) - 1
    BY <1>6, <2>4, HeadTailProperties
  <2>7. Uncalled(p)' = Uncalled(p) \ {s}
    BY <1>5, <1>9
  <2>8. ~ wild'
    BY <1>3, <1>9, <2>4 DEF AdaptiveCallHandler, EstInv, EstimatePerRequest
  <2>. QED
    BY <1>6, <2>2, <2>5, <2>6, <2>7, <2>8
<1>. QED
  BY <1>8, <1>9

LEMMA EstGetData ==
  ASSUME EstInv, adaptive_get_async_data, ~ mixed' => ~ mixed
  PROVE  EstimatePerRequest'
<1> SUFFICES ASSUME ~ mixed', ~ mixed, NEW p \in Periphs
             PROVE  Uncalled(p)' = Uncalled(p)
  BY EstSame DEF adaptive_get_async_data, estvars, history
<1>1. /\ frames # << >> /\ Len(frames) = 1 /\ Top.sig \in Signals /\ Top \in Frames
      /\ frames \in Seq(Frames) /\ ~ Top.took
  BY FramesShape DEF adaptive_get_async_data, get_async_data, EstInv, OwnInv, IndInv, TypeOK
<1>2. wanted[Top.sig] # NoHandler /\ req[Top.sig] = "ready"
  BY <1>1 DEF EstInv, OwnInv, Apart
<1>3. wanted' = [wanted EXCEPT ![Top.sig] = NoHandler]
  BY <1>2 DEF adaptive_get_async_data, get_async_data
<1>4. Top'.took
  <2>1. frames' = [frames EXCEPT ![1] = [frames[1] EXCEPT !.took = TRUE]]
    BY <1>1 DEF adaptive_get_async_data, get_async_data
  <2>2. [frames[1] EXCEPT !.took = TRUE].took
    BY <1>1 DEF Frames, Top
  <2>3. Len(frames') = 1 /\ frames'[1].took
    BY <1>1, <2>1, <2>2
  <2>. QED
    BY <2>3 DEF Top
<1>5. \A s \in Signos : <<p, s>> \in Signals /\
        wanted'[<<p, s>>] = IF Top.sig = <<p, s>> THEN NoHandler ELSE wanted[<<p, s>>]
  BY <1>1, <1>3, SignalPair DEF EstInv, OwnInv, IndInv, TypeOK
<1>. QED
  BY <1>1, <1>4, <1>5 DEF Uncalled

LEMMA EstPromiseData ==
  ASSUME EstInv, adaptive_promise_data, ~ mixed' => ~ mixed
  PROVE  EstimatePerRequest'
<1>1. arg.sig \in Signals /\ pc = "await" /\ UNCHANGED <<frames, io_queues, wild>>
  BY DEF adaptive_promise_data, PromiseData, estvars, history, EstInv, OwnInv, IndInv, TypeOK
<1>2. ~ mixed' => wanted[arg.sig] = NoHandler
  BY <1>1 DEF EstInv, OwnInv, Apart
<1>3. ~ mixed' => wanted' = wanted
  BY <1>1, <1>2 DEF adaptive_promise_data, PromiseData, EstInv, OwnInv, IndInv, TypeOK
<1>. QED
  BY <1>1, <1>3, UncalledSame, EstSame

LEMMA EstReturn ==
  ASSUME EstInv, HandlersTake, AdaptiveHandlerReturns, ~ mixed' => ~ mixed
  PROVE  EstimatePerRequest'
<1>1. frames # << >> /\ Top.took /\ UNCHANGED <<wanted, io_queues, wild>>
  BY DEF AdaptiveHandlerReturns, HandlerReturns, estvars, history
<1>2. frames' = << >>
  <2>1. Len(frames) = 1
    BY <1>1, FramesShape DEF EstInv, OwnInv
  <2>. QED
    BY <2>1 DEF AdaptiveHandlerReturns, HandlerReturns, EstInv, OwnInv, IndInv, TypeOK
<1>3. \A p \in Periphs : Uncalled(p)' = Uncalled(p)
  BY <1>1, <1>2 DEF Uncalled
<1>. QED
  BY <1>1, <1>3, EstSame

\* The other steps touch neither the estimates nor the requests with a callback.
LEMMA EstOther ==
  ASSUME EstInv, ~ mixed' => ~ mixed, UNCHANGED <<io_queues, wild, wanted, frames>>
  PROVE  EstimatePerRequest'
  BY UncalledSame, EstSame

LEMMA EstStep ==
  ASSUME EstInv, HandlersTake, EnqueueFails = FALSE, AdaptiveNext, ~ mixed' => ~ mixed
  PROVE  EstimatePerRequest'
<1>1. ASSUME NEW x \in Signals, CompleteInOrder(x) \/ adaptive_get_promise(x)
      PROVE  UNCHANGED <<io_queues, wild, wanted, frames>>
  BY <1>1 DEF CompleteInOrder, Complete, adaptive_get_promise, get_async_data_promise, estvars, history
<1>2. ASSUME NEW p \in Periphs, GuessEnds(p) \/ AdaptivePromise(p)
      PROVE  UNCHANGED <<io_queues, wild, wanted, frames>>
  BY <1>2 DEF GuessEnds, AdaptivePromise, AsyncPromise, estvars, history, vars
<1>3. ASSUME NEW p \in Periphs, NEW h \in Given, AdaptiveRequest(p, h)
      PROVE  UNCHANGED <<io_queues, wild, wanted, frames>>
  BY <1>3 DEF AdaptiveRequest, AsyncRequest
<1>4. ASSUME NEW x \in Signals, NEW h \in Given, adaptive_set_callback(x, h)
      PROVE  UNCHANGED <<io_queues, wild, wanted, frames>>
  BY <1>4 DEF adaptive_set_callback, promise_set_callback, history
<1>5. ASSUME Skip \/ ProfileSaysNo \/ ProfileSaysYes \/ PollAgain \/ tzio_reset_profile_times
      PROVE  UNCHANGED <<io_queues, wild, wanted, frames>>
  BY <1>5 DEF Skip, ProfileSaysNo, ProfileSaysYes, PollAgain, tzio_reset_profile_times, Scan,
     Checkpoint, estvars, history, vars
<1>6. ASSUME AdaptivePollOne \/ AdaptiveScanEnds
      PROVE  UNCHANGED <<io_queues, wild, wanted, frames>>
  BY <1>6 DEF AdaptivePollOne, AdaptiveScanEnds, PollOne, ScanEnds, AfterScan, estvars, history
<1>. QED
  BY <1>1, <1>2, <1>3, <1>4, <1>5, <1>6, EstOther, EstRegister, EstCall, EstGetData,
     EstPromiseData, EstReturn DEF AdaptiveNext

\* As long as no polled peripheral has a request without a callback, every
\* request that waits for its handler has exactly one estimate, so the dequeue
\* before a handler has found one and no entry is updated through a type that
\* nobody has set; where malloc does not fail and every handler takes its result.
THEOREM EstimateCorrect ==
  ASSUME HandlersTake, EnqueueFails = FALSE
  PROVE  AdaptiveMixedSpec => []EstimatePerRequest
<1>1. AdaptiveInit /\ mixed = FALSE => OwnInv /\ EstimatePerRequest
  <2> SUFFICES ASSUME AdaptiveInit, mixed = FALSE PROVE OwnInv /\ EstimatePerRequest
    OBVIOUS
  <2>1. OwnInv
    BY OwnInit DEF AdaptiveInit
  <2>2. ASSUME NEW p \in Periphs
        PROVE  Len(io_queues[p]) = Cardinality(Uncalled(p))
    <3>1. Uncalled(p) = {}
      BY SignalPair DEF AdaptiveInit, Init, Uncalled
    <3>. QED
      BY <3>1, FS_EmptySet DEF AdaptiveInit
  <2>. QED
    BY <2>1, <2>2 DEF EstimatePerRequest, AdaptiveInit
<1>2. EstInv /\ [AdaptiveNext /\ NoteMixed]_<<avars, mixed>> => (OwnInv /\ EstimatePerRequest)'
  <2> SUFFICES ASSUME EstInv, [AdaptiveNext /\ NoteMixed]_<<avars, mixed>>
               PROVE  OwnInv' /\ EstimatePerRequest'
    OBVIOUS
  <2>1. CASE AdaptiveNext /\ NoteMixed
    <3>1. ~ mixed' => ~ mixed
      BY <2>1 DEF NoteMixed
    <3>2. [Next]_vars
      BY <2>1, StepImplements
    <3>. QED
      BY <2>1, <3>1, <3>2, OwnStep, EstStep DEF EstInv
  <2>2. CASE UNCHANGED <<avars, mixed>>
    <3>1. OwnInv'
      BY <2>2, OwnStutter DEF EstInv, avars
    <3>2. UNCHANGED <<io_queues, wild, wanted, frames>> /\ (~ mixed' => ~ mixed)
      BY <2>2 DEF avars, vars, estvars, history
    <3>. QED
      BY <3>1, <3>2, EstOther
  <2>. QED
    BY <2>1, <2>2
<1>3. AdaptiveMixedSpec => AdaptiveSafeSpec
  <2>1. [AdaptiveNext /\ NoteMixed]_<<avars, mixed>> => [AdaptiveNext]_avars
    OBVIOUS
  <2>. QED
    BY <2>1, PTL DEF AdaptiveMixedSpec, AdaptiveMixedInit, AdaptiveSafeSpec
<1>. QED
  BY <1>1, <1>2, <1>3, AdaptiveTypeCorrect, PTL DEF AdaptiveMixedSpec, AdaptiveMixedInit, EstInv
===============================================================================
