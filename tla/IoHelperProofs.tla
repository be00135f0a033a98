--------------------------- MODULE IoHelperProofs ---------------------------
(***************************************************************************)
(* Proofs about IoHelper, for every number of clients and signal numbers.  *)
(***************************************************************************)
EXTENDS IoHelper, TLAPS, FiniteSetTheorems, SequenceTheorems, WellFoundedInduction

-----------------------------------------------------------------------------
(* The operators the model is built from *)

\* __builtin_ffsll finds a set bit of a bitmap that is not zero.
LEMMA LowestInSet ==
  ASSUME NEW S \in SUBSET Signos, S # {}
  PROVE  Lowest(S) \in S
<1>1. S \subseteq Nat
  BY ConstantsAssumption DEF Signos
<1> DEFINE R == OpToRel(<, Nat)
<1>2. \A i, j \in Nat : i < j => <<i, j>> \in R
  BY DEF OpToRel
<1>3. IsWellFoundedOn(R, Nat)
  BY NatLessThanWellFounded
<1> HIDE DEF R
<1>4. PICK x \in S : \A y \in S : ~ (<<y, x>> \in R)
  BY <1>1, <1>3, WFMin
<1>5. \A y \in S : x <= y
  <2> SUFFICES ASSUME NEW y \in S, y < x PROVE FALSE
    BY <1>1
  <2>. QED
    BY <1>1, <1>2, <1>4
<1>. QED
  BY <1>5 DEF Lowest

\* A counter below its modulus is not wrapped.
LEMMA ModSmall ==
  ASSUME NEW m \in Nat, m > 0, NEW a \in 0 .. m - 1
  PROVE  a % m = a
  BY SMT

\* The bitmaps are finite and the counter cannot reach its modulus.
LEMMA BitmapFinite ==
  ASSUME NEW S \in SUBSET Signos
  PROVE  IsFiniteSet(S) /\ Cardinality(S) \in 0 .. NSubSig
<1>1. IsFiniteSet(Signos) /\ Cardinality(Signos) = NSubSig
  BY ConstantsAssumption, FS_Interval DEF Signos
<1>. QED
  BY <1>1, FS_Subset, FS_CardinalityType, ConstantsAssumption

\* enqueue adds one request, at the rear.
LEMMA EnqueueProperties ==
  ASSUME NEW q \in Seq(Requests), NEW r \in Requests
  PROVE  /\ enqueue(q, r) \in Seq(Requests)
         /\ Len(enqueue(q, r)) = Len(q) + 1
         /\ \A i \in 1 .. Len(q) : enqueue(q, r)[i] = q[i]
         /\ enqueue(q, r)[Len(q) + 1] = r
  BY DEF enqueue

\* What the queue holds.
LEMMA QueueElements ==
  ASSUME TypeOK
  PROVE  /\ queue \in Seq(Requests) /\ Len(queue) \in Nat
         /\ \A i \in 1 .. Len(queue) : queue[i] \in Requests /\ queue[i].by \in Clients
<1>1. queue \in Seq(Requests)
  BY DEF TypeOK
<1>2. Len(queue) \in Nat
  BY <1>1, LenProperties
<1>3. \A i \in 1 .. Len(queue) : queue[i] \in Requests
  BY <1>1, ElementOfSeq
<1>. QED
  BY <1>1, <1>2, <1>3 DEF Requests

-----------------------------------------------------------------------------
(* The inductive invariant *)

LEMMA InitIndInv == Init => IndInv
<1> SUFFICES ASSUME Init PROVE IndInv
  OBVIOUS
<1> USE ConstantsAssumption DEF Init
<1>1. TypeOK
  BY DEF TypeOK, Signos, Entries, Blocks, NULL, LoopPc, ClientPc
<1>2. UsingCounted
  BY FS_EmptySet DEF UsingCounted
<1>3. OnePlace
  BY DEF OnePlace, InFlight, Submitting, Queued, Serving
<1>. QED
  BY <1>1, <1>2, <1>3 DEF IndInv, NoLostWakeup, Ownership, OnItsWay, FetchesOwn

\* allocate_signo: the number it finds is new to every place.
LEMMA AllocateStep ==
  ASSUME IndInv, NEW c \in Clients, NEW k \in Kinds, AllocateSigno(c, k)
  PROVE  IndInv'
<1> DEFINE s == lowest_free
           r == Request(issued + 1, s, k, c)
<1> USE ConstantsAssumption DEF IndInv
<1>1. s \in Signos /\ s \notin sigusing
  <2>1. Signos \ sigusing # {}
    BY DEF AllocateSigno, TypeOK
  <2>. QED
    BY <2>1, LowestInSet DEF lowest_free
<1>2. r \in Requests /\ r.signo = s /\ r.by = c
  BY <1>1 DEF Requests, Request, TypeOK
<1>3. TypeOK'
  BY <1>1, <1>2 DEF TypeOK, AllocateSigno, req_nums_inc, tabvars, loopvars, ClientPc
<1>4. UsingCounted'
  <2>1. Cardinality(sigusing') = Cardinality(sigusing) + 1
    BY <1>1, BitmapFinite, FS_AddElement DEF AllocateSigno, TypeOK
  <2>2. Cardinality(sigusing') \in 0 .. NSubSig
    BY <1>3, BitmapFinite DEF TypeOK
  <2>3. req_nums + 1 \in 0 .. CounterMod - 1
    BY <2>1, <2>2 DEF UsingCounted, TypeOK
  <2>4. req_nums_inc(req_nums) = req_nums + 1
    BY <2>3, ModSmall DEF req_nums_inc
  <2>. QED
    BY <2>1, <2>4 DEF UsingCounted, AllocateSigno
<1>5. OnePlace'
  <2>1. Submitting' = Submitting \cup {s}
    BY <1>2 DEF Submitting, AllocateSigno, TypeOK
  <2>2. Queued' = Queued /\ Serving' = Serving
    BY DEF Queued, Serving, AllocateSigno, loopvars
  <2>3. s \notin InFlight \cup sigpending
    BY <1>1 DEF OnePlace
  <2>4. ASSUME NEW d \in Clients, cpc'[d] = "enqueue", d # c
        PROVE  creq'[d] = creq[d] /\ creq[d].signo \in InFlight
    BY <2>4 DEF AllocateSigno, TypeOK, InFlight, Submitting
  <2>5. creq'[c].signo = s
    BY <1>2 DEF AllocateSigno, TypeOK
  <2>6. \A d, e \in Clients :
          cpc'[d] = "enqueue" /\ cpc'[e] = "enqueue"
             /\ creq'[d].signo = creq'[e].signo => d = e
    BY <2>3, <2>4, <2>5 DEF OnePlace, AllocateSigno, TypeOK
  <2>. QED
    BY <2>1, <2>2, <2>3, <2>6 DEF OnePlace, InFlight, AllocateSigno
<1>6. Ownership'
  <2>1. owner' = [owner EXCEPT ![s] = r] /\ creq' = [creq EXCEPT ![c] = r]
    BY DEF AllocateSigno
  <2>2. ASSUME NEW t \in sigusing
        PROVE  owner'[t] = owner[t] /\ owner[t].by \in Clients
    BY <1>1, <2>1, <2>2 DEF Ownership, Requests, TypeOK
  <2>3. \A t \in sigusing' :
          /\ owner'[t] \in Requests /\ owner'[t].signo = t
          /\ \/ t \in mine'[owner'[t].by]
             \/ cpc'[owner'[t].by] = "enqueue" /\ creq'[owner'[t].by] = owner'[t]
    <3> HIDE DEF s, r
    <3> SUFFICES ASSUME NEW t \in sigusing'
                 PROVE /\ owner'[t] \in Requests /\ owner'[t].signo = t
                       /\ \/ t \in mine'[owner'[t].by]
                          \/ /\ cpc'[owner'[t].by] = "enqueue"
                             /\ creq'[owner'[t].by] = owner'[t]
      OBVIOUS
    <3>1. CASE t = s
      BY <1>1, <1>2, <2>1, <3>1 DEF AllocateSigno, TypeOK
    <3>2. CASE t \in sigusing
      <4>1. /\ owner'[t] = owner[t] /\ owner[t].by \in Clients /\ mine' = mine
            /\ cpc[c] = "idle" /\ cpc' = [cpc EXCEPT ![c] = "enqueue"]
        BY <2>2, <3>2 DEF AllocateSigno
      <4>2. /\ owner[t] \in Requests /\ owner[t].signo = t
            /\ \/ t \in mine[owner[t].by]
               \/ cpc[owner[t].by] = "enqueue" /\ creq[owner[t].by] = owner[t]
        BY <3>2 DEF Ownership
      <4>3. owner[t].by # c => /\ cpc'[owner[t].by] = cpc[owner[t].by]
                               /\ creq'[owner[t].by] = creq[owner[t].by]
        BY <2>1, <4>1 DEF TypeOK
      <4>. QED
        BY <4>1, <4>2, <4>3
    <3>. QED
      BY <3>1, <3>2 DEF AllocateSigno, s
  <2>4. \A d \in Clients : \A t \in mine'[d] : t \in sigusing' /\ owner'[t].by = d
    BY <1>1, <2>2 DEF Ownership, AllocateSigno
  <2>. QED
    BY <2>3, <2>4 DEF Ownership
<1>7. OnItsWay'
  BY <1>1, <1>2 DEF TypeOK, OnePlace, Ownership, OnItsWay, InFlight, Submitting, Queued, Serving, AllocateSigno, loopvars
<1>8. FetchesOwn' /\ NoLostWakeup'
  BY DEF FetchesOwn, NoLostWakeup, AllocateSigno, TypeOK, loopvars
<1>. QED
  BY <1>3, <1>4, <1>5, <1>6, <1>7, <1>8

\* The section of read_req and its siblings under the queue mutex.
LEMMA EnqueueStep ==
  ASSUME IndInv, NEW c \in Clients, Enqueue(c)
  PROVE  IndInv'
<1> DEFINE r == creq[c]
<1> USE ConstantsAssumption DEF IndInv
<1>1. cpc[c] = "enqueue" /\ r \in Requests /\ r.by = c /\ r.signo \in Signos
  BY DEF Enqueue, OnItsWay, Requests
<1>2. /\ owner[r.signo] = r /\ r.signo \in sigusing \ sigpending
      /\ r.signo \notin Queued \cup Serving /\ r.signo \notin mine[c]
  BY <1>1 DEF OnItsWay, OnePlace, InFlight, Submitting
<1> DEFINE q == enqueue(queue, r)
<1>a. /\ queue \in Seq(Requests) /\ Len(queue) \in Nat
      /\ \A i \in 1 .. Len(queue) : queue[i] \in Requests /\ queue[i].by \in Clients
  BY QueueElements
<1>b. /\ q \in Seq(Requests) /\ Len(q) = Len(queue) + 1
      /\ \A i \in 1 .. Len(queue) : q[i] = queue[i]
      /\ q[Len(queue) + 1] = r
  BY <1>1, <1>a, EnqueueProperties
<1>3. queue' = q \/ queue' = queue
  BY DEF Enqueue
<1> HIDE DEF q
<1>4. TypeOK'
  BY <1>1, <1>3, <1>b
  DEF TypeOK, Enqueue, sigvars, tabvars, ghosts, ClientPc, LoopPc, condvar_signal
<1>5. UsingCounted' /\ NoLostWakeup'
  BY DEF UsingCounted, NoLostWakeup, Enqueue, sigvars, condvar_signal
<1>6. OnePlace'
  <2>1. Submitting' = Submitting \ {r.signo}
    BY <1>1 DEF Submitting, Enqueue, TypeOK, OnePlace
  <2>2. Serving' = Serving
    BY DEF Serving, Enqueue, condvar_signal
  <2>3. Queued' = Queued \/ Queued' = Queued \cup {r.signo}
    <3>1. CASE queue' = queue
      BY <3>1 DEF Queued
    <3>2. CASE queue' = q
      BY <1>a, <1>b, <3>2 DEF Queued
    <3>. QED
      BY <1>3, <3>1, <3>2
  <2>4. \A i, j \in 1 .. Len(queue') : queue'[i].signo = queue'[j].signo => i = j
    <3>1. CASE queue' = queue
      BY <3>1 DEF OnePlace
    <3>2. CASE queue' = q
      BY <1>2, <1>a, <1>b, <3>2 DEF OnePlace, Queued
    <3>. QED
      BY <1>3, <3>1, <3>2
  <2>5. \A d, e \in Clients :
          cpc'[d] = "enqueue" /\ cpc'[e] = "enqueue"
             /\ creq'[d].signo = creq'[e].signo => d = e
    BY DEF OnePlace, Enqueue, TypeOK
  <2>6. sigusing' = sigusing /\ sigpending' = sigpending
    BY DEF Enqueue, sigvars
  <2>. QED
    BY <1>1, <1>2, <2>1, <2>2, <2>3, <2>4, <2>5, <2>6 DEF OnePlace, InFlight
<1>7. Ownership'
  <2>1. \A s \in sigusing : owner[s].by \in Clients
    BY DEF Ownership, Requests
  <2>. QED
    BY <1>1, <1>2, <2>1 DEF Ownership, Enqueue, sigvars, ghosts, TypeOK
<1>8. OnItsWay'
  <2>1. \A d \in Clients : mine[d] \subseteq mine'[d] /\ (d # c => mine'[d] = mine[d])
    BY DEF Enqueue, TypeOK
  <2>2. r.signo \in mine'[c] /\ owner' = owner
    BY <1>1 DEF Enqueue, TypeOK, ghosts
  <2>3. \A d \in Clients : cpc'[d] = "enqueue" =>
          /\ creq'[d] \in Requests /\ creq'[d].by = d
          /\ owner'[creq'[d].signo] = creq'[d]
          /\ creq'[d].signo \notin mine'[d]
    BY <2>1, <2>2 DEF OnItsWay, Enqueue, TypeOK
  <2>5. \A i \in 1 .. Len(queue') :
          owner'[queue'[i].signo] = queue'[i] /\ queue'[i].signo \in mine'[queue'[i].by]
    BY <1>1, <1>2, <1>3, <1>a, <1>b, <2>1, <2>2 DEF OnItsWay
  <2>6. lpc' \in {"handle", "ready"} =>
          lreq' \in Requests /\ owner'[lreq'.signo] = lreq' /\ lreq'.signo \in mine'[lreq'.by]
    BY <2>1, <2>2 DEF OnItsWay, Enqueue, condvar_signal, Requests
  <2>. QED
    BY <2>3, <2>5, <2>6 DEF OnItsWay
<1>9. FetchesOwn'
  BY DEF FetchesOwn, Enqueue, TypeOK, sigvars
<1>. QED
  BY <1>4, <1>5, <1>6, <1>7, <1>8, <1>9

\* start_loop, with the queue mutex held: wait, or take the oldest request.
LEMMA LoopWaitStep ==
  ASSUME IndInv, LoopWait
  PROVE  IndInv'
  BY DEF IndInv, TypeOK, NoLostWakeup, UsingCounted, OnePlace, InFlight, Submitting,
         Queued, Serving, Ownership, OnItsWay, FetchesOwn, LoopWait, LoopPc,
         sigvars, tabvars, callvars, ghosts

LEMMA LoopDequeueStep ==
  ASSUME IndInv, LoopDequeue
  PROVE  IndInv'
<1> USE DEF IndInv
<1>1. /\ Head(queue) \in Requests /\ Tail(queue) \in Seq(Requests)
      /\ Head(queue) = queue[1] /\ 1 \in 1 .. Len(queue)
      /\ Len(Tail(queue)) = Len(queue) - 1
      /\ \A i \in 1 .. Len(Tail(queue)) : Tail(queue)[i] = queue[i + 1] /\ i + 1 \in 1 .. Len(queue)
  BY HeadTailProperties DEF LoopDequeue, TypeOK
<1>2. TypeOK'
  BY <1>1 DEF TypeOK, LoopDequeue, LoopPc, sigvars, tabvars, callvars, ghosts
<1>3. UsingCounted' /\ NoLostWakeup' /\ Ownership' /\ FetchesOwn'
  BY DEF UsingCounted, NoLostWakeup, Ownership, FetchesOwn, LoopDequeue, sigvars, callvars, ghosts
<1>4. OnePlace'
  <2>1. Submitting' = Submitting
    BY DEF Submitting, LoopDequeue, callvars
  <2>2. Serving = {} /\ Serving' = {queue[1].signo}
    BY <1>1 DEF Serving, LoopDequeue
  <2>3. Queued' \subseteq Queued /\ queue[1].signo \in Queued /\ queue[1].signo \notin Queued'
    BY <1>1 DEF Queued, LoopDequeue, OnePlace
  <2>4. \A i, j \in 1 .. Len(queue') : queue'[i].signo = queue'[j].signo => i = j
    BY <1>1 DEF OnePlace, LoopDequeue
  <2>. QED
    BY <2>1, <2>2, <2>3, <2>4 DEF OnePlace, InFlight, LoopDequeue, sigvars, callvars
<1>5. OnItsWay'
  BY <1>1 DEF OnItsWay, LoopDequeue, callvars, ghosts
<1>. QED
  BY <1>2, <1>3, <1>4, <1>5

\* start_loop without the queue mutex: the handler, then set_ready_signal.
LEMMA LoopHandleStep ==
  ASSUME IndInv, LoopHandle
  PROVE  IndInv'
<1> USE DEF IndInv
<1>1. /\ lreq \in Requests /\ lreq.signo \in Signos /\ lreq.id \in Nat
      /\ table[lreq.signo] \in Entries
  BY DEF LoopHandle, OnItsWay, Requests, TypeOK
<1>2. PICK e \in handle_req(table[lreq.signo], lreq) :
          /\ table' = [table EXCEPT ![lreq.signo] = e]
          /\ heap' = heap \cup NewBlocks(e, lreq)
  BY DEF LoopHandle
<1>3. e \in Entries
  <2> DEFINE t == table[lreq.signo]
  <2>1. Failed(t, lreq) \in Entries
    BY <1>1 DEF Failed, Entries
  <2>2. /\ Done("ok", 1, Block(lreq.id, 1), lreq) \in Entries
        /\ Done("ok", 0, Block(lreq.id, 0), lreq) \in Entries
        /\ Done("ok", 0, NULL, lreq) \in Entries
        /\ Done("err", 0, NULL, lreq) \in Entries
    BY <1>1 DEF Done, Block, NULL, Entries, Blocks
  <2>3. lreq.kind \in AllKinds
    BY <1>1 DEF Requests
  <2>. QED
    BY <1>2, <2>1, <2>2, <2>3
    DEF handle_req, ReadResults, WriteResults, ObjectResults, SpiResults, AllKinds
<1>4. TypeOK'
  BY <1>1, <1>2, <1>3
  DEF TypeOK, LoopHandle, LoopPc, NewBlocks, Entries, sigvars, callvars, ghosts
<1>5. UsingCounted' /\ NoLostWakeup' /\ Ownership' /\ FetchesOwn' /\ OnItsWay'
  BY DEF UsingCounted, NoLostWakeup, Ownership, FetchesOwn, OnItsWay, LoopHandle,
         sigvars, callvars, ghosts
<1>6. OnePlace'
  <2>1. Submitting' = Submitting /\ Queued' = Queued /\ Serving' = Serving
    BY DEF Submitting, Queued, Serving, LoopHandle, callvars
  <2>. QED
    BY <2>1 DEF OnePlace, InFlight, LoopHandle, sigvars, callvars
<1>. QED
  BY <1>4, <1>5, <1>6

LEMMA LoopSetReadyStep ==
  ASSUME IndInv, LoopSetReady
  PROVE  IndInv'
<1> USE DEF IndInv
<1>1. lreq \in Requests /\ lreq.signo \in Signos /\ Serving = {lreq.signo}
  BY DEF LoopSetReady, OnItsWay, Requests, Serving
<1>2. TypeOK'
  BY <1>1 DEF TypeOK, LoopSetReady, LoopPc, set_ready_signal, tabvars, callvars, ghosts
<1>3. UsingCounted' /\ NoLostWakeup' /\ Ownership' /\ FetchesOwn' /\ OnItsWay'
  BY DEF UsingCounted, NoLostWakeup, Ownership, FetchesOwn, OnItsWay, LoopSetReady,
         set_ready_signal, callvars, ghosts
<1>4. OnePlace'
  <2>1. Submitting' = Submitting /\ Queued' = Queued /\ Serving' = {}
    BY DEF Submitting, Queued, Serving, LoopSetReady, callvars
  <2>. QED
    BY <1>1, <2>1 DEF OnePlace, InFlight, LoopSetReady, set_ready_signal, callvars
<1>. QED
  BY <1>2, <1>3, <1>4

\* poll and poll_subsignal change nothing the others rely on.
LEMMA PollStep ==
  ASSUME IndInv, NEW c \in Clients,
         \/ PollReady(c) \/ PollNothingReady(c) \/ PollReqNum(c)
         \/ PollSubsignalReady(c) \/ \E s \in mine[c] : PollSubsignal(c, s)
  PROVE  IndInv'
<1> USE DEF IndInv
<1>1. /\ UNCHANGED <<sigvars, queue, tabvars, loopvars, creq, mine, ghosts>>
      /\ \E pc \in {"idle", "pollnum", "pollsub"} : cpc' = [cpc EXCEPT ![c] = pc]
      /\ cpc[c] \in {"idle", "pollnum", "pollsub"}
      /\ csig' \in [Clients -> Signos \cup {NoSig}]
      /\ \A d \in Clients \ {c} : csig'[d] = csig[d]
      /\ polled' \in [Clients -> Signos \cup {NoSig}]
  <2> USE DEF sigvars, tabvars, loopvars, callvars, ghosts
  <2>1. CASE PollReady(c)
    <3>1. Lowest(sigpending) \in Signos
      BY <2>1, LowestInSet DEF PollReady, TypeOK
    <3>. QED
      BY <2>1, <3>1 DEF PollReady, TypeOK, bits_after_poll
  <2>2. CASE PollNothingReady(c)
    BY <2>2 DEF PollNothingReady, TypeOK
  <2>3. CASE PollReqNum(c)
    BY <2>3 DEF PollReqNum, TypeOK
  <2>4. CASE PollSubsignalReady(c)
    BY <2>4 DEF PollSubsignalReady, TypeOK
  <2>5. CASE \E s \in mine[c] : PollSubsignal(c, s)
    BY <2>5 DEF PollSubsignal, TypeOK
  <2>. QED
    BY <2>1, <2>2, <2>3, <2>4, <2>5
<1>2. TypeOK'
  BY <1>1 DEF TypeOK, ClientPc, sigvars, tabvars, loopvars, ghosts
<1>3. /\ \A d \in Clients : cpc'[d] = "enqueue" <=> cpc[d] = "enqueue"
      /\ \A d \in Clients : cpc'[d] \in {"table", "free", "reset", "release"} =>
                              cpc'[d] = cpc[d] /\ csig'[d] = csig[d]
  BY <1>1 DEF TypeOK
<1>4. UsingCounted' /\ NoLostWakeup' /\ Ownership' /\ OnItsWay' /\ FetchesOwn'
  <2>1. \A s \in sigusing : owner[s].by \in Clients
    BY DEF Ownership, Requests
  <2>. QED
    BY <1>1, <1>3, <2>1 DEF UsingCounted, NoLostWakeup, Ownership, OnItsWay, FetchesOwn,
       sigvars, loopvars, ghosts
<1>5. OnePlace'
  <2>1. Submitting' = Submitting /\ Queued' = Queued /\ Serving' = Serving
    BY <1>1, <1>3 DEF Submitting, Queued, Serving, loopvars
  <2>. QED
    BY <1>1, <1>3, <2>1 DEF OnePlace, InFlight, sigvars
<1>. QED
  BY <1>2, <1>4, <1>5

\* What a client takes is its own: the point where ExclusiveFetch is needed.
LEMMA GetDataStep ==
  ASSUME ExclusiveFetch, IndInv, NEW c \in Clients, NEW s \in Fetchable(c), GetData(c, s)
  PROVE  IndInv'
<1> USE DEF IndInv
<1>1. s \in sigpending /\ s \in Signos /\ s \in sigusing /\ cpc[c] = "idle"
  BY DEF GetData, is_ready_signal, TypeOK, OnePlace
<1>2. s \in mine[c]
  <2>1. CASE c \in ByPoll
    <3>1. owner[s].by = c
      BY <1>1, <2>1 DEF ExclusiveFetch, Ownership, Requests
    <3>. QED
      BY <1>1, <3>1 DEF Ownership
  <2>2. CASE c \notin ByPoll
    BY <2>2 DEF Fetchable
  <2>. QED
    BY <2>1, <2>2
<1>3. /\ cpc' = [cpc EXCEPT ![c] = "table"] /\ csig' = [csig EXCEPT ![c] = s]
      /\ UNCHANGED <<sigvars, queue, tabvars, loopvars, creq, polled, mine, ghosts>>
  BY DEF GetData
<1>4. TypeOK'
  BY <1>1, <1>3 DEF TypeOK, ClientPc, sigvars, tabvars, loopvars, ghosts
<1>5. \A d \in Clients : cpc'[d] = "enqueue" <=> cpc[d] = "enqueue"
  BY <1>1, <1>3 DEF TypeOK
<1>6. UsingCounted' /\ NoLostWakeup' /\ Ownership' /\ OnItsWay'
  <2>1. \A t \in sigusing : owner[t].by \in Clients
    BY DEF Ownership, Requests
  <2>. QED
    BY <1>3, <1>5, <2>1 DEF UsingCounted, NoLostWakeup, Ownership, OnItsWay,
       sigvars, loopvars, ghosts
<1>7. FetchesOwn'
  BY <1>1, <1>2, <1>3 DEF FetchesOwn, TypeOK, sigvars
<1>8. OnePlace'
  <2>1. Submitting' = Submitting /\ Queued' = Queued /\ Serving' = Serving
    BY <1>3, <1>5 DEF Submitting, Queued, Serving, loopvars
  <2>. QED
    BY <1>3, <1>5, <2>1 DEF OnePlace, InFlight, sigvars
<1>. QED
  BY <1>4, <1>6, <1>7, <1>8

\* The body of get_data, outside every mutex.
LEMMA GetDataBodyStep ==
  ASSUME IndInv, NEW c \in Clients,
         \/ \E n \in {0, 1} : GetDataTable(c, n)
         \/ GetDataFree(c) \/ GetDataReset(c)
  PROVE  IndInv'
<1> USE DEF IndInv
<1>1. csig[c] \in Signos /\ table[csig[c]] \in Entries
  BY DEF GetDataTable, GetDataFree, GetDataReset, FetchesOwn, TypeOK
<1>2. /\ UNCHANGED <<sigvars, queue, loopvars, creq, polled, mine, owner, issued, served>>
      /\ cpc[c] \in {"table", "free", "reset"}
      /\ \/ cpc' = [cpc EXCEPT ![c] = "idle"] /\ csig' = [csig EXCEPT ![c] = NoSig]
         \/ /\ \E pc \in {"free", "reset", "release"} : cpc' = [cpc EXCEPT ![c] = pc]
            /\ csig' = csig
      /\ heap' \subseteq Blocks /\ table' \in [Signos -> Entries]
      /\ got' \in [Clients -> Nat]
  <2> USE DEF sigvars, tabvars, loopvars, ghosts
  <2>1. CASE \E n \in {0, 1} : GetDataTable(c, n)
    <3>1. PICK n \in {0, 1} : GetDataTable(c, n)
      BY <2>1
    <3> DEFINE e == table[csig[c]]
               v == Verdict(e, n)
    <3>2. Source(e, v) \in Nat
      BY <1>1 DEF Source, Entries, Blocks
    <3>3. v = "short" => AfterVerdict(v) = "idle"
      BY DEF AfterVerdict
    <3>4. v # "short" => AfterVerdict(v) \in {"free", "release"}
      BY DEF AfterVerdict
    <3>. QED
      BY <3>1, <3>2, <3>3, <3>4 DEF GetDataTable, TypeOK
  <2>2. CASE GetDataFree(c)
    BY <2>2 DEF GetDataFree, TypeOK
  <2>3. CASE GetDataReset(c)
    <3>1. table' \in [Signos -> Entries]
      BY <1>1, <2>3 DEF GetDataReset, TypeOK, Entries
    <3>. QED
      BY <2>3, <3>1 DEF GetDataReset, TypeOK
  <2>. QED
    BY <2>1, <2>2, <2>3
<1>3. TypeOK'
  BY <1>2 DEF TypeOK, ClientPc, sigvars, loopvars
<1>4. /\ \A d \in Clients : cpc'[d] = "enqueue" <=> cpc[d] = "enqueue"
      /\ \A d \in Clients : cpc'[d] \in {"table", "free", "reset", "release"} =>
            cpc[d] \in {"table", "free", "reset", "release"} /\ csig'[d] = csig[d]
  BY <1>2 DEF TypeOK
<1>5. UsingCounted' /\ NoLostWakeup' /\ Ownership' /\ OnItsWay' /\ FetchesOwn'
  <2>1. \A t \in sigusing : owner[t].by \in Clients
    BY DEF Ownership, Requests
  <2>. QED
    BY <1>2, <1>4, <2>1 DEF UsingCounted, NoLostWakeup, Ownership, OnItsWay, FetchesOwn,
       sigvars, loopvars
<1>6. OnePlace'
  <2>1. Submitting' = Submitting /\ Queued' = Queued /\ Serving' = Serving
    BY <1>2, <1>4 DEF Submitting, Queued, Serving, loopvars
  <2>. QED
    BY <1>2, <1>4, <2>1 DEF OnePlace, InFlight, sigvars
<1>. QED
  BY <1>3, <1>5, <1>6

\* release_signo frees a number that no request on its way holds.
LEMMA ReleaseStep ==
  ASSUME IndInv, NEW c \in Clients, ReleaseSigno(c)
  PROVE  IndInv'
<1> DEFINE s == csig[c]
<1> USE ConstantsAssumption DEF IndInv
<1>1. /\ s \in sigpending /\ s \in mine[c] /\ s \in sigusing /\ s \in Signos
      /\ s \notin InFlight /\ owner[s] \in Requests /\ owner[s].by = c
  BY DEF ReleaseSigno, FetchesOwn, OnePlace, Ownership, TypeOK
<1>2. /\ sigpending' = sigpending \ {s} /\ sigusing' = sigusing \ {s}
      /\ req_nums' = req_nums_dec(req_nums)
      /\ mine' = [mine EXCEPT ![c] = @ \ {s}]
      /\ cpc[c] = "release" /\ cpc' = [cpc EXCEPT ![c] = "idle"]
      /\ csig' = [csig EXCEPT ![c] = NoSig]
      /\ UNCHANGED <<queue, tabvars, loopvars, creq, owner, issued>>
  BY DEF ReleaseSigno, pending_released
<1>3. /\ Cardinality(sigusing') = Cardinality(sigusing) - 1
      /\ Cardinality(sigusing) \in 0 .. NSubSig /\ Cardinality(sigusing') \in 0 .. NSubSig
  BY <1>1, <1>2, BitmapFinite, FS_RemoveElement DEF TypeOK
<1>4. req_nums' = req_nums - 1 /\ req_nums' \in 0 .. CounterMod - 1
  <2>1. req_nums - 1 \in 0 .. CounterMod - 1
    BY <1>3 DEF UsingCounted, TypeOK
  <2>2. (req_nums - 1) % CounterMod = req_nums - 1
    BY <2>1, ModSmall
  <2>. QED
    BY <1>2, <2>1, <2>2 DEF req_nums_dec
<1>5. TypeOK'
  <2>1. owner[s].id \in Nat /\ got[c] \in Nat
    BY <1>1 DEF Requests, TypeOK
  <2>2. served' \subseteq [req : Nat, from : Nat]
    BY <2>1 DEF ReleaseSigno, TypeOK
  <2>3. polled' \in [Clients -> Signos \cup {NoSig}] /\ got' \in [Clients -> Nat]
    BY DEF ReleaseSigno, TypeOK
  <2>. QED
    BY <1>2, <1>4, <2>2, <2>3 DEF TypeOK, ClientPc, tabvars, loopvars
<1>6. UsingCounted' /\ NoLostWakeup'
  BY <1>2, <1>3, <1>4 DEF UsingCounted, NoLostWakeup, loopvars
<1>7. /\ \A d \in Clients : cpc'[d] = "enqueue" <=> cpc[d] = "enqueue"
      /\ \A d \in Clients : cpc'[d] \in {"table", "free", "reset", "release"} =>
            d # c /\ cpc'[d] = cpc[d] /\ csig'[d] = csig[d]
  BY <1>2 DEF TypeOK
<1>8. \A d \in Clients : mine'[d] = mine[d] \ {s}
  <2>1. \A d \in Clients : d # c => s \notin mine[d]
    BY <1>1 DEF Ownership
  <2>. QED
    BY <1>2, <2>1 DEF TypeOK
<1>9. Submitting' = Submitting /\ Queued' = Queued /\ Serving' = Serving
  BY <1>2, <1>7 DEF Submitting, Queued, Serving, loopvars
<1>10. OnePlace'
  BY <1>1, <1>2, <1>7, <1>9 DEF OnePlace, InFlight
<1>11. Ownership'
  <2>1. \A t \in sigusing : owner[t].by \in Clients
    BY DEF Ownership, Requests
  <2>. QED
    BY <1>2, <1>7, <1>8, <2>1 DEF Ownership
<1>12. OnItsWay'
  <2>1. \A i \in 1 .. Len(queue) : queue[i].by \in Clients /\ queue[i].signo # s
    BY <1>1, QueueElements DEF InFlight, Queued
  <2>2. lpc \in {"handle", "ready"} => lreq.by \in Clients /\ lreq.signo # s
    BY <1>1 DEF InFlight, Serving, OnItsWay, Requests
  <2>. QED
    BY <1>2, <1>7, <1>8, <2>1, <2>2 DEF OnItsWay, loopvars
<1>13. FetchesOwn'
  <2>1. \A d \in Clients : cpc'[d] \in {"table", "free", "reset", "release"} => csig[d] # s
    BY <1>1, <1>7 DEF FetchesOwn, Ownership
  <2>. QED
    BY <1>2, <1>7, <1>8, <2>1 DEF FetchesOwn
<1>. QED
  BY <1>5, <1>6, <1>10, <1>11, <1>12, <1>13

LEMMA NextIndInv == ExclusiveFetch /\ IndInv /\ [Next]_vars => IndInv'
<1> SUFFICES ASSUME ExclusiveFetch, IndInv, [Next]_vars PROVE IndInv'
  OBVIOUS
<1>1. CASE LoopStep
  BY <1>1, LoopWaitStep, LoopDequeueStep, LoopHandleStep, LoopSetReadyStep DEF LoopStep
<1>2. ASSUME NEW c \in Clients, InCall(c) PROVE IndInv'
  BY <1>2, EnqueueStep, PollStep, GetDataBodyStep, ReleaseStep DEF InCall
<1>3. ASSUME NEW c \in Clients, Invoke(c) PROVE IndInv'
  BY <1>3, AllocateStep, PollStep, GetDataStep DEF Invoke
<1>4. CASE UNCHANGED vars
  <2>1. Submitting' = Submitting /\ Queued' = Queued /\ Serving' = Serving
    BY <1>4 DEF vars, loopvars, callvars, Submitting, Queued, Serving
  <2>. QED
    BY <1>4, <2>1 DEF vars, sigvars, tabvars, loopvars, callvars, ghosts, IndInv, TypeOK,
       NoLostWakeup, UsingCounted, OnePlace, InFlight, Ownership, OnItsWay, FetchesOwn
<1>. QED
  BY <1>1, <1>2, <1>3, <1>4 DEF Next

\* The inductive invariant holds throughout every behaviour in which a client
\* takes only the results of its own requests.
THEOREM Inductive ==
  ASSUME ExclusiveFetch
  PROVE  SafeSpec => []IndInv
<1>1. IndInv /\ [Next]_vars => IndInv'
  BY NextIndInv
<1>. QED
  BY InitIndInv, <1>1, PTL DEF SafeSpec

\* Every variable keeps its type: in particular the counter never wraps and no
\* number outside 0 .. N_SUB_SIG - 1 is handed out.
THEOREM TypeCorrect ==
  ASSUME ExclusiveFetch
  PROVE  SafeSpec => []TypeOK
  BY Inductive, PTL DEF IndInv

\* req_nums is the number of signals in use, for any number of clients and of
\* signal numbers, whether or not malloc fails in enqueue.
THEOREM CounterCorrect ==
  ASSUME ExclusiveFetch
  PROVE  SafeSpec => []UsingCounted
  BY Inductive, PTL DEF IndInv

\* A number in use is in one place: being submitted, queued, served or ready.
THEOREM OnePlaceCorrect ==
  ASSUME ExclusiveFetch
  PROVE  SafeSpec => []OnePlace
  BY Inductive, PTL DEF IndInv

\* The loop never sleeps while a request waits in the queue.
THEOREM WakeupCorrect ==
  ASSUME ExclusiveFetch
  PROVE  SafeSpec => []NoLostWakeup
  BY Inductive, PTL DEF IndInv

-----------------------------------------------------------------------------
(***************************************************************************)
(* The results: whose they are, where their buffers are and in which order *)
(* they come. On top of the first invariant, which says where a number is  *)
(* and whose, DataInv says what its table entry holds. The refinement of   *)
(* AsyncIo needs both.                                                     *)
(***************************************************************************)

-----------------------------------------------------------------------------
(* What the first invariant says of a number *)

InFetch == {"table", "free", "reset", "release"}

\* A number in use has an owner; a handled number is in use.
LEMMA NumbersInUse ==
  ASSUME IndInv
  PROVE  /\ \A s \in sigusing : /\ s \in Signos /\ owner[s] \in Requests
                                /\ owner[s].by \in Clients /\ owner[s].id \in Nat
         /\ Handled \subseteq sigusing
         /\ \A s \in sigpending : s \in mine[owner[s].by]
<1>1. \A s \in sigusing : s \in Signos /\ owner[s] \in Requests
  BY DEF IndInv, Ownership, TypeOK
<1>2. Handled \subseteq sigusing
  BY DEF IndInv, OnePlace, InFlight, Serving, Handled
<1>3. ASSUME NEW s \in sigpending PROVE s \in mine[owner[s].by]
  <2>1. s \in sigusing /\ s \notin Submitting
    BY DEF IndInv, OnePlace, InFlight
  <2>2. owner[s].signo = s /\ owner[s].by \in Clients
    BY <1>1, <2>1 DEF IndInv, Ownership, Requests
  <2>. QED
    BY <2>1, <2>2 DEF IndInv, Ownership, Submitting
<1>. QED
  BY <1>1, <1>2, <1>3 DEF Requests

\* A client in get_data is alone with its number, which is ready.
LEMMA FetchesAlone ==
  ASSUME IndInv, NEW c \in Clients, cpc[c] \in InFetch
  PROVE  /\ csig[c] \in sigpending /\ csig[c] \in sigusing /\ csig[c] \in Handled
         /\ csig[c] \in Signos /\ owner[csig[c]].by = c
         /\ \A d \in Clients : cpc[d] \in InFetch /\ csig[d] = csig[c] => d = c
<1>1. \A d \in Clients : cpc[d] \in InFetch =>
         csig[d] \in sigpending /\ csig[d] \in mine[d] /\ csig[d] \in sigusing /\ owner[csig[d]].by = d
  BY DEF IndInv, FetchesOwn, Ownership, InFetch
<1>. QED
  BY <1>1 DEF Handled, IndInv, TypeOK

-----------------------------------------------------------------------------
(* The second invariant *)

LEMMA InitDataInv == Init => DataInv
<1> SUFFICES ASSUME Init PROVE DataInv
  OBVIOUS
<1>1. OwnEntry
  BY DEF Init, OwnEntry, Handled, NULL, HasData
<1>2. HeapExact
  BY DEF Init, HeapExact, Handled
<1>. QED
  BY <1>1, <1>2 DEF Init, DataInv, Identities, InGetData, InOrder, CompletionOrder

\* Steps that leave numbers, queue, table and heap alone, and the clients
\* inside get_data and enqueue: DataInv speaks of nothing else.
LEMMA QuietStep ==
  ASSUME IndInv, DataInv,
         UNCHANGED <<sigusing, sigpending, queue, table, heap, creq, mine, owner, issued, got, served>>,
         Handled' = Handled,
         lpc' \in {"handle", "ready"} => lreq' = lreq /\ lpc \in {"handle", "ready"},
         \A d \in Clients : cpc'[d] = "enqueue" => cpc[d] = "enqueue",
         \A d \in Clients :
            cpc'[d] \in {"free", "reset", "release"} \/ cpc[d] \in {"free", "reset", "release"}
               => cpc'[d] = cpc[d] /\ csig'[d] = csig[d]
  PROVE  DataInv'
<1> USE DEF DataInv
<1>1. Identities' /\ CompletionOrder'
  BY DEF Identities, CompletionOrder
<1>2. \A s : (HasData(s))' = HasData(s) /\ (Freed(s))' = Freed(s)
  BY DEF HasData, Freed
<1>3. OwnEntry'
  BY <1>2 DEF OwnEntry, Block
<1>4. InGetData'
  BY <1>2 DEF InGetData
<1>5. HeapExact'
  BY <1>2 DEF HeapExact
<1>6. InOrder'
  BY DEF InOrder
<1>. QED
  BY <1>1, <1>3, <1>4, <1>5, <1>6

\* allocate_signo: a new request is younger than every other.
LEMMA AllocateData ==
  ASSUME IndInv, DataInv, NEW c \in Clients, NEW k \in Kinds, AllocateSigno(c, k)
  PROVE  DataInv'
<1> DEFINE s == lowest_free
           r == Request(issued + 1, s, k, c)
<1> USE DEF DataInv
<1>1. s \in Signos /\ s \notin sigusing
  <2>1. Signos \ sigusing # {} /\ Signos \ sigusing \in SUBSET Signos
    BY DEF AllocateSigno, IndInv, TypeOK
  <2>. QED
    BY <2>1, LowestInSet DEF lowest_free
<1>2. /\ sigusing' = sigusing \cup {s} /\ issued' = issued + 1
      /\ owner' = [owner EXCEPT ![s] = r] /\ creq' = [creq EXCEPT ![c] = r]
      /\ cpc[c] = "idle" /\ cpc' = [cpc EXCEPT ![c] = "enqueue"]
      /\ UNCHANGED <<sigpending, queue, table, heap, lpc, lreq, csig, polled, mine, got, served>>
  BY DEF AllocateSigno, tabvars, loopvars
<1>3. r.id = issued + 1 /\ r.by = c /\ issued \in Nat
  BY DEF Request, IndInv, TypeOK
<1> HIDE DEF s, r
<1>4. /\ owner'[s] = r
      /\ \A t \in sigusing : t # s /\ owner'[t] = owner[t] /\ owner[t].id \in 1 .. issued
  BY <1>1, <1>2 DEF IndInv, TypeOK, Identities
<1>5. Identities'
  BY <1>2, <1>3, <1>4 DEF Identities
<1>6. Handled' = Handled /\ Handled \subseteq sigusing
  BY <1>2, NumbersInUse DEF Handled
<1>7. \A t : (HasData(t))' = HasData(t) /\ (Freed(t))' = Freed(t)
  BY <1>2 DEF HasData, Freed, IndInv, TypeOK
<1>8. OwnEntry'
  <2>1. \A t \in Signos : table'[t].buf.id \in 0 .. issued
    BY <1>2 DEF OwnEntry
  <2>2. \A t \in Handled' : table'[t].req = owner'[t].id
    BY <1>2, <1>4, <1>6 DEF OwnEntry
  <2>3. \A t \in Handled' : (HasData(t))' => table'[t].buf = Block(owner'[t].id, 1)
    BY <1>2, <1>4, <1>6, <1>7 DEF OwnEntry
  <2>4. \A t \in sigusing' \ Handled' : table'[t].buf.id # owner'[t].id
    BY <1>1, <1>2, <1>3, <1>4, <1>6, <2>1 DEF OwnEntry
  <2>. QED
    BY <1>2, <1>3, <2>1, <2>2, <2>3, <2>4 DEF OwnEntry
<1>9. InGetData'
  <2>1. \A d \in Clients : cpc'[d] \in InFetch => cpc[d] = cpc'[d] /\ csig[d] \in sigusing
    BY <1>2, FetchesAlone DEF IndInv, TypeOK, InFetch
  <2>. QED
    BY <1>2, <1>4, <1>7, <2>1 DEF InGetData, InFetch
<1>10. HeapExact'
  BY <1>2, <1>6, <1>7 DEF HeapExact
<1>11. InOrder'
  <2>1. \A d \in Clients : \A t \in mine[d] : t \in sigusing
    BY DEF IndInv, Ownership
  <2>2. \A d \in Clients : cpc'[d] = "enqueue" =>
          \A t \in mine'[d] : owner'[t].id < creq'[d].id
    BY <1>2, <1>3, <1>4, <2>1 DEF InOrder, IndInv, TypeOK
  <2>. QED
    BY <1>2, <2>2 DEF InOrder
<1>12. CompletionOrder'
  BY <1>2, <1>4 DEF CompletionOrder, IndInv, OnePlace
<1>. QED
  BY <1>5, <1>8, <1>9, <1>10, <1>11, <1>12

\* enqueue: behind the other requests of the client.
LEMMA EnqueueData ==
  ASSUME IndInv, DataInv, NEW c \in Clients, Enqueue(c)
  PROVE  DataInv'
<1> DEFINE r == creq[c]
           q == enqueue(queue, r)
<1> USE DEF DataInv
<1>1. cpc[c] = "enqueue" /\ r \in Requests /\ r.by = c /\ r.id \in Nat /\ owner[r.signo] = r
  BY DEF Enqueue, IndInv, OnItsWay, Requests
<1>2. /\ UNCHANGED <<sigusing, sigpending, table, heap, lreq, csig, owner, issued, got, served>>
      /\ lpc' = condvar_signal(lpc) /\ cpc' = [cpc EXCEPT ![c] = "idle"]
      /\ creq' = [creq EXCEPT ![c] = NoRequest]
      /\ mine' = [mine EXCEPT ![c] = @ \cup {r.signo}]
      /\ queue' = q \/ queue' = queue
  BY DEF Enqueue, sigvars, tabvars, ghosts
<1>3. /\ queue \in Seq(Requests) /\ Len(queue) \in Nat
      /\ \A i \in 1 .. Len(queue) :
           queue[i] \in Requests /\ queue[i].by \in Clients /\ queue[i].id \in Nat
      /\ Len(q) = Len(queue) + 1 /\ q[Len(queue) + 1] = r
      /\ \A i \in 1 .. Len(queue) : q[i] = queue[i]
  BY <1>1, QueueElements, EnqueueProperties DEF IndInv, Requests
<1> HIDE DEF q
<1>4. Handled' = Handled
  BY <1>2 DEF Handled, condvar_signal
<1>5. \A t : (HasData(t))' = HasData(t) /\ (Freed(t))' = Freed(t)
  BY <1>1, <1>2 DEF HasData, Freed, IndInv, TypeOK
<1>6. \A t \in mine[c] : owner[t].id < r.id
  BY <1>1 DEF InOrder
<1>7. Identities' /\ OwnEntry'
  BY <1>2, <1>4, <1>5 DEF Identities, OwnEntry
<1>8. InGetData'
  BY <1>1, <1>2, <1>5 DEF InGetData, IndInv, TypeOK
<1>9. HeapExact'
  BY <1>2, <1>4, <1>5 DEF HeapExact
<1>10. \A i \in 1 .. Len(queue) : queue[i].by = c => queue[i].id < r.id
  BY <1>3, <1>6 DEF IndInv, OnItsWay
<1>11. InOrder'
  <2>1. \A i, j \in 1 .. Len(queue') :
          i < j /\ queue'[i].by = queue'[j].by => queue'[i].id < queue'[j].id
    <3>1. CASE queue' = queue
      BY <3>1 DEF InOrder
    <3>2. CASE queue' = q
      <4> SUFFICES ASSUME NEW i \in 1 .. Len(q), NEW j \in 1 .. Len(q), i < j,
                          q[i].by = q[j].by
                   PROVE  q[i].id < q[j].id
        BY <3>2
      <4>1. i \in 1 .. Len(queue) /\ (j \in 1 .. Len(queue) \/ j = Len(queue) + 1)
        BY <1>3
      <4>. QED
        BY <1>1, <1>3, <1>10, <4>1 DEF InOrder
    <3>. QED
      BY <1>2, <3>1, <3>2
  <2>2. lpc' \in {"handle", "ready"} => \A i \in 1 .. Len(queue') :
          lreq'.by = queue'[i].by => lreq'.id < queue'[i].id
    <3> SUFFICES ASSUME lpc' \in {"handle", "ready"}
                 PROVE  \A i \in 1 .. Len(queue') :
                           lreq'.by = queue'[i].by => lreq'.id < queue'[i].id
      OBVIOUS
    <3>1. lpc \in {"handle", "ready"} /\ lreq' = lreq
      BY <1>2 DEF condvar_signal
    <3>2. lreq.by = c => lreq.id < r.id
      BY <1>6, <3>1 DEF IndInv, OnItsWay
    <3>3. \A i \in 1 .. Len(queue) : lreq.by = queue[i].by => lreq.id < queue[i].id
      BY <3>1 DEF InOrder
    <3>. QED
      BY <1>1, <1>2, <1>3, <3>1, <3>2, <3>3
  <2>3. \A d \in Clients : cpc'[d] = "enqueue" =>
          d # c /\ cpc[d] = "enqueue" /\ creq'[d] = creq[d] /\ mine'[d] = mine[d]
    BY <1>2 DEF IndInv, TypeOK
  <2>. QED
    BY <1>2, <2>1, <2>2, <2>3 DEF InOrder
<1>12. CompletionOrder'
  <2>1. \A t \in sigpending : owner[t].by = c => owner[t].id < r.id
    BY <1>6, NumbersInUse
  <2>. QED
    BY <1>1, <1>2, <1>3, <2>1 DEF CompletionOrder
<1>. QED
  BY <1>7, <1>8, <1>9, <1>11, <1>12

\* The loop takes the oldest request.
LEMMA DequeueData ==
  ASSUME IndInv, DataInv, LoopDequeue
  PROVE  DataInv'
<1> USE DEF DataInv
<1>1. /\ Head(queue) = queue[1] /\ 1 \in 1 .. Len(queue) /\ Len(queue) \in Nat
      /\ Len(Tail(queue)) = Len(queue) - 1
      /\ \A i \in 1 .. Len(Tail(queue)) : Tail(queue)[i] = queue[i + 1] /\ i + 1 \in 1 .. Len(queue)
  BY HeadTailProperties, QueueElements DEF LoopDequeue, IndInv
<1>2. /\ lpc = "check" /\ lpc' = "handle" /\ lreq' = queue[1] /\ queue' = Tail(queue)
      /\ UNCHANGED <<sigusing, sigpending, table, heap, cpc, csig, creq, mine, owner, issued, got, served>>
  BY <1>1 DEF LoopDequeue, sigvars, tabvars, callvars, ghosts
<1>3. Handled' = Handled
  BY <1>2 DEF Handled
<1>4. \A t : (HasData(t))' = HasData(t) /\ (Freed(t))' = Freed(t)
  BY <1>2 DEF HasData, Freed
<1>5. Identities' /\ OwnEntry' /\ InGetData' /\ HeapExact'
  BY <1>2, <1>3, <1>4 DEF Identities, OwnEntry, InGetData, HeapExact
<1>6. InOrder'
  <2>1. \A i \in 1 .. Len(queue') : queue'[i] = queue[i + 1] /\ i + 1 \in 1 .. Len(queue) /\ 1 < i + 1
    BY <1>1, <1>2
  <2>2. \A i, j \in 1 .. Len(queue') :
          i < j /\ queue'[i].by = queue'[j].by => queue'[i].id < queue'[j].id
    <3> SUFFICES ASSUME NEW i \in 1 .. Len(queue'), NEW j \in 1 .. Len(queue'), i < j,
                        queue'[i].by = queue'[j].by
                 PROVE  queue'[i].id < queue'[j].id
      OBVIOUS
    <3>1. i + 1 < j + 1
      BY <1>1, <1>2
    <3>. QED
      BY <2>1, <3>1 DEF InOrder
  <2>3. \A i \in 1 .. Len(queue') : lreq'.by = queue'[i].by => lreq'.id < queue'[i].id
    BY <1>1, <1>2, <2>1 DEF InOrder
  <2>. QED
    BY <1>2, <2>2, <2>3 DEF InOrder
<1>7. CompletionOrder'
  BY <1>1, <1>2 DEF CompletionOrder
<1>. QED
  BY <1>5, <1>6, <1>7

\* What a handler leaves: its own bytes, or an entry get_data copies nothing
\* from; and the only buffer of its request that holds bytes is one it hands
\* over.
LEMMA HandlerResult ==
  ASSUME NEW t \in Entries, NEW r \in Requests, r.id > 0, t.buf.id # r.id,
         NEW e \in handle_req(t, r)
  PROVE  /\ e.req = r.id /\ e.buf.id \in {t.buf.id, r.id, 0}
         /\ e.ret = "ok" /\ e.len > 0 => e.buf = Block(r.id, 1)
         /\ e.buf.id = r.id /\ e.buf.len > 0 => e.ret = "ok" /\ e.len > 0
<1>1. r.kind \in AllKinds /\ r.id \in Nat
  BY DEF Requests
<1>2. e \in {Failed(t, r), Done("ok", 1, Block(r.id, 1), r), Done("ok", 0, Block(r.id, 0), r),
             Done("ok", 0, NULL, r), Done("err", 0, NULL, r)}
  BY <1>1 DEF handle_req, ReadResults, WriteResults, ObjectResults, SpiResults, AllKinds
<1>3. CASE e = Failed(t, r)
  BY <1>3 DEF Failed, Entries
<1>4. CASE e = Done("ok", 1, Block(r.id, 1), r)
  BY <1>1, <1>4 DEF Done, Block
<1>5. CASE e = Done("ok", 0, Block(r.id, 0), r)
  BY <1>1, <1>5 DEF Done, Block
<1>6. CASE e = Done("ok", 0, NULL, r) \/ e = Done("err", 0, NULL, r)
  BY <1>1, <1>6 DEF Done, NULL
<1>. QED
  BY <1>2, <1>3, <1>4, <1>5, <1>6

LEMMA HandleData ==
  ASSUME IndInv, DataInv, LoopHandle
  PROVE  DataInv'
<1> USE DEF DataInv
<1>0. PICK s \in Signos : s = lreq.signo
  BY DEF LoopHandle, IndInv, OnItsWay, Requests
<1>1. /\ lpc = "handle" /\ lpc' = "ready" /\ lreq' = lreq
      /\ UNCHANGED <<sigusing, sigpending, queue, cpc, csig, creq, mine, owner, issued, got, served>>
  BY DEF LoopHandle, sigvars, callvars, ghosts
<1>2. /\ lreq \in Requests /\ s \in Signos /\ owner[s] = lreq
      /\ s \in sigusing /\ s \notin sigpending
  BY <1>0, <1>1 DEF IndInv, OnItsWay, OnePlace, InFlight, Serving, Requests
<1>3. PICK e \in handle_req(table[s], lreq) :
          /\ table' = [table EXCEPT ![s] = e]
          /\ heap' = heap \cup NewBlocks(e, lreq)
  BY <1>0 DEF LoopHandle
<1>4. Handled = sigpending /\ Handled' = sigpending \cup {s}
  BY <1>0, <1>1 DEF Handled
<1>5. lreq.id \in 1 .. issued /\ issued \in Nat /\ table[s].buf.id # lreq.id /\ table[s] \in Entries
  BY <1>2, <1>4 DEF Identities, OwnEntry, IndInv, TypeOK
<1>6. /\ e.req = lreq.id /\ e.buf.id \in {table[s].buf.id, lreq.id, 0}
      /\ e.ret = "ok" /\ e.len > 0 => e.buf = Block(lreq.id, 1)
      /\ e.buf.id = lreq.id /\ e.buf.len > 0 => e.ret = "ok" /\ e.len > 0
  BY <1>2, <1>5, HandlerResult
<1>7. /\ table'[s] = e
      /\ \A t \in Signos \ {s} : table'[t] = table[t]
      /\ sigpending \subseteq Signos \ {s} /\ sigusing \subseteq Signos
  BY <1>2, <1>3 DEF IndInv, TypeOK
<1>8. /\ (HasData(s))' = (e.ret = "ok" /\ e.len > 0)
      /\ \A t \in Signos \ {s} : (HasData(t))' = HasData(t)
      /\ \A t : (Freed(t))' = Freed(t)
  BY <1>1, <1>7 DEF HasData, Freed
<1>9. ~ Freed(s)
  BY <1>2, FetchesAlone DEF Freed, InFetch
<1>10. Identities' /\ InOrder' /\ CompletionOrder'
  BY <1>1 DEF Identities, InOrder, CompletionOrder
<1>11. OwnEntry'
  <2>1. \A t \in Signos : table'[t].buf.id \in 0 .. issued
    BY <1>5, <1>6, <1>7, <1>2 DEF OwnEntry
  <2>2. \A t \in Handled' : table'[t].req = owner'[t].id
    BY <1>1, <1>2, <1>4, <1>6, <1>7 DEF OwnEntry
  <2>3. \A t \in Handled' : (HasData(t))' => table'[t].buf = Block(owner'[t].id, 1)
    BY <1>1, <1>2, <1>4, <1>6, <1>7, <1>8 DEF OwnEntry
  <2>4. \A t \in sigusing' \ Handled' : table'[t].buf.id # owner'[t].id
    BY <1>1, <1>4, <1>7 DEF OwnEntry
  <2>. QED
    BY <1>1, <2>1, <2>2, <2>3, <2>4 DEF OwnEntry
<1>12. InGetData'
  <2>1. \A c \in Clients : cpc[c] \in InFetch => csig[c] \in Signos \ {s}
    BY <1>2, FetchesAlone
  <2>. QED
    BY <1>1, <1>8, <2>1 DEF InGetData, InFetch
<1>13. HeapExact'
  <2>1. ASSUME NEW t \in Handled', (HasData(t))', ~ (Freed(t))' PROVE table'[t].buf \in heap'
    <3>1. CASE t = s
      <4>1. e.ret = "ok" /\ e.len > 0
        BY <1>7, <2>1, <3>1 DEF HasData
      <4>2. e.buf = Block(lreq.id, 1) /\ e.buf.id = lreq.id
        BY <1>6, <4>1 DEF Block
      <4>. QED
        BY <1>3, <1>7, <3>1, <4>2 DEF NewBlocks
    <3>2. CASE t \in sigpending
      BY <1>3, <1>4, <1>7, <1>8, <2>1, <3>2 DEF HeapExact
    <3>. QED
      BY <1>4, <3>1, <3>2
  <2>2. ASSUME NEW b \in heap', b.len > 0
        PROVE  \E t \in Handled' : (HasData(t))' /\ ~ (Freed(t))' /\ table'[t].buf = b
    <3>1. CASE b \in heap
      BY <1>4, <1>7, <1>8, <2>2, <3>1 DEF HeapExact
    <3>2. CASE b \in NewBlocks(e, lreq)
      BY <1>4, <1>6, <1>7, <1>8, <1>9, <2>2, <3>2 DEF NewBlocks
    <3>. QED
      BY <1>3, <3>1, <3>2
  <2>. QED
    BY <2>1, <2>2 DEF HeapExact
<1>. QED
  BY <1>10, <1>11, <1>12, <1>13

LEMMA SetReadyData ==
  ASSUME IndInv, DataInv, LoopSetReady
  PROVE  DataInv'
<1> USE DEF DataInv
<1>1. /\ lpc = "ready" /\ lpc' = "check" /\ sigpending' = sigpending \cup {lreq.signo}
      /\ UNCHANGED <<sigusing, queue, table, heap, cpc, csig, creq, mine, owner, issued, got, served>>
  BY DEF LoopSetReady, set_ready_signal, tabvars, callvars, ghosts
<1>2. Handled' = Handled
  BY <1>1 DEF Handled
<1>3. \A t : (HasData(t))' = HasData(t) /\ (Freed(t))' = Freed(t)
  BY <1>1 DEF HasData, Freed
<1>4. Identities' /\ OwnEntry' /\ InGetData' /\ HeapExact' /\ InOrder'
  BY <1>1, <1>2, <1>3 DEF Identities, OwnEntry, InGetData, HeapExact, InOrder
<1>5. owner[lreq.signo] = lreq
  BY <1>1 DEF IndInv, OnItsWay
<1>6. CompletionOrder'
  BY <1>1, <1>5 DEF CompletionOrder, InOrder
<1>. QED
  BY <1>4, <1>6

\* get_data looks at the entry: it copies the bytes of its own request, or the
\* entry holds none.
LEMMA TableData ==
  ASSUME IndInv, DataInv, NEW c \in Clients, NEW n \in {0, 1}, GetDataTable(c, n)
  PROVE  DataInv'
<1> USE DEF DataInv
<1>1. PICK s \in Signos : s = csig[c] /\ s \in Handled /\ s \in sigusing
  BY FetchesAlone DEF GetDataTable, InFetch
<1> DEFINE e == table[s]
           v == Verdict(e, n)
<1>2. /\ cpc[c] = "table" /\ cpc' = [cpc EXCEPT ![c] = AfterVerdict(v)]
      /\ csig' = IF v = "short" THEN [csig EXCEPT ![c] = NoSig] ELSE csig
      /\ got' = [got EXCEPT ![c] = Source(e, v)]
      /\ UNCHANGED <<sigusing, sigpending, queue, table, heap, lpc, lreq, creq, mine, owner, issued, served>>
  BY <1>1 DEF GetDataTable, sigvars, tabvars, loopvars
<1>3. /\ e.len \in {0, 1} /\ e.ret \in {"ok", "err"} /\ e.req = owner[s].id /\ owner[s].id \in 1 .. issued /\ issued \in Nat
      /\ HasData(s) => e.buf = Block(owner[s].id, 1)
  BY <1>1 DEF OwnEntry, Identities, IndInv, TypeOK, Entries
<1>4. \/ v = "short" /\ AfterVerdict(v) = "idle"
      \/ v = "data" /\ AfterVerdict(v) = "free" /\ HasData(s) /\ Source(e, v) = owner[s].id
      \/ v # "short" /\ AfterVerdict(v) = "release" /\ ~ HasData(s) /\ Source(e, v) = owner[s].id
  <2>1. v \in {"error", "short", "nodata", "empty", "data"}
    BY DEF Verdict
  <2>2. CASE v = "short"
    BY <2>2 DEF AfterVerdict
  <2>3. CASE v = "data"
    <3>1. HasData(s)
      BY <1>3, <2>3 DEF Verdict, HasData
    <3>. QED
      BY <1>3, <2>3, <3>1 DEF AfterVerdict, Source, Block
  <2>4. CASE v = "error" \/ v = "empty"
    BY <1>3, <2>4 DEF Verdict, AfterVerdict, Source, HasData
  <2>5. CASE v = "nodata"
    <3>1. e.buf = NULL
      BY <2>5 DEF Verdict
    <3>2. ~ HasData(s)
      BY <1>3, <3>1 DEF NULL, Block
    <3>. QED
      BY <1>3, <2>5, <3>2 DEF AfterVerdict, Source
  <2>. QED
    BY <2>1, <2>2, <2>3, <2>4, <2>5
<1> HIDE DEF v
<1>5. /\ \A d \in Clients \ {c} : cpc'[d] = cpc[d] /\ csig'[d] = csig[d] /\ got'[d] = got[d]
      /\ cpc'[c] = AfterVerdict(v) /\ got'[c] = Source(e, v)
      /\ v # "short" => csig'[c] = s
  BY <1>1, <1>2 DEF IndInv, TypeOK
<1>6. Handled' = Handled
  BY <1>2 DEF Handled
<1>7. \A t : (HasData(t))' = HasData(t)
  BY <1>2 DEF HasData
<1>8. \A t : HasData(t) => ((Freed(t))' <=> Freed(t))
  BY <1>2, <1>4, <1>5 DEF Freed
<1>9. Identities' /\ OwnEntry' /\ CompletionOrder'
  BY <1>2, <1>6, <1>7 DEF Identities, OwnEntry, CompletionOrder
<1>10. InGetData'
  <2>1. \A d \in Clients \ {c} :
           /\ cpc'[d] \in {"free", "reset", "release"} => got'[d] = owner'[csig'[d]].id
           /\ cpc'[d] = "free" => (HasData(csig[d]))'
           /\ cpc'[d] = "release" => ~ (HasData(csig[d]))'
    BY <1>2, <1>5, <1>7 DEF InGetData
  <2>. QED
    BY <1>2, <1>4, <1>5, <1>7 DEF InGetData
<1>11. HeapExact'
  BY <1>2, <1>6, <1>7, <1>8 DEF HeapExact
<1>12. InOrder'
  BY <1>2, <1>4, <1>5 DEF InOrder
<1>. QED
  BY <1>9, <1>10, <1>11, <1>12

\* get_data frees the buffer it has copied: no other number points to it.
LEMMA FreeData ==
  ASSUME IndInv, DataInv, NEW c \in Clients, GetDataFree(c)
  PROVE  DataInv'
<1> USE DEF DataInv
<1>1. PICK s \in Signos : s = csig[c] /\ s \in Handled /\ s \in sigusing
  BY FetchesAlone DEF GetDataFree, InFetch
<1>2. /\ cpc[c] = "free" /\ cpc' = [cpc EXCEPT ![c] = "reset"] /\ heap' = heap \ {table[s].buf}
      /\ UNCHANGED <<sigusing, sigpending, queue, table, lpc, lreq, csig, creq, mine, owner, issued, got, served>>
  BY <1>1 DEF GetDataFree, sigvars, loopvars, ghosts
<1>3. /\ \A d \in Clients \ {c} : cpc'[d] = cpc[d]
      /\ cpc'[c] = "reset"
  BY <1>2 DEF IndInv, TypeOK
<1>4. Handled' = Handled /\ Handled \subseteq sigusing
  BY <1>2, NumbersInUse DEF Handled
<1>5. HasData(s) /\ \A t : (HasData(t))' = HasData(t)
  BY <1>1, <1>2 DEF HasData, InGetData
<1>6. (Freed(s))' /\ \A t : t # s => ((Freed(t))' <=> Freed(t))
  BY <1>1, <1>2, <1>3 DEF Freed
<1>7. ~ Freed(s)
  BY <1>1, <1>2, FetchesAlone DEF Freed, InFetch
<1>8. Identities' /\ OwnEntry' /\ CompletionOrder'
  BY <1>2, <1>4, <1>5 DEF Identities, OwnEntry, CompletionOrder
<1>9. InGetData'
  BY <1>2, <1>3, <1>5 DEF InGetData
<1>10. \A t \in Handled : HasData(t) /\ t # s => table[t].buf # table[s].buf
  <2>1. ASSUME NEW t \in Handled, HasData(t) PROVE table[t].buf.id = owner[t].id
    <3>1. table[t].buf = Block(owner[t].id, 1)
      BY <2>1 DEF OwnEntry
    <3>. QED
      BY <3>1 DEF Block
  <2>. QED
    BY <1>1, <1>4, <1>5, <2>1 DEF Identities
<1>11. HeapExact'
  BY <1>2, <1>4, <1>5, <1>6, <1>7, <1>10 DEF HeapExact
<1>12. InOrder'
  BY <1>2, <1>3 DEF InOrder
<1>. QED
  BY <1>8, <1>9, <1>11, <1>12

\* get_data resets the entry, which keeps the freed pointer.
LEMMA ResetData ==
  ASSUME IndInv, DataInv, NEW c \in Clients, GetDataReset(c)
  PROVE  DataInv'
<1> USE DEF DataInv
<1>1. PICK s \in Signos : s = csig[c] /\ s \in Handled /\ s \in sigusing
  BY FetchesAlone DEF GetDataReset, InFetch
<1>2. /\ cpc[c] = "reset" /\ cpc' = [cpc EXCEPT ![c] = "release"]
      /\ table' = [table EXCEPT ![s].len = 0, ![s].ret = "ok"]
      /\ UNCHANGED <<sigusing, sigpending, queue, heap, lpc, lreq, csig, creq, mine, owner, issued, got, served>>
  BY <1>1 DEF GetDataReset, sigvars, loopvars, ghosts
<1>3. /\ \A d \in Clients \ {c} : cpc'[d] = cpc[d]
      /\ cpc'[c] = "release"
  BY <1>2 DEF IndInv, TypeOK
<1>4. /\ \A t \in Signos : table'[t].buf = table[t].buf /\ table'[t].req = table[t].req
      /\ \A t \in Signos \ {s} : table'[t] = table[t]
      /\ table'[s].len = 0
  BY <1>2 DEF IndInv, TypeOK, Entries
<1>5. Handled' = Handled /\ Handled \subseteq Signos /\ sigusing \subseteq Signos
  BY <1>2, NumbersInUse DEF Handled
<1>6. ~ (HasData(s))' /\ \A t \in Signos \ {s} : (HasData(t))' = HasData(t)
  BY <1>4 DEF HasData
<1>7. Freed(s) /\ \A t : (Freed(t))' <=> Freed(t)
  BY <1>1, <1>2, <1>3 DEF Freed
<1>8. Identities' /\ CompletionOrder'
  BY <1>2 DEF Identities, CompletionOrder
<1>9. OwnEntry'
  <2>1. \A t \in Handled' : (HasData(t))' => table'[t].buf = Block(owner'[t].id, 1)
    BY <1>2, <1>4, <1>5, <1>6 DEF OwnEntry
  <2>. QED
    BY <1>2, <1>4, <1>5, <2>1 DEF OwnEntry
<1>10. InGetData'
  <2>1. \A d \in Clients \ {c} : cpc[d] \in InFetch => csig[d] \in Signos \ {s}
    BY <1>1, <1>2, FetchesAlone DEF InFetch
  <2>2. ASSUME NEW d \in Clients \ {c}
        PROVE  /\ cpc'[d] \in {"free", "reset", "release"} => got'[d] = owner'[csig'[d]].id
               /\ cpc'[d] = "free" => (HasData(csig[d]))'
               /\ cpc'[d] = "release" => ~ (HasData(csig[d]))'
    <3>1. cpc'[d] = cpc[d] /\ got'[d] = got[d] /\ csig'[d] = csig[d] /\ owner' = owner
      BY <1>2, <1>3
    <3>2. cpc[d] \in InFetch => table'[csig'[d]] = table[csig[d]]
      BY <1>4, <2>1, <3>1
    <3>. QED
      BY <3>1, <3>2 DEF InGetData, InFetch, HasData
  <2>3. got'[c] = owner'[csig'[c]].id /\ ~ (HasData(csig[c]))'
    BY <1>1, <1>2, <1>4 DEF InGetData, HasData
  <2>. QED
    BY <1>2, <1>3, <2>2, <2>3 DEF InGetData
<1>11. HeapExact'
  <2>1. ASSUME NEW t \in Handled', (HasData(t))', ~ (Freed(t))' PROVE table'[t].buf \in heap'
    <3>1. t # s
      BY <1>4, <2>1 DEF HasData
    <3>2. t \in Handled /\ t \in Signos \ {s} /\ ~ Freed(t)
      BY <1>5, <1>7, <2>1, <3>1
    <3>3. HasData(t)
      BY <1>4, <2>1, <3>2 DEF HasData
    <3>4. table[t].buf \in heap
      BY <3>2, <3>3 DEF HeapExact
    <3>5. heap' = heap /\ table'[t] = table[t]
      BY <1>2, <1>4, <3>2
    <3>. QED
      BY <3>4, <3>5
  <2>2. ASSUME NEW b \in heap', b.len > 0
        PROVE  \E t \in Handled' : (HasData(t))' /\ ~ (Freed(t))' /\ table'[t].buf = b
    <3>1. PICK t \in Handled : HasData(t) /\ ~ Freed(t) /\ table[t].buf = b
      BY <1>2, <2>2 DEF HeapExact
    <3>2. t \in Signos \ {s}
      BY <1>5, <1>7, <3>1
    <3>. QED
      BY <1>4, <1>5, <1>6, <1>7, <3>1, <3>2
  <2>. QED
    BY <2>1, <2>2 DEF HeapExact
<1>12. InOrder'
  BY <1>2, <1>3 DEF InOrder
<1>. QED
  BY <1>8, <1>9, <1>10, <1>11, <1>12

\* release_signo: the number's buffer is gone, and its request is served.
LEMMA ReleaseData ==
  ASSUME IndInv, DataInv, NEW c \in Clients, ReleaseSigno(c)
  PROVE  DataInv'
<1> USE DEF DataInv
<1>1. PICK s \in Signos : s = csig[c] /\ s \in Handled /\ s \in sigusing /\ s \in sigpending
  BY FetchesAlone DEF ReleaseSigno, InFetch
<1>2. /\ cpc[c] = "release" /\ cpc' = [cpc EXCEPT ![c] = "idle"]
      /\ csig' = [csig EXCEPT ![c] = NoSig] /\ got' = [got EXCEPT ![c] = 0]
      /\ sigpending' = sigpending \ {s} /\ sigusing' = sigusing \ {s}
      /\ mine' = [mine EXCEPT ![c] = @ \ {s}]
      /\ served' = served \cup {[req |-> owner[s].id, from |-> got[c]]}
      /\ UNCHANGED <<queue, table, heap, lpc, lreq, creq, owner, issued>>
  BY <1>1 DEF ReleaseSigno, pending_released, tabvars, loopvars
<1>3. /\ \A d \in Clients \ {c} : cpc'[d] = cpc[d] /\ csig'[d] = csig[d] /\ got'[d] = got[d]
      /\ cpc'[c] = "idle" /\ \A d \in Clients : mine'[d] \subseteq mine[d]
  BY <1>2 DEF IndInv, TypeOK
<1>4. Handled' = Handled \ {s}
  <2>1. lpc = "ready" => lreq.signo # s
    BY <1>1 DEF IndInv, OnePlace, InFlight, Serving
  <2>. QED
    BY <1>2, <2>1 DEF Handled
<1>5. Freed(s) /\ \A t : t # s => ((Freed(t))' <=> Freed(t))
  BY <1>1, <1>2, <1>3 DEF Freed
<1>6. \A t : (HasData(t))' = HasData(t)
  BY <1>2 DEF HasData
<1>7. Identities'
  <2>1. \A d \in served' : d.req \in 1 .. issued /\ \A t \in sigusing' : d.req # owner[t].id
    BY <1>1, <1>2 DEF Identities
  <2>. QED
    BY <1>2, <2>1 DEF Identities
<1>8. OwnEntry' /\ CompletionOrder'
  BY <1>2, <1>4, <1>6 DEF OwnEntry, CompletionOrder
<1>9. InGetData'
  BY <1>2, <1>3, <1>6 DEF InGetData
<1>10. HeapExact'
  BY <1>2, <1>4, <1>5, <1>6 DEF HeapExact
<1>11. InOrder'
  BY <1>2, <1>3 DEF InOrder
<1>. QED
  BY <1>7, <1>8, <1>9, <1>10, <1>11

LEMMA NextDataInv == ExclusiveFetch /\ IndInv /\ DataInv /\ [Next]_vars => DataInv'
<1> SUFFICES ASSUME ExclusiveFetch, IndInv, DataInv, [Next]_vars PROVE DataInv'
  OBVIOUS
<1>1. CASE LoopStep
  <2>1. CASE LoopWait
    <3>1. Handled' = Handled
      BY <2>1 DEF LoopWait, Handled, sigvars
    <3>. QED
      BY <2>1, <3>1, QuietStep DEF LoopWait, sigvars, tabvars, callvars, ghosts
  <2>. QED
    BY <1>1, <2>1, DequeueData, HandleData, SetReadyData DEF LoopStep
<1>2. ASSUME NEW c \in Clients,
             \/ PollReady(c) \/ PollNothingReady(c) \/ PollReqNum(c) \/ PollSubsignalReady(c)
             \/ (\E s \in mine[c] : PollSubsignal(c, s)) \/ (\E s \in Fetchable(c) : GetData(c, s))
      PROVE  DataInv'
  <2>1. /\ UNCHANGED <<sigusing, sigpending, queue, table, heap, lpc, lreq, creq, mine, owner, issued, got, served>>
        /\ cpc[c] \in {"idle", "pollnum", "pollsub"}
        /\ \E l \in {"idle", "pollnum", "pollsub", "table"} : cpc' = [cpc EXCEPT ![c] = l]
        /\ csig' = csig \/ \E s : csig' = [csig EXCEPT ![c] = s]
    <3> USE DEF sigvars, tabvars, loopvars, callvars, ghosts
    <3>1. CASE PollReady(c)
      <4>1. cpc' = [cpc EXCEPT ![c] = "idle"]
        BY <3>1 DEF PollReady, IndInv, TypeOK
      <4>. QED
        BY <3>1, <4>1 DEF PollReady, bits_after_poll
    <3>2. CASE PollNothingReady(c)
      BY <3>2 DEF PollNothingReady
    <3>3. CASE PollReqNum(c)
      BY <3>3 DEF PollReqNum
    <3>4. CASE PollSubsignalReady(c)
      BY <3>4 DEF PollSubsignalReady
    <3>5. CASE \E s \in mine[c] : PollSubsignal(c, s)
      BY <3>5 DEF PollSubsignal
    <3>6. CASE \E s \in Fetchable(c) : GetData(c, s)
      BY <3>6 DEF GetData
    <3>. QED
      BY <1>2, <3>1, <3>2, <3>3, <3>4, <3>5, <3>6
  <2>2. \A d \in Clients : cpc'[d] = "enqueue" => cpc[d] = "enqueue"
    BY <2>1 DEF IndInv, TypeOK
  <2>3. \A d \in Clients :
          cpc'[d] \in {"free", "reset", "release"} \/ cpc[d] \in {"free", "reset", "release"}
             => cpc'[d] = cpc[d] /\ csig'[d] = csig[d]
    BY <2>1 DEF IndInv, TypeOK
  <2>4. Handled' = Handled
    BY <2>1 DEF Handled
  <2>. QED
    BY <2>1, <2>2, <2>3, <2>4, QuietStep
<1>3. ASSUME NEW c \in Clients, InCall(c) PROVE DataInv'
  BY <1>2, <1>3, EnqueueData, TableData, FreeData, ResetData, ReleaseData DEF InCall
<1>4. ASSUME NEW c \in Clients, Invoke(c) PROVE DataInv'
  BY <1>2, <1>4, AllocateData DEF Invoke
<1>5. CASE UNCHANGED vars
  <2>1. Handled' = Handled
    BY <1>5 DEF vars, sigvars, loopvars, Handled
  <2>. QED
    BY <1>5, <2>1, QuietStep DEF vars, sigvars, tabvars, loopvars, callvars, ghosts
<1>. QED
  BY <1>1, <1>3, <1>4, <1>5 DEF Next

-----------------------------------------------------------------------------
(* The theorems. Each is about the behaviours in which a client takes only the *)
(* results of its own requests.                                                *)

\* Both invariants hold throughout.
THEOREM DataInductive ==
  ASSUME ExclusiveFetch
  PROVE  SafeSpec => [](IndInv /\ DataInv)
<1>1. IndInv /\ DataInv /\ [Next]_vars => IndInv' /\ DataInv'
  BY NextIndInv, NextDataInv
<1>. QED
  BY InitIndInv, InitDataInv, <1>1, PTL DEF SafeSpec

\* get_data never frees a buffer twice, nor one that another thread has freed.
THEOREM FreesLiveCorrect ==
  ASSUME ExclusiveFetch
  PROVE  SafeSpec => []FreesLiveBuffer
<1>1. IndInv /\ DataInv => FreesLiveBuffer
  <2> SUFFICES ASSUME IndInv, DataInv, NEW c \in Clients, cpc[c] = "free"
               PROVE  table[csig[c]].buf \in heap
    BY DEF FreesLiveBuffer
  <2>1. /\ csig[c] \in Handled
        /\ \A d \in Clients : cpc[d] \in InFetch /\ csig[d] = csig[c] => d = c
    BY FetchesAlone DEF InFetch
  <2>2. ~ Freed(csig[c])
    BY <2>1 DEF Freed, InFetch
  <2>. QED
    BY <2>1, <2>2 DEF DataInv, InGetData, HeapExact
<1>. QED
  BY DataInductive, <1>1, PTL

\* A result with bytes stays reachable until get_data frees it.
THEOREM NotLeakedCorrect ==
  ASSUME ExclusiveFetch
  PROVE  SafeSpec => []DataNotLeaked
<1>1. IndInv /\ DataInv => DataNotLeaked
  BY NumbersInUse DEF DataInv, HeapExact, DataNotLeaked
<1>. QED
  BY DataInductive, <1>1, PTL

\* A peripheral finishes the requests of one client in the order it got them.
THEOREM OrderCorrect ==
  ASSUME ExclusiveFetch
  PROVE  SafeSpec => []CompletionOrder
<1>1. IndInv /\ DataInv => CompletionOrder
  BY DEF DataInv
<1>. QED
  BY DataInductive, <1>1, PTL

\* poll never tells a client with an outstanding request that there is none.
THEOREM PollIdleCorrect ==
  ASSUME ExclusiveFetch
  PROVE  SafeSpec => PollIdleIsTrue
<1>1. IndInv => [\A c \in Clients : PollReqNum(c) /\ PollSaysIdle => mine[c] = {}]_vars
  <2> SUFFICES ASSUME IndInv, NEW c \in Clients, req_nums = 0 PROVE mine[c] = {}
    BY DEF PollSaysIdle
  <2>1. sigusing = {}
    BY BitmapFinite, FS_EmptySet DEF IndInv, UsingCounted, TypeOK
  <2>. QED
    BY <2>1 DEF IndInv, Ownership
<1>. QED
  BY Inductive, <1>1, PTL DEF PollIdleIsTrue

-----------------------------------------------------------------------------
(* The refinement of AsyncIo *)

\* The steps that change neither the numbers' bits nor their owners are
\* invisible to the clients.
LEMMA Invisible ==
  ASSUME UNCHANGED <<sigusing, sigpending, owner, issued, served>>
  PROVE  UNCHANGED Abs!avars
  BY DEF Abs!avars, PhaseOf

LEMMA AllocateRefines ==
  ASSUME IndInv, NEW c \in Clients, NEW k \in Kinds, AllocateSigno(c, k)
  PROVE  Abs!Next
<1>1. PICK s \in Signos : s = lowest_free /\ s \notin sigusing /\ s \notin sigpending
  <2>1. Signos \ sigusing # {} /\ Signos \ sigusing \in SUBSET Signos
    BY DEF AllocateSigno, IndInv, TypeOK
  <2>. QED
    BY <2>1, LowestInSet DEF lowest_free, IndInv, OnePlace
<1>2. PICK n : n = issued + 1
  OBVIOUS
<1>2a. PICK r : r = Request(n, s, k, c)
  OBVIOUS
<1>2b. /\ sigusing' = sigusing \cup {s} /\ sigpending' = sigpending /\ issued' = n
       /\ owner' = [owner EXCEPT ![s] = r] /\ served' = served /\ r.id = n
  BY <1>1, <1>2, <1>2a DEF AllocateSigno, Request
<1>3. \A t \in Signos : PhaseOf(t)' = IF t = s THEN "inflight" ELSE PhaseOf(t)
  BY <1>1, <1>2b DEF PhaseOf
<1>4. \A t \in Signos : owner'[t].id = IF t = s THEN issued + 1 ELSE owner[t].id
  BY <1>1, <1>2, <1>2b DEF IndInv, TypeOK
<1>5. PhaseOf(s) = "free"
  BY <1>1 DEF PhaseOf
<1>6. Abs!Accept(s)
  BY <1>1, <1>2, <1>2b, <1>3, <1>4, <1>5 DEF Abs!Accept
<1>. QED
  BY <1>1, <1>6 DEF Abs!Next

LEMMA SetReadyRefines ==
  ASSUME IndInv, LoopSetReady
  PROVE  Abs!Next
<1>1. PICK s \in Signos : s = lreq.signo /\ s \in sigusing /\ s \notin sigpending
  BY DEF LoopSetReady, IndInv, OnItsWay, OnePlace, InFlight, Serving, Requests
<1>2. sigpending' = sigpending \cup {s} /\ UNCHANGED <<sigusing, owner, issued, served>>
  BY <1>1 DEF LoopSetReady, set_ready_signal, ghosts
<1>3. \A t \in Signos : PhaseOf(t)' = IF t = s THEN "ready" ELSE PhaseOf(t)
  BY <1>1, <1>2 DEF PhaseOf
<1>4. PhaseOf(s) = "inflight"
  BY <1>1 DEF PhaseOf
<1>5. Abs!Complete(s)
  BY <1>2, <1>3, <1>4 DEF Abs!Complete
<1>. QED
  BY <1>5 DEF Abs!Next

LEMMA ReleaseRefines ==
  ASSUME IndInv, DataInv, NEW c \in Clients, ReleaseSigno(c)
  PROVE  Abs!Next
<1>1. PICK s \in Signos : s = csig[c] /\ s \in sigusing /\ s \in sigpending
  BY FetchesAlone DEF ReleaseSigno, InFetch
<1>2. /\ sigpending' = sigpending \ {s} /\ sigusing' = sigusing \ {s}
      /\ served' = served \cup {[req |-> owner[s].id, from |-> owner[s].id]}
      /\ UNCHANGED <<owner, issued>>
  <2>1. got[c] = owner[s].id
    BY <1>1 DEF ReleaseSigno, DataInv, InGetData
  <2>. QED
    BY <1>1, <2>1 DEF ReleaseSigno, pending_released
<1>3. \A d \in served : d.req # owner[s].id
  BY <1>1 DEF DataInv, Identities
<1>4. \A t \in Signos : PhaseOf(t)' = IF t = s THEN "free" ELSE PhaseOf(t)
  BY <1>1, <1>2 DEF PhaseOf
<1>5. PhaseOf(s) = "ready"
  BY <1>1 DEF PhaseOf
<1>6. Abs!Deliver(s)
  BY <1>2, <1>3, <1>4, <1>5 DEF Abs!Deliver
<1>. QED
  BY <1>6 DEF Abs!Next

\* The peripheral implements AsyncIo: a request is accepted on a free number,
\* completes once, and its own result is handed out once.
THEOREM RefinesAsyncIo ==
  ASSUME ExclusiveFetch
  PROVE  SafeSpec => ImplementsAsyncIo
<1>1. Init => Abs!Init
  BY DEF Init, Abs!Init, PhaseOf, NoRequest
<1>2. IndInv /\ DataInv /\ [Next]_vars => [Abs!Next]_(Abs!avars)
  <2> SUFFICES ASSUME IndInv, DataInv, [Next]_vars PROVE Abs!Next \/ UNCHANGED Abs!avars
    OBVIOUS
  <2> USE DEF sigvars, loopvars, tabvars, callvars, ghosts
  <2>1. CASE LoopStep
    BY <2>1, SetReadyRefines, Invisible DEF LoopStep, LoopWait, LoopDequeue, LoopHandle
  <2>2. ASSUME NEW c \in Clients, InCall(c) PROVE Abs!Next \/ UNCHANGED Abs!avars
    BY <2>2, ReleaseRefines, Invisible
       DEF InCall, Enqueue, PollReqNum, PollSubsignalReady, GetDataTable, GetDataFree, GetDataReset
  <2>3. ASSUME NEW c \in Clients, Invoke(c) PROVE Abs!Next \/ UNCHANGED Abs!avars
    BY <2>3, AllocateRefines, Invisible
       DEF Invoke, PollReady, PollNothingReady, PollSubsignal, GetData, bits_after_poll
  <2>4. CASE UNCHANGED vars
    BY <2>4, Invisible DEF vars
  <2>. QED
    BY <2>1, <2>2, <2>3, <2>4 DEF Next
<1>. QED
  BY <1>1, <1>2, DataInductive, PTL DEF SafeSpec, ImplementsAsyncIo, Abs!SafeSpec

-----------------------------------------------------------------------------
(* Without failing allocations no request is lost *)

LEMMA NextNoneLost ==
  ASSUME MallocFails = FALSE, IndInv, NoneLost, [Next]_vars
  PROVE  NoneLost'
<1> USE DEF NoneLost, InFlight, sigvars, loopvars, tabvars, callvars, ghosts
<1>1. ASSUME NEW c \in Clients, NEW k \in Kinds, AllocateSigno(c, k) PROVE NoneLost'
  <2>1. lowest_free \in Submitting' /\ Submitting \subseteq Submitting'
    <3>1. Request(issued + 1, lowest_free, k, c).signo = lowest_free
      BY DEF Request
    <3>. QED
      BY <1>1, <3>1 DEF AllocateSigno, Submitting, IndInv, TypeOK
  <2>2. Queued' = Queued /\ Serving' = Serving
    BY <1>1 DEF AllocateSigno, Queued, Serving
  <2>. QED
    BY <1>1, <2>1, <2>2 DEF AllocateSigno
<1>2. ASSUME NEW c \in Clients, Enqueue(c) PROVE NoneLost'
  <2>1. creq[c] \in Requests
    BY <1>2 DEF Enqueue, IndInv, OnItsWay
  <2>2. queue' = enqueue(queue, creq[c])
    BY <1>2 DEF Enqueue
  <2>3. Queued' = Queued \cup {creq[c].signo}
    <3>1. queue \in Seq(Requests) /\ Len(queue) \in Nat
      BY QueueElements DEF IndInv
    <3>2. /\ Len(queue') = Len(queue) + 1 /\ queue'[Len(queue) + 1] = creq[c]
          /\ \A i \in 1 .. Len(queue) : queue'[i] = queue[i]
      BY <2>1, <2>2, <3>1, EnqueueProperties
    <3>. QED
      BY <3>1, <3>2 DEF Queued
  <2>4. Submitting \subseteq Submitting' \cup {creq[c].signo}
    BY <1>2 DEF Enqueue, Submitting, IndInv, TypeOK
  <2>5. Serving' = Serving
    BY <1>2 DEF Enqueue, Serving, condvar_signal
  <2>. QED
    BY <1>2, <2>3, <2>4, <2>5 DEF Enqueue
<1>3. CASE LoopDequeue
  <2>1. /\ Head(queue) = queue[1] /\ Len(queue) \in Nat /\ Len(Tail(queue)) = Len(queue) - 1
        /\ \A i \in 1 .. Len(Tail(queue)) : Tail(queue)[i] = queue[i + 1]
    BY <1>3, HeadTailProperties, QueueElements DEF LoopDequeue, IndInv
  <2>2. \A i \in 1 .. Len(queue) : i = 1 \/ (i - 1 \in 1 .. Len(Tail(queue)) /\ Tail(queue)[i - 1] = queue[i])
    BY <2>1
  <2>3. Queued \subseteq Queued' \cup Serving'
    <3>1. queue' = Tail(queue) /\ Serving' = {Head(queue).signo}
      BY <1>3 DEF LoopDequeue, Serving
    <3>2. SUFFICES ASSUME NEW i \in 1 .. Len(queue)
                   PROVE  queue[i].signo \in Queued' \cup Serving'
      BY DEF Queued
    <3>3. CASE i = 1
      BY <2>1, <3>1, <3>3
    <3>4. CASE i # 1
      <4>1. i - 1 \in 1 .. Len(queue') /\ queue'[i - 1] = queue[i]
        BY <2>2, <3>1, <3>4
      <4>. QED
        BY <4>1 DEF Queued
    <3>. QED
      BY <3>3, <3>4
  <2>4. Submitting' = Submitting /\ Serving = {}
    BY <1>3 DEF LoopDequeue, Submitting, Serving
  <2>. QED
    BY <1>3, <2>3, <2>4 DEF LoopDequeue
<1>4. CASE LoopWait \/ LoopHandle
  BY <1>4 DEF LoopWait, LoopHandle, Submitting, Queued, Serving
<1>5. CASE LoopSetReady
  BY <1>5 DEF LoopSetReady, set_ready_signal, Submitting, Queued, Serving
<1>6. ASSUME NEW c \in Clients, ReleaseSigno(c) PROVE NoneLost'
  <2>1. Submitting' = Submitting /\ Queued' = Queued /\ Serving' = Serving
    BY <1>6 DEF ReleaseSigno, Submitting, Queued, Serving, IndInv, TypeOK
  <2>. QED
    BY <1>6, <2>1 DEF ReleaseSigno, pending_released
<1>7. ASSUME NEW c \in Clients,
             \/ PollReady(c) \/ PollNothingReady(c) \/ PollReqNum(c) \/ PollSubsignalReady(c)
             \/ (\E s \in mine[c] : PollSubsignal(c, s)) \/ (\E s \in Fetchable(c) : GetData(c, s))
             \/ (\E n \in {0, 1} : GetDataTable(c, n)) \/ GetDataFree(c) \/ GetDataReset(c)
      PROVE  NoneLost'
  <2> DEFINE Goal == /\ UNCHANGED <<sigusing, sigpending, queue, lpc, lreq, creq>>
                     /\ cpc[c] # "enqueue" /\ (cpc' = cpc \/ \E l : cpc' = [cpc EXCEPT ![c] = l])
  <2>a. ASSUME PollReady(c) \/ PollNothingReady(c) PROVE Goal
    BY <2>a DEF PollReady, PollNothingReady, bits_after_poll
  <2>b. ASSUME PollReqNum(c) \/ PollSubsignalReady(c) PROVE Goal
    BY <2>b DEF PollReqNum, PollSubsignalReady
  <2>c. ASSUME \E s \in mine[c] : PollSubsignal(c, s) PROVE Goal
    BY <2>c DEF PollSubsignal
  <2>d. ASSUME \E s \in Fetchable(c) : GetData(c, s) PROVE Goal
    BY <2>d DEF GetData
  <2>e. ASSUME \E n \in {0, 1} : GetDataTable(c, n) PROVE Goal
    BY <2>e DEF GetDataTable
  <2>f. ASSUME GetDataFree(c) \/ GetDataReset(c) PROVE Goal
    BY <2>f DEF GetDataFree, GetDataReset
  <2>1. Goal
    BY <1>7, <2>a, <2>b, <2>c, <2>d, <2>e, <2>f
  <2>2. Submitting \subseteq Submitting' /\ Queued' = Queued /\ Serving' = Serving
    BY <2>1 DEF Submitting, Queued, Serving, IndInv, TypeOK
  <2>. QED
    BY <2>1, <2>2
<1>8. CASE UNCHANGED vars
  BY <1>8 DEF vars, Submitting, Queued, Serving
<1>. QED
  BY <1>1, <1>2, <1>3, <1>4, <1>5, <1>6, <1>7, <1>8 DEF Next, LoopStep, InCall, Invoke

\* If no allocation fails, poll says "still processing" only while a request is
\* on its way or has just become ready.
THEOREM PollBusyCorrect ==
  ASSUME ExclusiveFetch, MallocFails = FALSE
  PROVE  SafeSpec => PollBusyIsTrue
<1>1. Init => NoneLost
  BY DEF Init, NoneLost
<1>2. IndInv /\ NoneLost /\ [Next]_vars => NoneLost'
  BY NextNoneLost
<1>3. IndInv /\ NoneLost =>
        [\A c \in Clients : PollReqNum(c) /\ PollSaysBusy => InFlight \cup sigpending # {}]_vars
  <2> SUFFICES ASSUME IndInv, NoneLost, req_nums > 0 PROVE InFlight \cup sigpending # {}
    BY DEF PollSaysBusy
  <2>1. sigusing # {}
    BY FS_EmptySet DEF IndInv, UsingCounted
  <2>. QED
    BY <2>1 DEF NoneLost
<1>. QED
  BY Inductive, <1>1, <1>2, <1>3, PTL DEF SafeSpec, PollBusyIsTrue

=============================================================================
