--------------------------- MODULE QueueSyncProofs ---------------------------
(***************************************************************************)
(* The queue mutex keeps its promises for any number of requesters and     *)
(* requests, when one loop serves the peripheral and the requests come     *)
(* after its start: mutual exclusion, no panic, no lost signal.            *)
(***************************************************************************)
EXTENDS QueueSync, SequenceTheorems, WellFoundedInduction, TLAPS

\* One thread is in START_LOOP for the peripheral and has passed mutex_init and
\* condvar_init before the first request arrives. (With a second start_loop, or
\* an earlier request, the initialisation may hit a mutex that is in use: the
\* run queue_sync_start.)
StartedOnce == StartFirst = TRUE /\ \E l : Loops = {l}

-----------------------------------------------------------------------------
(* The inductive invariant. *)

RequesterPc == {"out", "lock", "wait", "enqueue", "signal", "unlock", "wake"}
LoopPc == {"minit", "cvinit", "lock", "wait", "test", "unlock", "wake",
           "cvlink", "cvsleep", "cvwake"}

TypeOK ==
    /\ mstate \in {-1, 0} /\ cvlinked \in BOOLEAN /\ nqueued \in Nat
    /\ wq \in Seq(Threads)
    /\ wqe \in [Threads -> [cv : BOOLEAN, done : BOOLEAN]]
    /\ pc \in [Threads -> RequesterPc \cup LoopPc]
    /\ \A t \in Requesters : pc[t] \in RequesterPc
    /\ \A t \in Loops : pc[t] \in LoopPc
    /\ left \in [Requesters -> Nat]

Waiting == {t \in Threads : pc[t] \in {"wait", "cvwake"}}

\* The wait queue holds exactly the threads that wait, each of them once.
WaitersQueued ==
    /\ \A i \in 1 .. Len(wq) : wq[i] \in Waiting
    /\ \A t \in Waiting : \E i \in 1 .. Len(wq) : wq[i] = t
    /\ \A i, j \in 1 .. Len(wq) : wq[i] = wq[j] => i = j

\* Only the loop waits for the condition variable; while it does it is not
\* marked done, and condvar_signal finds it through the mutex.
Sleepers ==
    \A t \in Threads : wqe[t].cv =>
        t \in Loops /\ t \in Waiting /\ ~ wqe[t].done /\ cvlinked

\* Until the loop has set up the mutex and the condvar it is the only thread
\* there; a thread that is about to sleep has seen an empty queue.
LoopPlaces ==
    \A l \in Loops :
        /\ pc[l] \in {"minit", "cvinit"} => \A t \in Requesters : pc[t] = "out"
        /\ pc[l] \in {"cvlink", "cvsleep"} => nqueued = 0
        /\ pc[l] = "cvsleep" => cvlinked

IndInv == TypeOK /\ NoPanic /\ MutualExclusion /\ WaitersQueued /\ Sleepers /\ LoopPlaces
          /\ SomeoneComes

\* A thread that waits for the mutex is not forgotten: while one does and has
\* not been marked, the mutex is locked, or somebody is about to wake the next
\* waiter, to try for the mutex, or has been marked and will.
NobodyForgotten ==
    (\E t \in Waiting : IsActive(wqe[t])) =>
        \/ mstate = -1
        \/ \E u \in Threads : pc[u] \in {"lock", "wake", "cvwake"}
        \/ \E u \in Waiting : wqe[u].done

-----------------------------------------------------------------------------
(* The wait queue as a sequence. *)

\* SLIST_REMOVE of an element that is there once takes it out and leaves the
\* others in their order.
LEMMA RemoveFirstProperties ==
  ASSUME NEW S, NEW q \in Seq(S), NEW k \in 1 .. Len(q),
         \A i, j \in 1 .. Len(q) : q[i] = q[j] => i = j
  PROVE  /\ RemoveFirst(q, q[k]) \in Seq(S)
         /\ Len(RemoveFirst(q, q[k])) = Len(q) - 1
         /\ \A i \in 1 .. Len(q) - 1 :
              RemoveFirst(q, q[k])[i] = IF i < k THEN q[i] ELSE q[i + 1]
<1>1. SelectInSeq(q, LAMBDA v : v = q[k]) = k
  <2>1. {i \in 1 .. Len(q) : q[i] = q[k]} = {k}
    OBVIOUS
  <2>2. Min({k}) = k
    <3>1. k \in Int
      OBVIOUS
    <3>. QED
      BY <3>1 DEF Min
  <2>. QED
    BY <2>1, <2>2 DEF SelectInSeq
<1>2. RemoveFirst(q, q[k]) = RemoveAt(q, k)
  BY <1>1 DEF RemoveFirst
<1>3. Len(q) \in Nat /\ \A i \in 1 .. Len(q) : q[i] \in S
  BY LenProperties, ElementOfSeq
<1> DEFINE a == SubSeq(q, 1, k - 1)
           b == SubSeq(q, k + 1, Len(q))
<1>4. /\ a \in Seq(S) /\ Len(a) = k - 1
      /\ \A i \in 1 .. k - 1 : a[i] = q[i]
  <2>1. \A i \in 1 .. k - 1 : q[i] \in S
    BY <1>3
  <2>. QED
    BY <1>3, <2>1, SubSeqProperties
<1>5. /\ b \in Seq(S) /\ Len(b) = Len(q) - k
      /\ \A i \in 1 .. Len(q) - k : b[i] = q[k + i]
  <2>1. \A i \in k + 1 .. Len(q) : q[i] \in S
    BY <1>3
  <2>2. /\ b \in Seq(S) /\ Len(b) = IF k + 1 <= Len(q) THEN Len(q) - (k + 1) + 1 ELSE 0
        /\ \A i \in 1 .. Len(q) - (k + 1) + 1 : b[i] = q[(k + 1) + i - 1]
    BY <1>3, <2>1, SubSeqProperties
  <2>3. Len(b) = Len(q) - k
    BY <1>3, <2>2
  <2>4. ASSUME NEW i \in 1 .. Len(q) - k PROVE b[i] = q[k + i]
    <3>1. i \in 1 .. Len(q) - (k + 1) + 1 /\ (k + 1) + i - 1 = k + i
      BY <1>3
    <3>. QED
      BY <2>2, <3>1
  <2>. QED
    BY <2>2, <2>3, <2>4
<1> HIDE DEF a, b
<1>6. /\ a \o b \in Seq(S) /\ Len(a \o b) = Len(q) - 1
      /\ \A i \in 1 .. Len(q) - 1 : (a \o b)[i] = IF i < k THEN a[i] ELSE b[i - (k - 1)]
  BY <1>3, <1>4, <1>5, ConcatProperties
<1>7. ASSUME NEW i \in 1 .. Len(q) - 1
      PROVE  (a \o b)[i] = IF i < k THEN q[i] ELSE q[i + 1]
  <2>1. CASE i < k
    BY <1>3, <1>4, <1>6, <2>1
  <2>2. CASE ~ (i < k)
    <3>1. i - (k - 1) \in 1 .. Len(q) - k /\ k + (i - (k - 1)) = i + 1
      BY <1>3, <2>2
    <3>2. b[i - (k - 1)] = q[i + 1]
      BY <1>5, <3>1
    <3>. QED
      BY <1>6, <2>2, <3>2
  <2>. QED
    BY <2>1, <2>2
<1>. QED
  BY <1>2, <1>6, <1>7 DEF RemoveAt, a, b

\* A set of positions has a first one.
LEMMA FirstPosition ==
  ASSUME NEW S \in SUBSET Nat, S # {}
  PROVE  \E x \in S : \A y \in S : x <= y
<1> DEFINE R == OpToRel(<, Nat)
<1>1. \A i, j \in Nat : i < j => <<i, j>> \in R
  BY DEF OpToRel
<1>2. IsWellFoundedOn(R, Nat)
  BY NatLessThanWellFounded
<1> HIDE DEF R
<1>3. PICK x \in S : \A y \in S : ~ (<<y, x>> \in R)
  BY <1>2, WFMin
<1>4. \A y \in S : x <= y
  <2> SUFFICES ASSUME NEW y \in S, y < x PROVE FALSE
    OBVIOUS
  <2>. QED
    BY <1>1, <1>3
<1>. QED
  BY <1>4

\* The search of the wait queue finds somebody when there is somebody to find.
LEMMA FirstOfFinds ==
  ASSUME wq \in Seq(Threads), NEW S, NEW k \in 1 .. Len(wq), wq[k] \in S
  PROVE  \E i \in 1 .. Len(wq) : wq[i] \in S /\ wq[i] \in FirstOf(S)
<1>1. Len(wq) \in Nat
  BY LenProperties
<1> DEFINE P == {i \in 1 .. Len(wq) : wq[i] \in S}
<1>2. P \in SUBSET Nat /\ P # {}
  BY <1>1
<1>3. PICK x \in P : \A y \in P : x <= y
  BY <1>2, FirstPosition
<1>4. \A j \in 1 .. x - 1 : wq[j] \notin S
  BY <1>1, <1>3
<1>. QED
  BY <1>3, <1>4 DEF FirstOf

-----------------------------------------------------------------------------
(* Each step preserves the invariant. *)

LEMMA InitIndInv ==
  ASSUME StartedOnce, Init
  PROVE  IndInv
<1>1. TypeOK
  BY ThreadsAssumption, EmptySeq DEF Init, TypeOK, Threads, RequesterPc, LoopPc
<1>2. InSection = {} /\ Waiting = {}
  BY DEF Init, InSection, Waiting
<1>. QED
  BY <1>1, <1>2, ThreadsAssumption
  DEF Init, IndInv, NoPanic, MutualExclusion, WaitersQueued, Sleepers, LoopPlaces,
      SomeoneComes, Threads

\* The sections' places, after a thread has moved.
LEMMA Moved ==
  ASSUME TypeOK, NEW t \in Threads, NEW l, pc' = [pc EXCEPT ![t] = l]
  PROVE  /\ \A u \in Threads : pc'[u] = IF u = t THEN l ELSE pc[u]
         /\ InSection' = IF l \in {"test", "enqueue", "signal", "unlock", "cvlink", "cvsleep"}
                         THEN InSection \cup {t} ELSE InSection \ {t}
         /\ Waiting' = IF l \in {"wait", "cvwake"} THEN Waiting \cup {t} ELSE Waiting \ {t}
  BY DEF TypeOK, InSection, Waiting

\* A thread that finds the mutex free locks it; the others join the wait queue.
LEMMA LockStep ==
  ASSUME StartedOnce, IndInv, NEW t \in Threads, mutex_lock(t)
  PROVE  IndInv'
<1> USE DEF IndInv
<1>1. CASE can_lock(t)
  <2>1. /\ mstate = 0 /\ mstate' = -1 /\ pc' = [pc EXCEPT ![t] = Section(t)] /\ pc[t] = "lock"
        /\ UNCHANGED <<wq, wqe, cvlinked, nqueued, left, panicked>>
    BY <1>1 DEF mutex_lock, can_lock, Goto
  <2>2. Section(t) \in {"test", "enqueue"} /\ (t \in Loops => Section(t) = "test")
        /\ (t \in Requesters => Section(t) = "enqueue")
    BY ThreadsAssumption DEF Section, Threads
  <2>3. /\ \A u \in Threads : pc'[u] = IF u = t THEN Section(t) ELSE pc[u]
        /\ InSection' = InSection \cup {t} /\ Waiting' = Waiting
    BY <2>1, <2>2, Moved DEF Waiting
  <2>4. InSection = {}
    BY <2>1 DEF MutualExclusion
  <2>5. TypeOK'
    BY <2>1, <2>2 DEF TypeOK, RequesterPc, LoopPc, Threads
  <2>6. MutualExclusion'
    BY <2>1, <2>3, <2>4 DEF MutualExclusion
  <2>7. WaitersQueued' /\ Sleepers'
    BY <2>1, <2>3 DEF WaitersQueued, Sleepers
  <2>8. LoopPlaces' /\ SomeoneComes'
    BY <2>1, <2>2, <2>3, ThreadsAssumption DEF LoopPlaces, SomeoneComes, Threads, TypeOK
  <2>. QED
    BY <2>1, <2>5, <2>6, <2>7, <2>8 DEF NoPanic
<1>2. CASE ~ can_lock(t)
  <2>1. /\ wq' = Append(wq, t) /\ wqe' = [wqe EXCEPT ![t] = [cv |-> FALSE, done |-> FALSE]]
        /\ pc' = [pc EXCEPT ![t] = "wait"] /\ pc[t] = "lock"
        /\ UNCHANGED <<mstate, cvlinked, nqueued, left, panicked>>
    BY <1>2 DEF mutex_lock, Goto
  <2>2. /\ \A u \in Threads : pc'[u] = IF u = t THEN "wait" ELSE pc[u]
        /\ InSection' = InSection /\ Waiting' = Waiting \cup {t} /\ t \notin Waiting
    BY <2>1, Moved DEF Waiting, InSection
  <2>3. /\ wq' \in Seq(Threads) /\ Len(wq) \in Nat /\ Len(wq') = Len(wq) + 1
        /\ wq'[Len(wq) + 1] = t /\ \A i \in 1 .. Len(wq) : wq'[i] = wq[i]
    BY <2>1, AppendProperties, LenProperties DEF TypeOK
  <2>4. /\ \A u \in Threads : wqe'[u] = IF u = t THEN [cv |-> FALSE, done |-> FALSE] ELSE wqe[u]
    BY <2>1 DEF TypeOK
  <2>5. TypeOK'
    BY <2>1, <2>3 DEF TypeOK, RequesterPc, LoopPc, Threads
  <2>6. MutualExclusion'
    BY <2>1, <2>2 DEF MutualExclusion
  <2>7. WaitersQueued'
    BY <2>2, <2>3, SMTT(30) DEF WaitersQueued
  <2>8. Sleepers'
    BY <2>1, <2>2, <2>4 DEF Sleepers
  <2>9. LoopPlaces' /\ SomeoneComes'
    BY <2>1, <2>2, <2>4, ThreadsAssumption DEF LoopPlaces, SomeoneComes, Threads, TypeOK
  <2>. QED
    BY <2>1, <2>5, <2>6, <2>7, <2>8, <2>9 DEF NoPanic
<1>. QED
  BY <1>1, <1>2

\* A marked waiter is in the wait queue and leaves it.
LEMMA WaitFinalStep ==
  ASSUME StartedOnce, IndInv, NEW t \in Threads, wq_wait_final(t)
  PROVE  IndInv'
<1> USE DEF IndInv
<1>1. pc[t] = "wait" /\ wqe[t].done /\ t \in Waiting
  BY DEF wq_wait_final, Waiting
<1>2. PICK k \in 1 .. Len(wq) : wq[k] = t
  BY <1>1 DEF WaitersQueued
<1>3. /\ wq' = RemoveFirst(wq, t) /\ pc' = [pc EXCEPT ![t] = "lock"]
      /\ UNCHANGED <<mstate, wqe, cvlinked, nqueued, left, panicked>>
  BY <1>2 DEF wq_wait_final, Contains, Goto
<1>4. /\ \A u \in Threads : pc'[u] = IF u = t THEN "lock" ELSE pc[u]
      /\ InSection' = InSection /\ Waiting' = Waiting \ {t}
  <2>1. t \notin InSection
    BY <1>1 DEF InSection
  <2>2. InSection' = InSection \ {t} /\ Waiting' = Waiting \ {t}
        /\ \A u \in Threads : pc'[u] = IF u = t THEN "lock" ELSE pc[u]
    <3>1. \A u \in Threads : pc'[u] = IF u = t THEN "lock" ELSE pc[u]
      BY <1>3 DEF TypeOK
    <3>. QED
      BY <3>1 DEF InSection, Waiting
  <2>. QED
    BY <2>1, <2>2
<1>5. /\ wq' \in Seq(Threads) /\ Len(wq) \in Nat /\ Len(wq') = Len(wq) - 1
      /\ \A i \in 1 .. Len(wq) - 1 : wq'[i] = IF i < k THEN wq[i] ELSE wq[i + 1]
  BY <1>2, <1>3, RemoveFirstProperties, LenProperties, ZenonT(40) DEF TypeOK, WaitersQueued
<1>6. TypeOK'
  BY <1>3, <1>5 DEF TypeOK, RequesterPc, LoopPc, Threads
<1>7. MutualExclusion'
  BY <1>3, <1>4 DEF MutualExclusion
<1>8. WaitersQueued'
  <2>1. ASSUME NEW i \in 1 .. Len(wq') PROVE wq'[i] \in Waiting'
    <3>1. wq'[i] = wq[i] \/ wq'[i] = wq[i + 1]
      BY <1>5
    <3>2. wq'[i] \in Waiting /\ wq'[i] # wq[k]
      BY <1>2, <1>5 DEF WaitersQueued
    <3>. QED
      BY <1>2, <1>4, <3>2
  <2>2. ASSUME NEW u \in Waiting' PROVE \E i \in 1 .. Len(wq') : wq'[i] = u
    <3>1. PICK j \in 1 .. Len(wq) : wq[j] = u
      BY <1>4 DEF WaitersQueued
    <3>2. j # k
      BY <1>2, <1>4, <3>1
    <3>3. CASE j < k
      <4>1. j \in 1 .. Len(wq') /\ wq'[j] = u
        BY <1>5, <3>1, <3>3
      <4>. QED
        BY <4>1
    <3>4. CASE j > k
      <4>1. j - 1 \in 1 .. Len(wq') /\ wq'[j - 1] = u
        BY <1>5, <3>1, <3>4
      <4>. QED
        BY <4>1
    <3>. QED
      BY <1>5, <3>2, <3>3, <3>4
  <2>3. ASSUME NEW i \in 1 .. Len(wq'), NEW j \in 1 .. Len(wq'), wq'[i] = wq'[j]
        PROVE  i = j
    BY <1>5, <2>3 DEF WaitersQueued
  <2>. QED
    BY <2>1, <2>2, <2>3 DEF WaitersQueued
<1>9. Sleepers'
  BY <1>1, <1>3, <1>4 DEF Sleepers
<1>10. LoopPlaces' /\ SomeoneComes'
  BY <1>1, <1>3, <1>4, ThreadsAssumption DEF LoopPlaces, SomeoneComes, Threads, TypeOK
<1>. QED
  BY <1>3, <1>6, <1>7, <1>8, <1>9, <1>10 DEF NoPanic

\* The mutex is locked when it is unlocked: by the thread that unlocks it.
LEMMA UnlockStep ==
  ASSUME StartedOnce, IndInv, NEW t \in Threads, mutex_unlock(t)
  PROVE  IndInv'
<1> USE DEF IndInv
<1>1. pc[t] = "unlock" /\ t \in InSection /\ mstate = -1 /\ InSection = {t}
  BY DEF mutex_unlock, InSection, MutualExclusion
<1>2. mstate' = 0 /\ pc' = [pc EXCEPT ![t] = "wake"]
      /\ UNCHANGED <<wq, wqe, cvlinked, nqueued, left, panicked>>
  BY <1>1 DEF mutex_unlock, Goto
<1>3. /\ \A u \in Threads : pc'[u] = IF u = t THEN "wake" ELSE pc[u]
      /\ InSection' = {} /\ Waiting' = Waiting
  BY <1>1, <1>2, Moved DEF Waiting
<1>4. TypeOK'
  BY <1>2 DEF TypeOK, RequesterPc, LoopPc, Threads
<1>5. MutualExclusion' /\ WaitersQueued' /\ Sleepers'
  BY <1>2, <1>3 DEF MutualExclusion, WaitersQueued, Sleepers
<1>6. LoopPlaces' /\ SomeoneComes'
  BY <1>1, <1>2, <1>3, ThreadsAssumption DEF LoopPlaces, SomeoneComes, Threads, TypeOK
<1>. QED
  BY <1>2, <1>4, <1>5, <1>6 DEF NoPanic

\* The wake-up marks only threads that wait for the mutex.
LEMMA WakeStep ==
  ASSUME StartedOnce, IndInv, NEW t \in Threads, wq_wake_next(t)
  PROVE  IndInv'
<1> USE DEF IndInv
<1> DEFINE l == IF pc[t] = "cvwake" THEN "wait" ELSE IF t \in Loops THEN "lock" ELSE "out"
<1>1. /\ pc[t] \in {"wake", "cvwake"} /\ pc' = [pc EXCEPT ![t] = l]
      /\ UNCHANGED <<mstate, wq, cvlinked, nqueued, left, panicked>>
  BY DEF wq_wake_next, Goto
<1>2. /\ l \in {"wait", "lock", "out"} /\ (l = "wait" <=> pc[t] = "cvwake")
      /\ (t \in Requesters => l \in RequesterPc) /\ (t \in Loops => l \in LoopPc)
  BY <1>1, ThreadsAssumption DEF TypeOK, RequesterPc, LoopPc, Threads
<1> HIDE DEF l
<1>3. /\ \A u \in Threads : pc'[u] = IF u = t THEN l ELSE pc[u]
      /\ InSection' = InSection /\ Waiting' = Waiting
  <2>1. t \notin InSection /\ (t \in Waiting <=> l = "wait")
    BY <1>1, <1>2 DEF InSection, Waiting
  <2>2. \A u \in Threads : pc'[u] = IF u = t THEN l ELSE pc[u]
    BY <1>1 DEF TypeOK
  <2>3. InSection' = InSection \ {t}
    BY <1>1, <1>2, <2>2 DEF InSection
  <2>4. Waiting' = IF l = "wait" THEN Waiting \cup {t} ELSE Waiting \ {t}
    BY <1>1, <1>2, <2>2 DEF Waiting
  <2>. QED
    BY <2>1, <2>2, <2>3, <2>4
<1>4. ASSUME NEW u \in Threads
      PROVE  /\ wqe'[u] \in [cv : BOOLEAN, done : BOOLEAN] /\ wqe'[u].cv = wqe[u].cv
             /\ (wqe'[u].done => wqe[u].done \/ ~ wqe[u].cv)
  <2>1. wqe'[u] = [wqe[u] EXCEPT !.done = @ \/ u \in wake_next]
    BY DEF wq_wake_next
  <2>2. u \in wake_next => ~ wqe[u].cv
    BY DEF wake_next, FirstOf, IsActive
  <2>. QED
    BY <2>1, <2>2, ZenonT(40) DEF TypeOK
<1>5. TypeOK'
  <2>1. wqe' \in [Threads -> [cv : BOOLEAN, done : BOOLEAN]]
    BY <1>4 DEF wq_wake_next
  <2>. QED
    BY <1>1, <1>2, <2>1 DEF TypeOK, RequesterPc, LoopPc, Threads
<1>6. MutualExclusion' /\ WaitersQueued'
  BY <1>1, <1>3 DEF MutualExclusion, WaitersQueued
<1>7. Sleepers'
  BY <1>1, <1>3, <1>4 DEF Sleepers
<1>8. LoopPlaces'
  BY <1>1, <1>2, <1>3, ThreadsAssumption DEF LoopPlaces, Threads, TypeOK
<1>9. SomeoneComes'
  BY <1>1, <1>2, <1>3, <1>4, ThreadsAssumption DEF SomeoneComes, Threads, TypeOK
<1>. QED
  BY <1>1, <1>5, <1>6, <1>7, <1>8, <1>9 DEF NoPanic

\* condvar_wait: the loop links the condvar, ...
LEMMA LinkStep ==
  ASSUME StartedOnce, IndInv, NEW t \in Threads, condvar_link(t)
  PROVE  IndInv'
<1> USE DEF IndInv
<1>1. /\ pc[t] = "cvlink" /\ cvlinked' = TRUE /\ pc' = [pc EXCEPT ![t] = "cvsleep"]
      /\ UNCHANGED <<mstate, wq, wqe, nqueued, left, panicked>>
  BY DEF condvar_link, Goto
<1>2. t \in Loops /\ t \in InSection /\ t \notin Waiting
  BY <1>1 DEF TypeOK, RequesterPc, Threads, InSection, Waiting
<1>3. /\ \A u \in Threads : pc'[u] = IF u = t THEN "cvsleep" ELSE pc[u]
      /\ InSection' = InSection \cup {t} /\ Waiting' = Waiting \ {t}
  BY <1>1, Moved
<1>4. TypeOK'
  BY <1>1, <1>2, ThreadsAssumption DEF TypeOK, RequesterPc, LoopPc, Threads
<1>5. InSection' = InSection /\ Waiting' = Waiting
  BY <1>2, <1>3
<1>6. MutualExclusion' /\ WaitersQueued' /\ Sleepers'
  BY <1>1, <1>5 DEF MutualExclusion, WaitersQueued, Sleepers
<1>7. LoopPlaces' /\ SomeoneComes'
  BY <1>1, <1>2, <1>3, ThreadsAssumption DEF LoopPlaces, SomeoneComes, Threads, TypeOK, StartedOnce
<1>. QED
  BY <1>1, <1>4, <1>6, <1>7 DEF NoPanic

\* ... and sleeps, with the queue still empty.
LEMMA SleepStep ==
  ASSUME StartedOnce, IndInv, NEW t \in Threads, condvar_sleep(t)
  PROVE  IndInv'
<1> USE DEF IndInv
<1>1. pc[t] = "cvsleep" /\ t \in InSection /\ InSection = {t} /\ mstate = -1 /\ t \notin Waiting
  BY DEF condvar_sleep, InSection, MutualExclusion, Waiting
<1>2. /\ wq' = Append(wq, t) /\ wqe' = [wqe EXCEPT ![t] = [cv |-> TRUE, done |-> FALSE]]
      /\ mstate' = 0 /\ pc' = [pc EXCEPT ![t] = "cvwake"]
      /\ UNCHANGED <<cvlinked, nqueued, left, panicked>>
  BY <1>1 DEF condvar_sleep, Goto
<1>3. t \in Loops /\ nqueued = 0 /\ cvlinked
  BY <1>1 DEF TypeOK, RequesterPc, Threads, LoopPlaces
<1>4. /\ \A u \in Threads : pc'[u] = IF u = t THEN "cvwake" ELSE pc[u]
      /\ InSection' = {} /\ Waiting' = Waiting \cup {t}
  BY <1>1, <1>2, Moved
<1>5. /\ wq' \in Seq(Threads) /\ Len(wq) \in Nat /\ Len(wq') = Len(wq) + 1
      /\ wq'[Len(wq) + 1] = t /\ \A i \in 1 .. Len(wq) : wq'[i] = wq[i]
  BY <1>2, AppendProperties, LenProperties DEF TypeOK
<1>6. \A u \in Threads : wqe'[u] = IF u = t THEN [cv |-> TRUE, done |-> FALSE] ELSE wqe[u]
  BY <1>2 DEF TypeOK
<1>7. TypeOK'
  BY <1>2, <1>3, <1>5, ThreadsAssumption DEF TypeOK, RequesterPc, LoopPc, Threads
<1>8. MutualExclusion'
  BY <1>2, <1>4 DEF MutualExclusion
<1>9. WaitersQueued'
  BY <1>1, <1>4, <1>5 DEF WaitersQueued
<1>10. Sleepers'
  BY <1>2, <1>3, <1>4, <1>6 DEF Sleepers
<1>11. LoopPlaces' /\ SomeoneComes'
  BY <1>1, <1>2, <1>3, <1>4, ThreadsAssumption DEF LoopPlaces, SomeoneComes, Threads, TypeOK, StartedOnce
<1>. QED
  BY <1>2, <1>7, <1>8, <1>9, <1>10, <1>11 DEF NoPanic

\* condvar_signal reaches the loop if it sleeps: nobody else does.
LEMMA SignalStep ==
  ASSUME StartedOnce, IndInv, NEW t \in Threads, condvar_signal(t)
  PROVE  IndInv'
<1> USE DEF IndInv
<1>1. /\ pc[t] = "signal" /\ pc' = [pc EXCEPT ![t] = "unlock"]
      /\ UNCHANGED <<mstate, wq, cvlinked, nqueued, left, panicked>>
  BY DEF condvar_signal, Goto
<1>2. t \in Requesters /\ t \in InSection /\ t \notin Waiting
  BY <1>1 DEF TypeOK, LoopPc, Threads, InSection, Waiting
<1>3. /\ \A u \in Threads : pc'[u] = IF u = t THEN "unlock" ELSE pc[u]
      /\ InSection' = InSection \cup {t} /\ Waiting' = Waiting \ {t}
  BY <1>1, Moved
<1>4. InSection' = InSection /\ Waiting' = Waiting
  BY <1>2, <1>3
<1>5. ASSUME NEW u \in Threads
      PROVE  /\ wqe'[u] \in [cv : BOOLEAN, done : BOOLEAN] /\ wqe'[u].done = wqe[u].done
             /\ (wqe'[u].cv => wqe[u].cv) /\ (wqe[u].cv => ~ wqe'[u].cv)
  <2>1. wqe'[u] = [wqe[u] EXCEPT !.cv = @ /\ ~ (cvlinked /\ u \in promote)]
    BY DEF condvar_signal
  <2>2. wqe[u].cv => cvlinked /\ u \in promote
    <3>1. SUFFICES ASSUME wqe[u].cv PROVE u \in promote
      BY DEF Sleepers
    <3>2. u \in Loops /\ u \in Waiting
      BY <3>1 DEF Sleepers
    <3>3. PICK k \in 1 .. Len(wq) : wq[k] = u
      BY <3>2 DEF WaitersQueued
    <3> DEFINE S == {v \in Threads : IsCondvar(wqe[v])}
    <3>4. S = {u}
      BY <3>1, <3>2 DEF Sleepers, StartedOnce, IsCondvar
    <3>5. PICK i \in 1 .. Len(wq) : wq[i] \in S /\ wq[i] \in FirstOf(S)
      <4>1. wq \in Seq(Threads) /\ wq[k] \in S
        BY <3>3, <3>4 DEF TypeOK
      <4> HIDE DEF S
      <4>. QED
        BY <4>1, FirstOfFinds
    <3>. QED
      BY <3>4, <3>5 DEF promote
  <2>. QED
    BY <2>1, <2>2 DEF TypeOK
<1>6. TypeOK'
  <2>1. wqe' \in [Threads -> [cv : BOOLEAN, done : BOOLEAN]]
    BY <1>5 DEF condvar_signal
  <2>. QED
    BY <1>1, <1>2, <2>1, ThreadsAssumption DEF TypeOK, RequesterPc, LoopPc, Threads
<1>7. MutualExclusion' /\ WaitersQueued'
  BY <1>1, <1>4 DEF MutualExclusion, WaitersQueued
<1>8. Sleepers'
  BY <1>1, <1>4, <1>5 DEF Sleepers
<1>9. LoopPlaces'
  BY <1>1, <1>2, <1>3, ThreadsAssumption DEF LoopPlaces, Threads
<1>10. SomeoneComes'
  BY <1>1, <1>2, <1>3, <1>5, ThreadsAssumption DEF SomeoneComes, Threads, StartedOnce
<1>. QED
  BY <1>1, <1>6, <1>7, <1>8, <1>9, <1>10 DEF NoPanic

\* Requests arrive, and are queued, under the mutex and after the start.
LEMMA RequestStep ==
  ASSUME StartedOnce, IndInv, NEW t \in Requesters, read_req(t) \/ enqueue(t)
  PROVE  IndInv'
<1> USE DEF IndInv
<1>0. t \in Threads
  BY DEF Threads
<1>1. CASE read_req(t)
  <2>1. /\ pc[t] = "out" /\ pc' = [pc EXCEPT ![t] = "lock"]
        /\ left[t] > 0 /\ left' = [left EXCEPT ![t] = @ - 1]
        /\ \A l \in Loops : pc[l] \notin {"minit", "cvinit"}
        /\ UNCHANGED <<mstate, wq, wqe, cvlinked, nqueued, panicked>>
    BY <1>1 DEF read_req, Goto, StartedOnce
  <2>2. /\ \A u \in Threads : pc'[u] = IF u = t THEN "lock" ELSE pc[u]
        /\ InSection' = InSection \ {t} /\ Waiting' = Waiting \ {t}
    BY <1>0, <2>1, Moved, ZenonT(40)
  <2>3. t \notin InSection /\ t \notin Waiting
    BY <2>1 DEF InSection, Waiting
  <2>4. InSection' = InSection /\ Waiting' = Waiting
    BY <2>2, <2>3
  <2>5. TypeOK'
    BY <2>1, ThreadsAssumption DEF TypeOK, RequesterPc, LoopPc, Threads
  <2>6. MutualExclusion' /\ WaitersQueued' /\ Sleepers'
    BY <2>1, <2>4 DEF MutualExclusion, WaitersQueued, Sleepers
  <2>7. LoopPlaces' /\ SomeoneComes'
    BY <2>1, <2>2, ThreadsAssumption DEF LoopPlaces, SomeoneComes, Threads
  <2>. QED
    BY <2>1, <2>5, <2>6, <2>7 DEF NoPanic
<1>2. CASE enqueue(t)
  <2>1. /\ pc[t] = "enqueue" /\ pc' = [pc EXCEPT ![t] = "signal"] /\ nqueued' = nqueued + 1
        /\ UNCHANGED <<mstate, wq, wqe, cvlinked, left, panicked>>
    BY <1>2 DEF enqueue, Goto
  <2>2. /\ \A u \in Threads : pc'[u] = IF u = t THEN "signal" ELSE pc[u]
        /\ InSection' = InSection \cup {t} /\ Waiting' = Waiting \ {t}
    BY <1>0, <2>1, Moved
  <2>3. t \in InSection /\ t \notin Waiting
    BY <1>0, <2>1 DEF InSection, Waiting
  <2>4. InSection' = InSection /\ Waiting' = Waiting
    BY <2>2, <2>3
  <2>5. TypeOK'
    BY <2>1, ThreadsAssumption DEF TypeOK, RequesterPc, LoopPc, Threads
  <2>6. MutualExclusion' /\ WaitersQueued' /\ Sleepers'
    BY <2>1, <2>4 DEF MutualExclusion, WaitersQueued, Sleepers
  <2>7. LoopPlaces'
    <3>1. \A l \in Loops : l # t /\ l \in Threads /\ pc'[l] = pc[l]
      BY <2>2, ThreadsAssumption DEF Threads
    <3>2. \A l \in Loops : l \notin InSection
      BY <2>3, <3>1 DEF MutualExclusion
    <3>3. \A l \in Loops : pc[l] \notin {"cvlink", "cvsleep", "minit", "cvinit"}
      BY <2>1, <3>1, <3>2 DEF InSection, LoopPlaces
    <3>. QED
      BY <3>1, <3>3 DEF LoopPlaces
  <2>8. SomeoneComes'
    BY <2>2, <1>0 DEF SomeoneComes
  <2>. QED
    BY <2>1, <2>5, <2>6, <2>7, <2>8 DEF NoPanic
<1>. QED
  BY <1>1, <1>2

\* The loop's own steps: the initialisations meet a mutex nobody uses.
LEMMA LoopStep ==
  ASSUME StartedOnce, IndInv, NEW t \in Threads,
         start_mutex_init(t) \/ start_condvar_init(t) \/ loop_test(t)
  PROVE  IndInv'
<1> USE DEF IndInv
<1>0. t \in Loops /\ \A l \in Loops : l = t
  BY DEF start_mutex_init, start_condvar_init, loop_test, TypeOK, RequesterPc, Threads, StartedOnce
<1>1. CASE start_mutex_init(t) \/ start_condvar_init(t)
  <2> DEFINE l == IF pc[t] = "minit" THEN "cvinit" ELSE "lock"
  <2>1. /\ pc[t] \in {"minit", "cvinit"} /\ pc' = [pc EXCEPT ![t] = l]
        /\ mstate' \in {0, mstate} /\ wq' \in {<< >>, wq} /\ cvlinked' \in {FALSE, cvlinked}
        /\ UNCHANGED <<wqe, nqueued, left, panicked>>
    BY <1>1 DEF start_mutex_init, start_condvar_init, Goto
  <2>2. \A u \in Requesters : pc[u] = "out"
    BY <1>0, <2>1 DEF LoopPlaces
  <2>3. InSection = {} /\ Waiting = {}
    BY <1>0, <2>1, <2>2 DEF InSection, Waiting, Threads
  <2>4. mstate = 0
    BY <2>3 DEF MutualExclusion, TypeOK
  <2>5. /\ \A u \in Threads : pc'[u] = IF u = t THEN l ELSE pc[u]
        /\ InSection' = {} /\ Waiting' = {}
    <3>1. \A u \in Threads : pc'[u] = IF u = t THEN l ELSE pc[u]
      BY <2>1 DEF TypeOK
    <3>2. l \in {"cvinit", "lock"}
      OBVIOUS
    <3>3. \A u \in Threads : pc'[u] \in {"cvinit", "lock", "out"}
      BY <1>0, <2>2, <3>1, <3>2 DEF Threads
    <3>. QED
      BY <3>1, <3>3 DEF InSection, Waiting
  <2>6. TypeOK'
    <3>1. wq' \in Seq(Threads)
      BY <2>1, EmptySeq DEF TypeOK
    <3>. QED
      BY <1>0, <2>1, <2>4, <3>1, ThreadsAssumption DEF TypeOK, RequesterPc, LoopPc, Threads
  <2>7. MutualExclusion'
    BY <2>1, <2>4, <2>5 DEF MutualExclusion
  <2>8. WaitersQueued'
    <3>1. \A i \in 1 .. Len(wq) : FALSE
      BY <2>3 DEF WaitersQueued
    <3>2. \A i \in 1 .. Len(<< >>) : FALSE
      BY EmptySeq
    <3>. QED
      BY <2>1, <2>5, <3>1, <3>2 DEF WaitersQueued
  <2>9. Sleepers'
    BY <2>1, <2>3, <2>5 DEF Sleepers
  <2>10. LoopPlaces' /\ SomeoneComes'
    <3>1. t \in Threads /\ pc'[t] \in {"cvinit", "lock"}
      BY <2>5
    <3>2. \A u \in Requesters : pc'[u] = "out"
      BY <1>0, <2>2, <2>5, ThreadsAssumption DEF Threads
    <3>. QED
      BY <1>0, <3>1, <3>2 DEF LoopPlaces, SomeoneComes
  <2>. QED
    BY <2>1, <2>6, <2>7, <2>8, <2>9, <2>10 DEF NoPanic
<1>2. CASE loop_test(t)
  <2> DEFINE l == IF nqueued = 0 THEN "cvlink" ELSE "unlock"
  <2>1. /\ pc[t] = "test" /\ pc' = [pc EXCEPT ![t] = l]
        /\ nqueued' = IF nqueued = 0 THEN nqueued ELSE nqueued - 1
        /\ UNCHANGED <<mstate, wq, wqe, cvlinked, left, panicked>>
    BY <1>2 DEF loop_test, Goto
  <2>2. t \in InSection /\ t \notin Waiting
    BY <2>1 DEF InSection, Waiting
  <2>3. \A u \in Threads : pc'[u] = IF u = t THEN l ELSE pc[u]
    BY <2>1 DEF TypeOK
  <2>4. InSection' = InSection /\ Waiting' = Waiting
    <3>1. l \in {"cvlink", "unlock"}
      OBVIOUS
    <3>. QED
      BY <2>1, <2>3, <3>1 DEF InSection, Waiting
  <2>5. TypeOK'
    BY <1>0, <2>1, ThreadsAssumption DEF TypeOK, RequesterPc, LoopPc, Threads
  <2>6. MutualExclusion' /\ WaitersQueued' /\ Sleepers'
    BY <2>1, <2>4 DEF MutualExclusion, WaitersQueued, Sleepers
  <2>7. LoopPlaces'
    BY <1>0, <2>1, <2>3 DEF LoopPlaces, TypeOK
  <2>8. SomeoneComes'
    BY <1>0, <2>1, <2>3 DEF SomeoneComes, TypeOK
  <2>. QED
    BY <2>1, <2>5, <2>6, <2>7, <2>8 DEF NoPanic
<1>. QED
  BY <1>1, <1>2

LEMMA NextIndInv == StartedOnce /\ IndInv /\ [Next]_vars => IndInv'
<1> SUFFICES ASSUME StartedOnce, IndInv, [Next]_vars PROVE IndInv'
  OBVIOUS
<1>1. ASSUME NEW t \in Threads, Step(t) PROVE IndInv'
  <2>1. CASE enqueue(t)
    <3>1. t \in Requesters
      BY <2>1 DEF enqueue, IndInv, TypeOK, LoopPc, Threads
    <3>. QED
      BY <2>1, <3>1, RequestStep
  <2>. QED
    BY <1>1, <2>1, LockStep, WaitFinalStep, UnlockStep, WakeStep, LinkStep, SleepStep,
       SignalStep, LoopStep DEF Step
<1>2. CASE UNCHANGED vars
  BY <1>2 DEF vars, IndInv, TypeOK, NoPanic, MutualExclusion, InSection, WaitersQueued, Waiting,
              Sleepers, LoopPlaces, SomeoneComes
<1>. QED
  BY <1>1, <1>2, RequestStep DEF Next

\* The invariant, of which the theorems below are consequences.
THEOREM Inductive ==
  ASSUME StartedOnce
  PROVE  SafeSpec => []IndInv
<1>1. Init => IndInv
  BY InitIndInv
<1>2. IndInv /\ [Next]_vars => IndInv'
  BY NextIndInv
<1>. QED
  BY <1>1, <1>2, PTL DEF SafeSpec

\* One thread at a time works on the request queue, and the mutex is locked
\* exactly then (mutex_lock, mutex_unlock, condvar_wait of kernel/mutex.c as
\* io_helper_service.c uses them).
THEOREM MutualExclusionCorrect ==
  ASSUME StartedOnce
  PROVE  SafeSpec => []MutualExclusion
<1>1. IndInv => MutualExclusion
  BY DEF IndInv
<1>. QED
  BY <1>1, Inductive, PTL

\* "if (!m->state) panic();" of kernel/mutex.c is never reached, and wq_wait_final
\* finds its element in the wait queue.
THEOREM NoPanicCorrect ==
  ASSUME StartedOnce
  PROVE  SafeSpec => []NoPanic
<1>1. IndInv => NoPanic
  BY DEF IndInv
<1>. QED
  BY <1>1, Inductive, PTL

\* No signal is lost: a queued request has the loop awake or promoted, or its
\* requester is about to signal.
THEOREM SomeoneComesCorrect ==
  ASSUME StartedOnce
  PROVE  SafeSpec => []SomeoneComes
<1>1. IndInv => SomeoneComes
  BY DEF IndInv
<1>. QED
  BY <1>1, Inductive, PTL

\* The wake-ups of the wait queue reach the threads that wait for the mutex.
LEMMA NextForgetsNobody ==
  ASSUME StartedOnce, IndInv, NobodyForgotten, [Next]_vars
  PROVE  NobodyForgotten'
<1> USE DEF IndInv
<1>1. ASSUME NEW t \in Threads, mutex_lock(t) PROVE NobodyForgotten'
  BY <1>1 DEF mutex_lock, can_lock, TypeOK, NobodyForgotten
<1>2. ASSUME NEW t \in Threads, wq_wait_final(t) PROVE NobodyForgotten'
  <2>1. t \in Waiting
    BY <1>2 DEF wq_wait_final, Waiting
  <2>2. Contains(wq, t)
    BY <2>1 DEF WaitersQueued, Contains
  <2>3. pc'[t] = "lock"
    BY <1>2, <2>2 DEF wq_wait_final, Goto, TypeOK
  <2>. QED
    BY <2>3 DEF NobodyForgotten
<1>3. ASSUME NEW t \in Threads, mutex_unlock(t) PROVE NobodyForgotten'
  <2>1. mstate = -1
    BY <1>3 DEF mutex_unlock, MutualExclusion, InSection
  <2>2. pc'[t] = "wake"
    BY <1>3, <2>1 DEF mutex_unlock, Goto, TypeOK
  <2>. QED
    BY <2>2 DEF NobodyForgotten
<1>4. ASSUME NEW t \in Threads, wq_wake_next(t) PROVE NobodyForgotten'
  <2>1. \A u \in Threads : wqe'[u] = [wqe[u] EXCEPT !.done = @ \/ u \in wake_next]
    BY <1>4 DEF wq_wake_next
  <2>2. \A u \in Threads : u \in Waiting' => u \in Waiting
    BY <1>4 DEF wq_wake_next, Goto, Waiting, TypeOK
  <2>3. \A u \in Threads : u \in Waiting => u \in Waiting'
    BY <1>4 DEF wq_wake_next, Goto, Waiting, TypeOK
  <2>4. SUFFICES ASSUME NEW u \in Waiting', IsActive(wqe'[u])
                 PROVE  \E v \in Waiting' : wqe'[v].done
    BY DEF NobodyForgotten
  <2>5. u \in Threads /\ u \in Waiting /\ IsActive(wqe[u])
    <3>1. u \in Threads
      BY DEF Waiting
    <3>2. wqe[u] \in [cv : BOOLEAN, done : BOOLEAN]
      BY <3>1 DEF TypeOK
    <3>. QED
      BY <2>1, <2>2, <2>4, <3>1, <3>2 DEF IsActive
  <2>6. PICK k \in 1 .. Len(wq) : wq[k] = u
    BY <2>5 DEF WaitersQueued
  <2> DEFINE S == {v \in Threads : IsActive(wqe[v])}
  <2>7. wq[k] \in S /\ wq \in Seq(Threads)
    BY <2>5, <2>6 DEF TypeOK
  <2> HIDE DEF S
  <2>8. PICK i \in 1 .. Len(wq) : wq[i] \in S /\ wq[i] \in FirstOf(S)
    BY <2>7, FirstOfFinds
  <2>9. wq[i] \in Waiting /\ wq[i] \in wake_next
    BY <2>8 DEF wake_next, WaitersQueued, S
  <2>10. wq[i] \in Threads /\ wq[i] \in Waiting'
    BY <2>3, <2>9 DEF Waiting
  <2>11. wqe'[wq[i]].done
    <3>1. wqe[wq[i]] \in [cv : BOOLEAN, done : BOOLEAN]
      BY <2>10 DEF TypeOK
    <3>. QED
      BY <2>1, <2>9, <2>10, <3>1
  <2>. QED
    BY <2>10, <2>11
<1>5. ASSUME NEW t \in Threads,
             condvar_link(t) \/ condvar_signal(t) \/ enqueue(t) \/ loop_test(t)
      PROVE  NobodyForgotten'
  <2>1. mstate = -1
    BY <1>5 DEF condvar_link, condvar_signal, enqueue, loop_test, MutualExclusion, InSection
  <2>2. mstate' = mstate
    BY <1>5 DEF condvar_link, condvar_signal, enqueue, loop_test
  <2>. QED
    BY <2>1, <2>2 DEF NobodyForgotten
<1>6. ASSUME NEW t \in Threads, condvar_sleep(t) PROVE NobodyForgotten'
  <2>1. mstate = -1
    BY <1>6 DEF condvar_sleep, MutualExclusion, InSection
  <2>2. pc'[t] = "cvwake"
    BY <1>6, <2>1 DEF condvar_sleep, Goto, TypeOK
  <2>. QED
    BY <2>2 DEF NobodyForgotten
<1>7. ASSUME NEW t \in Threads, read_req(t) \/ start_condvar_init(t) PROVE NobodyForgotten'
  <2>1. pc'[t] = "lock"
    BY <1>7 DEF read_req, start_condvar_init, Goto, TypeOK
  <2>. QED
    BY <2>1 DEF NobodyForgotten
<1>8. ASSUME NEW t \in Threads, start_mutex_init(t) PROVE NobodyForgotten'
  <2>1. t \in Loops /\ Loops = {t}
    BY <1>8 DEF start_mutex_init, TypeOK, RequesterPc, Threads, StartedOnce
  <2>2. \A u \in Requesters : pc[u] = "out"
    BY <1>8, <2>1 DEF start_mutex_init, LoopPlaces
  <2>3. Waiting' = {}
    BY <1>8, <2>1, <2>2 DEF start_mutex_init, Goto, Waiting, Threads, TypeOK
  <2>. QED
    BY <2>3 DEF NobodyForgotten
<1>9. CASE UNCHANGED vars
  BY <1>9 DEF vars, NobodyForgotten, Waiting
<1>. QED
  BY <1>1, <1>2, <1>3, <1>4, <1>5, <1>6, <1>7, <1>8, <1>9 DEF Next, Step, Threads

\* No thread that waits for the queue mutex is left without a wake-up on its
\* way: the safety half of RequestersReturn.
THEOREM NobodyForgottenCorrect ==
  ASSUME StartedOnce
  PROVE  SafeSpec => []NobodyForgotten
<1>1. Init => NobodyForgotten
  BY DEF Init, NobodyForgotten, Waiting
<1>2. IndInv /\ NobodyForgotten /\ [Next]_vars => NobodyForgotten'
  BY NextForgetsNobody
<1>. QED
  BY <1>1, <1>2, Inductive, PTL DEF SafeSpec

=============================================================================
