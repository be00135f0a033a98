-------------------------- MODULE SignalLocksProofs --------------------------
(***************************************************************************)
(* The locks of io_signal.h protect the bitmaps and the counter, for any   *)
(* number of clients, signal numbers and calls: no update is lost, and no  *)
(* number is given out twice.                                              *)
(***************************************************************************)
EXTENDS SignalLocks, FiniteSetTheorems, SequenceTheorems,
        WellFoundedInduction, TLAPS

-----------------------------------------------------------------------------
(* The inductive invariant. *)

Places == {"out", "lock", "wait", "read", "write", "unlock", "wake", "unlocked"}
Reads == [pending : SUBSET Signos, using : SUBSET Signos, req_nums : Int, poll_times : Int]

TypeOK ==
    /\ mstate \in [Mutexes -> Int]
    /\ pc \in [Threads -> Places] /\ op \in [Threads -> Ops]
    /\ signo \in [Threads -> Signos \cup {None}]
    /\ held \in [Threads -> Seq(Mutexes \X {"read", "write"})]
    /\ seen \in [Threads -> Reads]
    /\ pending \subseteq Signos /\ using \subseteq Signos /\ announced \subseteq Signos
    /\ req_nums \in Int /\ poll_times \in Int
    /\ mine \in [Clients -> Signos \cup {None}] /\ requested \in Seq(Signos)

\* A thread has taken the first of its function's locks, in their order: none
\* outside a function, all of them in its section, and some on the way.
HeldInOrder ==
    \A t \in Threads, o \in Ops : op[t] = o =>
        /\ Len(held[t]) <= Len(locks_of(o))
        /\ \A i \in 1 .. Len(held[t]) : held[t][i] = locks_of(o)[i]
        /\ pc[t] = "out" => Len(held[t]) = 0 /\ o = "get_req_num"
        /\ pc[t] \in {"lock", "wait"} => Len(held[t]) < Len(locks_of(o))
        /\ pc[t] \in {"read", "write"} => Len(held[t]) = Len(locks_of(o))
        /\ pc[t] \in {"unlock", "wake", "unlocked"} => Len(held[t]) > 0

\* Whether t has write locked a mutex, from the return of mutex_lock to the step
\* of mutex_unlock that writes the state.
Released(t) == pc[t] \in {"wake", "unlocked"}
HasPending(t) ==
    \/ op[t] = "set_ready_signal" /\ Len(held[t]) = 1 /\ ~ Released(t)
    \/ op[t] = "release_signo" /\ Len(held[t]) = 1 /\ ~ Released(t)
    \/ op[t] = "release_signo" /\ Len(held[t]) = 2
HasUsing(t) ==
    \/ op[t] = "allocate_signo" /\ Len(held[t]) = 1 /\ ~ Released(t)
    \/ op[t] = "release_signo" /\ Len(held[t]) = 2 /\ ~ Released(t)

\* A mutex somebody has write locked is marked so, and nobody else has.
Exclusive ==
    /\ \A t \in Threads : HasPending(t) => mstate["sigpending"] = -1
    /\ \A t \in Threads : HasUsing(t) => mstate["sigusing"] = -1
    /\ \A t, u \in Threads : HasPending(t) /\ HasPending(u) => t = u
    /\ \A t, u \in Threads : HasUsing(t) /\ HasUsing(u) => t = u

\* What a writer has read is still so when it writes.
SeenCurrent ==
    \A t \in Threads : pc[t] = "write" =>
        /\ op[t] \in {"release_signo", "set_ready_signal"} => seen[t].pending = pending
        /\ op[t] \in {"allocate_signo", "release_signo"} =>
             seen[t].using = using /\ seen[t].req_nums = req_nums

\* Who calls what: until its write a client that allocates has no number, and
\* one that releases gives back its own; only the loop sets a signal.
Started(t) == pc[t] \in {"lock", "wait", "read", "write"}
Callers ==
    \A t \in Threads :
        /\ op[t] = "set_ready_signal" => t = Loop /\ signo[t] \in Signos
        /\ op[t] \in {"allocate_signo", "release_signo"} => t \in Clients
        /\ op[t] = "allocate_signo" /\ Started(t) => mine[t] = None
        /\ op[t] = "release_signo" /\ Started(t) => signo[t] = mine[t] /\ mine[t] # None

\* The counter, the bits and the numbers the clients have agree, always: each
\* section writes them at once.
Agree ==
    /\ req_nums = Cardinality(using)
    /\ announced = pending
    /\ \A c \in Clients : mine[c] # None => mine[c] \in using
    /\ NumbersUnique

IndInv == TypeOK /\ HeldInOrder /\ Exclusive /\ SeenCurrent /\ Callers /\ Agree

-----------------------------------------------------------------------------
(* Lemmas. *)

\* The locks of each function, and how many.
LEMMA LocksOf ==
    /\ Len(locks_of("allocate_signo")) = 1
    /\ locks_of("allocate_signo")[1] = <<"sigusing", "write">>
    /\ Len(locks_of("release_signo")) = 2
    /\ locks_of("release_signo")[1] = <<"sigpending", "write">>
    /\ locks_of("release_signo")[2] = <<"sigusing", "write">>
    /\ Len(locks_of("set_ready_signal")) = 1
    /\ locks_of("set_ready_signal")[1] = <<"sigpending", "write">>
    /\ Len(locks_of("get_ready_signal")) = 1
    /\ locks_of("get_ready_signal")[1] = <<"sigpending", "read">>
    /\ Len(locks_of("get_req_num")) = 1
    /\ locks_of("get_req_num")[1] = <<"sigusing", "read">>
BY DEF locks_of

\* A function has one lock or two, each a mutex and a mode.
LEMMA LocksTyped ==
    ASSUME NEW o \in Ops
    PROVE  /\ Len(locks_of(o)) \in {1, 2}
           /\ \A i \in 1 .. Len(locks_of(o)) : locks_of(o)[i] \in Mutexes \X {"read", "write"}
BY LocksOf, SMTT(30) DEF Ops, Mutexes

\* A subset of the signal numbers is finite.
LEMMA SignosFinite == ASSUME NEW S \in SUBSET Signos PROVE IsFiniteSet(S)
<1>1. IsFiniteSet(Signos)
  BY SignalLocksAssumption, FS_Interval DEF Signos
<1>. QED
  BY <1>1, FS_Subset

\* The number allocate_signo picks is one of the free ones.
LEMMA LowestIsFree ==
    ASSUME NEW S \in SUBSET Signos, S # {}
    PROVE  Lowest(S) \in S
<1>1. S \subseteq Nat
  BY SignalLocksAssumption DEF Signos
<1> DEFINE R == OpToRel(<, Nat)
<1>2. \A i, j \in Nat : i < j => <<i, j>> \in R
  BY DEF OpToRel
<1>3. IsWellFoundedOn(R, Nat)
  BY NatLessThanWellFounded
<1> HIDE DEF R
<1>4. PICK x \in S : \A y \in S : ~ (<<y, x>> \in R)
  BY <1>1, <1>3, WFMin
<1>5. \A y \in S : x <= y
  <2> SUFFICES ASSUME NEW y \in S, y < x PROVE FALSE
    BY <1>1
  <2>. QED
    BY <1>1, <1>2, <1>4
<1>. QED
  BY <1>5 DEF Lowest

\* None is not a number.
LEMMA NoneIsNoSigno == None \notin Signos
  BY DEF None, Signos

\* What a function has read of the data it will write.
LEMMA ReadIsCurrent ==
  ASSUME TypeOK, NEW o \in Ops, NEW r, r = WhatIsRead(o)
  PROVE  /\ r \in Reads
         /\ o \in {"release_signo", "set_ready_signal"} => r.pending = pending
         /\ o \in {"allocate_signo", "release_signo"} => r.using = using /\ r.req_nums = req_nums
  BY DEF WhatIsRead, TypeOK, Reads

-----------------------------------------------------------------------------
(* Each step preserves the invariant. *)

LEMMA InitIndInv == Init => IndInv
<1> SUFFICES ASSUME Init PROVE IndInv
  OBVIOUS
<1>1. TypeOK
  BY EmptySeq DEF Init, TypeOK, Places, Ops, Reads, NoRead
<1>2. \A t \in Threads : Len(held[t]) = 0 /\ pc[t] = "out" /\ op[t] = "get_req_num"
  BY EmptySeq DEF Init
<1>3. HeldInOrder
  BY <1>2, LocksOf DEF HeldInOrder
<1>4. Exclusive /\ SeenCurrent /\ Callers
  BY <1>2 DEF Exclusive, HasPending, HasUsing, SeenCurrent, Callers
<1>5. Agree
  BY FS_EmptySet DEF Init, Agree, NumbersUnique
<1>. QED
  BY <1>1, <1>3, <1>4, <1>5 DEF IndInv

\* A step that neither takes nor gives back a lock, nor enters or leaves a
\* section.
LEMMA SamePlace ==
  ASSUME IndInv, NEW t \in Threads, NEW l, pc' = [pc EXCEPT ![t] = l],
         \/ pc[t] \in {"lock", "wait"} /\ l \in {"lock", "wait"}
         \/ pc[t] = "wake" /\ l \in {"wake", "unlocked"},
         UNCHANGED <<mstate, held, op, signo, seen, pending, using, req_nums, poll_times,
                     mine, requested, announced>>
  PROVE  IndInv'
<1> USE DEF IndInv
<1>1. \A u \in Threads : pc'[u] = IF u = t THEN l ELSE pc[u]
  BY DEF TypeOK
<1>2. TypeOK'
  BY DEF TypeOK, Places
<1>3. HeldInOrder'
  BY <1>1 DEF HeldInOrder
<1>4. Exclusive'
  BY <1>1 DEF Exclusive, HasPending, HasUsing, Released
<1>5. SeenCurrent' /\ Callers' /\ Agree'
  BY <1>1 DEF SeenCurrent, Callers, Started, Agree, NumbersUnique
<1>. QED
  BY <1>2, <1>3, <1>4, <1>5

\* mutex_lock, mutex_read_lock.
LEMMA LockStep ==
  ASSUME IndInv, NEW t \in Threads, Lock(t)
  PROVE  IndInv'
<1> USE DEF IndInv
<1>0. PICK o \in Ops : o = op[t]
  BY DEF TypeOK
<1>9. PICK j \in Nat \ {0} : j = Len(held[t]) + 1
  BY LenProperties DEF TypeOK
<1> DEFINE all == Len(locks_of(o))  l == locks_of(o)[j]
<1>1. /\ j <= all /\ all \in {1, 2} /\ pc[t] = "lock" /\ l = NextLock(t)
      /\ l \in Mutexes \X {"read", "write"}
  BY <1>0, <1>9, LocksTyped DEF Lock, HeldInOrder, NextLock, TypeOK
<1>2. PICK m \in Mutexes, mode \in {"read", "write"} : l = <<m, mode>>
  BY <1>1
<1>3. UNCHANGED <<op, signo, seen, pending, using, req_nums, poll_times, mine, requested, announced>>
  BY DEF Lock, data, book
<1>6. o = "allocate_signo" => j = 1 /\ m = "sigusing" /\ mode = "write"
  BY <1>1, <1>2, LocksOf
<1>7. o = "set_ready_signal" => j = 1 /\ m = "sigpending" /\ mode = "write"
  BY <1>1, <1>2, LocksOf
<1>8. ASSUME o = "release_signo"
      PROVE  \/ j = 1 /\ m = "sigpending" /\ mode = "write"
             \/ j = 2 /\ m = "sigusing" /\ mode = "write"
  <2>1. j <= Len(locks_of("release_signo")) /\ locks_of("release_signo")[j] = <<m, mode>>
    BY <1>1, <1>2, <1>8
  <2>2. j \in {1, 2}
    BY <2>1, LocksOf
  <2>. QED
    BY <2>1, <2>2, LocksOf
<1>4. CASE can_lock(mstate[m], mode)
  <2> DEFINE next == IF j = all THEN "read" ELSE "lock"
             s == IF mode = "read" THEN mstate[m] + 1 ELSE -1
  <2>1. /\ mstate' = [mstate EXCEPT ![m] = s] /\ held' = [held EXCEPT ![t] = Append(@, l)]
        /\ pc' = [pc EXCEPT ![t] = next]
    BY <1>0, <1>9, <1>1, <1>2, <1>4 DEF Lock, Goto
  <2>2. /\ s \in Int /\ mstate[m] # -1 /\ (mode = "write" => mstate[m] = 0 /\ s = -1)
        /\ \A n \in Mutexes : mstate'[n] = IF n = m THEN s ELSE mstate[n]
    BY <1>4, <2>1 DEF can_lock, TypeOK
  <2> HIDE DEF s
  <2>3. /\ held'[t] = Append(held[t], l) /\ \A u \in Threads : u # t => held'[u] = held[u]
    BY <2>1 DEF TypeOK
  <2>4. /\ Append(held[t], l) \in Seq(Mutexes \X {"read", "write"})
        /\ Len(held'[t]) = j /\ held'[t][j] = l /\ \A i \in 1 .. j - 1 : held'[t][i] = held[t][i]
    BY <1>9, <1>1, <2>3, AppendProperties DEF TypeOK
  <2>5. \A u \in Threads : pc'[u] = IF u = t THEN next ELSE pc[u]
    BY <2>1 DEF TypeOK
  <2>6. TypeOK'
    BY <1>3, <2>1, <2>2, <2>4 DEF TypeOK, Places
  <2>7. HeldInOrder'
    <3> SUFFICES ASSUME NEW u \in Threads, NEW q \in Ops, op[u] = q
                 PROVE  /\ Len(held'[u]) <= Len(locks_of(q))
                        /\ \A i \in 1 .. Len(held'[u]) : held'[u][i] = locks_of(q)[i]
                        /\ pc'[u] = "out" => Len(held'[u]) = 0 /\ q = "get_req_num"
                        /\ pc'[u] \in {"lock", "wait"} => Len(held'[u]) < Len(locks_of(q))
                        /\ pc'[u] \in {"read", "write"} => Len(held'[u]) = Len(locks_of(q))
                        /\ pc'[u] \in {"unlock", "wake", "unlocked"} => Len(held'[u]) > 0
      BY <1>3 DEF HeldInOrder
    <3>1. CASE u # t
      BY <3>1, <2>3, <2>5 DEF HeldInOrder
    <3>2. CASE u = t
      BY <3>2, <1>9, <1>0, <1>1, <2>4, <2>5 DEF HeldInOrder
    <3>. QED BY <3>1, <3>2
  <2>8. \A u \in Threads : u # t => (HasPending(u)' <=> HasPending(u)) /\ (HasUsing(u)' <=> HasUsing(u))
    BY <1>3, <2>3, <2>5 DEF HasPending, HasUsing, Released
  <2>9. /\ HasPending(t)' => HasPending(t) \/ (m = "sigpending" /\ mode = "write")
        /\ HasUsing(t)' => m = "sigusing" /\ mode = "write"
        /\ HasPending(t) => m = "sigusing"
        /\ ~ HasUsing(t)
    <3> HIDE DEF all, l
    <3>1. op[t] = o /\ op'[t] = o /\ pc[t] = "lock" /\ pc'[t] \in {"read", "lock"}
      BY <1>0, <1>1, <1>3, <2>5
    <3>2. PICK k \in Nat : k = Len(held[t])
      BY LenProperties DEF TypeOK
    <3>3. CASE o = "release_signo"
      <4>1. Len(held'[t]) = j /\ Len(held[t]) = j - 1 /\ j \in {1, 2}
        BY <1>9, <1>8, <2>4, <3>2, <3>3
      <4>2. HasPending(t)' /\ (HasPending(t) <=> j = 2) /\ (HasUsing(t)' <=> j = 2) /\ ~ HasUsing(t)
        BY <4>1, <3>1, <3>3 DEF HasPending, HasUsing, Released
      <4>. QED
        BY <4>2, <1>8, <3>3
    <3>4. CASE o = "allocate_signo"
      <4>1. Len(held[t]) = 0
        BY <1>9, <1>6, <3>2, <3>4
      <4>2. ~ HasPending(t) /\ ~ HasPending(t)' /\ ~ HasUsing(t)
        BY <4>1, <3>1, <3>4 DEF HasPending, HasUsing
      <4>. QED
        BY <4>2, <1>6, <3>4
    <3>5. CASE o = "set_ready_signal"
      <4>1. Len(held[t]) = 0
        BY <1>9, <1>7, <3>2, <3>5
      <4>2. ~ HasPending(t) /\ ~ HasUsing(t)' /\ ~ HasUsing(t)
        BY <4>1, <3>1, <3>5 DEF HasPending, HasUsing
      <4>. QED
        BY <4>2, <1>7, <3>5
    <3>6. CASE o \in {"get_ready_signal", "get_req_num"}
      BY <3>1, <3>6 DEF HasPending, HasUsing
    <3>. QED
      BY <3>3, <3>4, <3>5, <3>6 DEF Ops
  <2>10. Exclusive'
    BY <2>2, <2>8, <2>9 DEF Exclusive, Mutexes
  <2>11. SeenCurrent' /\ Callers' /\ Agree'
    BY <1>1, <1>3, <2>5 DEF SeenCurrent, Callers, Started, Agree, NumbersUnique
  <2>. QED
    BY <2>6, <2>7, <2>10, <2>11
<1>5. CASE ~ can_lock(mstate[m], mode)
  <2>1. pc' = [pc EXCEPT ![t] = "wait"] /\ UNCHANGED <<mstate, held>>
    BY <1>0, <1>1, <1>2, <1>5 DEF Lock, Goto
  <2>. QED
    BY <1>1, <1>3, <2>1, SamePlace
<1>. QED
  BY <1>4, <1>5

\* wq_wait_final and wq_wake_next touch nothing but the wait queue.
LEMMA WaitAndWakeStep ==
  ASSUME IndInv, NEW t \in Threads, wq_wait_final(t) \/ Wake(t)
  PROVE  IndInv'
<1>1. UNCHANGED <<mstate, held, op, signo, seen, pending, using, req_nums, poll_times,
                  mine, requested, announced>>
  BY DEF wq_wait_final, Wake, data, book
<1>2. CASE wq_wait_final(t)
  BY <1>1, <1>2, SamePlace DEF wq_wait_final, Goto
<1>3. CASE Wake(t)
  <2>1. PICK l \in {"wake", "unlocked"} : pc[t] = "wake" /\ pc' = [pc EXCEPT ![t] = l]
    BY <1>3 DEF Wake, Goto
  <2>. QED
    BY <1>1, <2>1, SamePlace
<1>. QED
  BY <1>2, <1>3

\* mutex_unlock, mutex_read_unlock: the writer was alone, a reader leaves a
\* count that is not a writer's.
LEMMA UnlockStep ==
  ASSUME IndInv, NEW t \in Threads, Unlock(t)
  PROVE  IndInv'
<1> USE DEF IndInv
<1>0. PICK o \in Ops : o = op[t]
  BY DEF TypeOK
<1>1. PICK k \in Nat : k = Len(held[t])
  BY LenProperties DEF TypeOK
<1> DEFINE l == locks_of(o)[k]
<1>2. /\ pc[t] = "unlock" /\ k > 0 /\ k <= Len(locks_of(o)) /\ l = LastLock(t)
      /\ l \in Mutexes \X {"read", "write"}
  BY <1>0, <1>1, LocksTyped DEF Unlock, HeldInOrder, LastLock, Last
<1>3. PICK m \in Mutexes, mode \in {"read", "write"} : l = <<m, mode>>
  BY <1>2
<1>4. UNCHANGED <<op, signo, seen, held, pending, using, req_nums, poll_times, mine, requested,
                  announced>>
  BY DEF Unlock, data, book
<1>5. CASE mstate[m] = 0 \/ (mode = "read" /\ mstate[m] < 0)
  <2>1. UNCHANGED <<mstate, pc>>
    BY <1>2, <1>3, <1>5 DEF Unlock
  <2>. QED
    BY <1>4, <2>1 DEF TypeOK, HeldInOrder, Exclusive, HasPending, HasUsing, Released, SeenCurrent,
       Callers, Started, Agree, NumbersUnique
<1>6. CASE ~ (mstate[m] = 0 \/ (mode = "read" /\ mstate[m] < 0))
  <2> DEFINE new == IF mode = "read" THEN mstate[m] - 1 ELSE 0
  <2>1. PICK next \in {"wake", "unlocked"} : pc' = [pc EXCEPT ![t] = next]
    BY <1>2, <1>3, <1>6 DEF Unlock, Goto
  <2>2. mstate' = [mstate EXCEPT ![m] = new]
    BY <1>2, <1>3, <1>6 DEF Unlock
  <2>3. /\ new \in Int /\ (mode = "read" => mstate[m] # -1)
        /\ \A n \in Mutexes : mstate'[n] = IF n = m THEN new ELSE mstate[n]
    BY <1>6, <2>2 DEF TypeOK
  <2> HIDE DEF new
  <2>4. \A u \in Threads : pc'[u] = IF u = t THEN next ELSE pc[u]
    BY <2>1 DEF TypeOK
  <2>5. TypeOK'
    BY <1>4, <2>1, <2>2, <2>3 DEF TypeOK, Places
  <2>6. HeldInOrder'
    BY <1>2, <1>4, <2>4 DEF HeldInOrder
  <2>7. \A u \in Threads : u # t => (HasPending(u)' <=> HasPending(u)) /\ (HasUsing(u)' <=> HasUsing(u))
    BY <1>4, <2>4 DEF HasPending, HasUsing, Released
  <2>8. /\ mode = "write" /\ m = "sigpending" => HasPending(t)
        /\ mode = "write" /\ m = "sigusing" => HasUsing(t)
    <3>1. CASE o = "release_signo"
      <4>1. CASE k = 1
        <5>1. HasPending(t)
          BY <1>0, <1>1, <1>2, <3>1, <4>1 DEF HasPending, Released
        <5>2. l = <<"sigpending", "write">>
          BY <3>1, <4>1, LocksOf
        <5>. QED
          BY <5>1, <5>2, <1>3
      <4>2. CASE k = 2
        <5>1. HasUsing(t)
          BY <1>0, <1>1, <1>2, <3>1, <4>2 DEF HasUsing, Released
        <5>2. l = <<"sigusing", "write">>
          BY <3>1, <4>2, LocksOf
        <5>. QED
          BY <5>1, <5>2, <1>3
      <4>. QED
        BY <1>2, <3>1, <4>1, <4>2, LocksOf
    <3>2. ASSUME o # "release_signo" PROVE k = 1
      BY <1>2, <3>2, LocksOf DEF Ops
    <3>3. CASE o = "allocate_signo"
      <4>1. l = <<"sigusing", "write">> /\ HasUsing(t)
        BY <1>0, <1>1, <1>2, <3>2, <3>3, LocksOf DEF HasUsing, Released
      <4>. QED
        BY <4>1, <1>3
    <3>4. CASE o = "set_ready_signal"
      <4>1. l = <<"sigpending", "write">> /\ HasPending(t)
        BY <1>0, <1>1, <1>2, <3>2, <3>4, LocksOf DEF HasPending, Released
      <4>. QED
        BY <4>1, <1>3
    <3>5. CASE o \in {"get_ready_signal", "get_req_num"}
      <4>1. mode = "read"
        BY <1>3, <3>2, <3>5, LocksOf
      <4>. QED
        BY <4>1
    <3>. QED
      BY <3>1, <3>3, <3>4, <3>5 DEF Ops
  <2>9. ~ HasUsing(t)' /\ (HasPending(t)' => HasPending(t) /\ m = "sigusing")
    <3>1. ~ HasUsing(t)' /\ (HasPending(t)' => op[t] = "release_signo" /\ Len(held[t]) = 2)
      BY <1>4, <2>4 DEF HasPending, HasUsing, Released
    <3>2. ASSUME op[t] = "release_signo", Len(held[t]) = 2 PROVE HasPending(t) /\ m = "sigusing"
      <4>1. l = <<"sigusing", "write">>
        BY <1>0, <1>1, <3>2, LocksOf
      <4>. QED
        BY <4>1, <1>3, <3>2 DEF HasPending
    <3>. QED
      BY <3>1, <3>2
  <2>10. Exclusive'
    BY <2>3, <2>7, <2>8, <2>9 DEF Exclusive, Mutexes
  <2>11. SeenCurrent' /\ Callers' /\ Agree'
    BY <1>2, <1>4, <2>4 DEF SeenCurrent, Callers, Started, Agree, NumbersUnique
  <2>. QED
    BY <2>5, <2>6, <2>10, <2>11
<1>. QED
  BY <1>5, <1>6

\* The unlock returns: the next lock is given back, or the function ends.
LEMMA UnlockedStep ==
  ASSUME IndInv, NEW t \in Threads, Unlocked(t)
  PROVE  IndInv'
<1> USE DEF IndInv
<1>0. PICK o \in Ops : o = op[t]
  BY DEF TypeOK
<1>1. PICK k \in Nat : k = Len(held[t])
  BY LenProperties DEF TypeOK
<1>2. pc[t] = "unlocked" /\ k > 0 /\ k <= Len(locks_of(o))
  BY <1>0, <1>1 DEF Unlocked, HeldInOrder
<1>3. UNCHANGED <<mstate, pending, using, req_nums, poll_times, mine, requested, announced>>
  BY DEF Unlocked, data, book
<1>4. /\ held'[t] = Front(held[t]) /\ \A u \in Threads : u # t => held'[u] = held[u]
  BY DEF Unlocked, TypeOK
<1>5. /\ Front(held[t]) \in Seq(Mutexes \X {"read", "write"})
      /\ Len(held'[t]) = k - 1 /\ \A i \in 1 .. k - 1 : held'[t][i] = held[t][i]
  BY <1>1, <1>2, <1>4, SubSeqProperties, ElementOfSeq DEF Front, TypeOK
<1>6. held' = [held EXCEPT ![t] = Front(held[t])]
  BY DEF Unlocked
<1>7. CASE k > 1
  <2>1. pc' = [pc EXCEPT ![t] = "unlock"] /\ UNCHANGED <<op, signo, seen>>
    BY <1>1, <1>7 DEF Unlocked, Goto
  <2>2. \A u \in Threads : pc'[u] = IF u = t THEN "unlock" ELSE pc[u]
    BY <2>1 DEF TypeOK
  <2>3. TypeOK'
    BY <1>3, <1>5, <1>6, <2>1 DEF TypeOK, Places
  <2>4. HeldInOrder'
    <3> SUFFICES ASSUME NEW u \in Threads, NEW q \in Ops, op[u] = q
                 PROVE  /\ Len(held'[u]) <= Len(locks_of(q))
                        /\ \A i \in 1 .. Len(held'[u]) : held'[u][i] = locks_of(q)[i]
                        /\ pc'[u] = "out" => Len(held'[u]) = 0 /\ q = "get_req_num"
                        /\ pc'[u] \in {"lock", "wait"} => Len(held'[u]) < Len(locks_of(q))
                        /\ pc'[u] \in {"read", "write"} => Len(held'[u]) = Len(locks_of(q))
                        /\ pc'[u] \in {"unlock", "wake", "unlocked"} => Len(held'[u]) > 0
      BY <2>1 DEF HeldInOrder
    <3>1. CASE u # t
      BY <3>1, <1>4, <2>2 DEF HeldInOrder
    <3>2. CASE u = t
      <4>1. q = o /\ \A i \in 1 .. k : held[t][i] = locks_of(q)[i]
        BY <3>2, <1>0, <1>1 DEF HeldInOrder
      <4>. QED
        BY <3>2, <4>1, <1>2, <1>5, <1>7, <2>2, LocksTyped
    <3>. QED
      BY <3>1, <3>2
  <2>5. k = 2 /\ o = "release_signo"
    <3>1. o = "release_signo"
      BY <1>2, <1>7, LocksOf DEF Ops
    <3>2. k <= 2
      BY <3>1, <1>2, LocksOf
    <3>. QED
      BY <3>1, <3>2, <1>7
  <2>6. HasPending(t) /\ ~ HasUsing(t)'
    BY <1>0, <1>1, <1>5, <2>1, <2>5 DEF HasPending, HasUsing
  <2>7. \A u \in Threads : u # t => (HasPending(u)' <=> HasPending(u)) /\ (HasUsing(u)' <=> HasUsing(u))
    BY <1>4, <2>1, <2>2 DEF HasPending, HasUsing, Released
  <2>8. Exclusive'
    BY <1>3, <2>6, <2>7 DEF Exclusive
  <2>9. SeenCurrent' /\ Callers' /\ Agree'
    BY <1>3, <2>1, <2>2 DEF SeenCurrent, Callers, Started, Agree, NumbersUnique
  <2>. QED
    BY <2>3, <2>4, <2>8, <2>9
<1>8. CASE k = 1
  <2>1. /\ pc' = [pc EXCEPT ![t] = "out"] /\ op' = [op EXCEPT ![t] = "get_req_num"]
        /\ signo' = [signo EXCEPT ![t] = None] /\ seen' = [seen EXCEPT ![t] = NoRead]
    BY <1>1, <1>8 DEF Unlocked, Goto
  <2>2. \A u \in Threads : /\ pc'[u] = IF u = t THEN "out" ELSE pc[u]
                           /\ op'[u] = IF u = t THEN "get_req_num" ELSE op[u]
                           /\ u # t => signo'[u] = signo[u] /\ seen'[u] = seen[u]
    BY <2>1 DEF TypeOK
  <2>3. NoRead \in Reads
    BY DEF NoRead, Reads
  <2>4. TypeOK'
    BY <1>3, <1>5, <1>6, <2>1, <2>3 DEF TypeOK, Places, Ops
  <2>5. Len(held'[t]) = 0
    BY <1>5, <1>8
  <2>6. HeldInOrder'
    BY <1>4, <2>2, <2>5, LocksOf DEF HeldInOrder
  <2>7. /\ ~ HasPending(t)' /\ ~ HasUsing(t)'
        /\ \A u \in Threads : u # t => (HasPending(u)' <=> HasPending(u)) /\ (HasUsing(u)' <=> HasUsing(u))
    BY <1>4, <2>2 DEF HasPending, HasUsing, Released
  <2>8. Exclusive'
    BY <1>3, <2>7 DEF Exclusive
  <2>9. SeenCurrent' /\ Callers' /\ Agree'
    BY <1>3, <2>2 DEF SeenCurrent, Callers, Started, Agree, NumbersUnique
  <2>. QED
    BY <2>4, <2>6, <2>8, <2>9
<1>. QED
  BY <1>2, <1>7, <1>8

\* The reads of a section.
LEMMA ReadStep ==
  ASSUME IndInv, NEW t \in Threads, Read(t)
  PROVE  IndInv'
<1> USE DEF IndInv
<1>0. PICK o \in Ops : o = op[t]
  BY DEF TypeOK
<1>1. PICK r : r = WhatIsRead(o)
  OBVIOUS
<1>2. /\ pc[t] = "read" /\ pc' = [pc EXCEPT ![t] = "write"] /\ seen' = [seen EXCEPT ![t] = r]
      /\ UNCHANGED <<mstate, held, op, signo, pending, using, req_nums, poll_times,
                     mine, requested, announced>>
  BY <1>0, <1>1 DEF Read, Goto, locks, data, book
<1>3. /\ r \in Reads
      /\ o \in {"release_signo", "set_ready_signal"} => r.pending = pending
      /\ o \in {"allocate_signo", "release_signo"} => r.using = using /\ r.req_nums = req_nums
  BY <1>1, ReadIsCurrent
<1>4. /\ \A u \in Threads : pc'[u] = IF u = t THEN "write" ELSE pc[u]
      /\ seen'[t] = r /\ \A u \in Threads : u # t => seen'[u] = seen[u]
  BY <1>2 DEF TypeOK
<1>5. TypeOK'
  BY <1>2, <1>3 DEF TypeOK, Places
<1>6. HeldInOrder'
  BY <1>2, <1>4 DEF HeldInOrder
<1>7. Exclusive'
  BY <1>2, <1>4 DEF Exclusive, HasPending, HasUsing, Released
<1>8. SeenCurrent'
  BY <1>0, <1>2, <1>3, <1>4 DEF SeenCurrent
<1>9. Callers' /\ Agree'
  BY <1>2, <1>4 DEF Callers, Started, Agree, NumbersUnique
<1>. QED
  BY <1>5, <1>6, <1>7, <1>8, <1>9

\* A writer in its section has its locks, and so nobody else does.
LEMMA WriterAlone ==
  ASSUME IndInv, NEW t \in Threads, pc[t] \in {"read", "write"}
  PROVE  /\ op[t] \in {"release_signo", "set_ready_signal"} => HasPending(t)
         /\ op[t] \in {"allocate_signo", "release_signo"} => HasUsing(t)
<1> USE DEF IndInv
<1>1. PICK o \in Ops : o = op[t]
  BY DEF TypeOK
<1>2. Len(held[t]) = Len(locks_of(o))
  BY <1>1 DEF HeldInOrder
<1>3. CASE o = "release_signo"
  BY <1>1, <1>2, <1>3, LocksOf DEF HasPending, HasUsing, Released
<1>4. CASE o = "allocate_signo"
  BY <1>1, <1>2, <1>4, LocksOf DEF HasUsing, Released
<1>5. CASE o = "set_ready_signal"
  BY <1>1, <1>2, <1>5, LocksOf DEF HasPending, Released
<1>. QED
  BY <1>1, <1>3, <1>4, <1>5

\* The writes of a section: nobody else is about to write the same data.
LEMMA WriteStep ==
  ASSUME IndInv, NEW t \in Threads, Write(t)
  PROVE  IndInv'
<1> USE DEF IndInv
<1>1. /\ pc[t] = "write" /\ pc' = [pc EXCEPT ![t] = "unlock"]
      /\ UNCHANGED <<mstate, held, op, signo, seen>>
  BY DEF Write, Goto, locks
<1>2. \A u \in Threads : pc'[u] = IF u = t THEN "unlock" ELSE pc[u]
  BY <1>1 DEF TypeOK
<1>3. /\ \A u \in Threads : u # t /\ pc[u] = "write" /\ op[u] \in {"release_signo", "set_ready_signal"}
           => op[t] \notin {"release_signo", "set_ready_signal"}
      /\ \A u \in Threads : u # t /\ pc[u] = "write" /\ op[u] \in {"allocate_signo", "release_signo"}
           => op[t] \notin {"allocate_signo", "release_signo"}
  BY <1>1, WriterAlone DEF Exclusive
<1>4. HeldInOrder'
  <2>1. \A o \in Ops : Len(locks_of(o)) > 0
    BY LocksTyped
  <2>. QED
    BY <1>1, <1>2, <2>1 DEF HeldInOrder
<1>5. Exclusive'
  BY <1>1, <1>2 DEF Exclusive, HasPending, HasUsing, Released
<1>6. CASE op[t] = "allocate_signo"
  <2>1. t \in Clients /\ mine[t] = None /\ seen[t].using = using /\ seen[t].req_nums = req_nums
    BY <1>1, <1>6 DEF Callers, Started, SeenCurrent
  <2>2. allocate_signo(t)
    BY <1>6 DEF Write
  <2>3. CASE Signos \ using = {}
    <3>1. UNCHANGED <<pending, using, req_nums, poll_times, mine, requested, announced>>
      BY <2>1, <2>2, <2>3 DEF allocate_signo
    <3>. QED
      BY <1>1, <1>2, <1>4, <1>5, <3>1
      DEF TypeOK, Places, SeenCurrent, Callers, Started, Agree, NumbersUnique
  <2>4. CASE Signos \ using # {}
    <3>1. PICK n : n = Lowest(Signos \ using)
      OBVIOUS
    <3>2. n \in Signos /\ n \notin using
      BY <2>4, <3>1, LowestIsFree
    <3>3. /\ using' = using \cup {n} /\ req_nums' = req_nums + 1
          /\ mine' = [mine EXCEPT ![t] = n] /\ requested' = Append(requested, n)
          /\ UNCHANGED <<pending, poll_times, announced>>
      BY <2>1, <2>2, <2>4, <3>1 DEF allocate_signo
    <3>4. TypeOK'
      <4>1. requested' \in Seq(Signos)
        BY <3>2, <3>3, AppendProperties DEF TypeOK
      <4>2. mine' \in [Clients -> Signos \cup {None}]
        BY <3>2, <3>3 DEF TypeOK
      <4>4. using' \subseteq Signos
        BY <3>2, <3>3 DEF TypeOK
      <4>5. req_nums' \in Int
        BY <3>3 DEF TypeOK
      <4>3. pc' \in [Threads -> Places]
        BY <1>1 DEF TypeOK, Places
      <4>. QED
        BY <1>1, <3>3, <4>1, <4>2, <4>3, <4>4, <4>5 DEF TypeOK
    <3>5. \A c \in Clients : mine'[c] = IF c = t THEN n ELSE mine[c]
      BY <2>1, <3>3 DEF TypeOK
    <3>6. SeenCurrent'
      BY <1>1, <1>2, <1>3, <1>6, <3>3 DEF SeenCurrent
    <3>7. Callers'
      BY <1>1, <1>2, <3>5 DEF Callers, Started
    <3>8. req_nums' = Cardinality(using')
      BY <3>2, <3>3, SignosFinite, FS_AddElement DEF TypeOK, Agree
    <3>9. Agree'
      BY <3>2, <3>3, <3>5, <3>8, NoneIsNoSigno DEF Agree, NumbersUnique
    <3>. QED
      BY <1>4, <1>5, <3>4, <3>6, <3>7, <3>9
  <2>. QED
    BY <2>3, <2>4
<1>7. CASE op[t] = "release_signo"
  <2>1. PICK n : n = signo[t]
    OBVIOUS
  <2>2. /\ t \in Clients /\ n = mine[t] /\ n # None /\ n \in Signos
        /\ seen[t].using = using /\ seen[t].req_nums = req_nums /\ seen[t].pending = pending
    BY <1>1, <1>7, <2>1 DEF Callers, Started, SeenCurrent, TypeOK
  <2>3. release_signo(t)
    BY <1>7 DEF Write
  <2>4. /\ using' = using \ {n} /\ req_nums' = req_nums - 1 /\ pending' = pending \ {n}
        /\ announced' = announced \ {n} /\ mine' = [mine EXCEPT ![t] = None]
        /\ UNCHANGED <<poll_times, requested>>
    BY <2>1, <2>2, <2>3 DEF release_signo
  <2>5. TypeOK'
    <3>1. mine' \in [Clients -> Signos \cup {None}]
      BY <2>4 DEF TypeOK
    <3>3. using' \subseteq Signos /\ pending' \subseteq Signos /\ announced' \subseteq Signos
      BY <2>4 DEF TypeOK
    <3>4. req_nums' \in Int
      BY <2>4 DEF TypeOK
    <3>2. pc' \in [Threads -> Places]
      BY <1>1 DEF TypeOK, Places
    <3>. QED
      BY <1>1, <2>4, <3>1, <3>2, <3>3, <3>4 DEF TypeOK
  <2>6. \A c \in Clients : mine'[c] = IF c = t THEN None ELSE mine[c]
    BY <2>2, <2>4 DEF TypeOK
  <2>7. SeenCurrent'
    BY <1>1, <1>2, <1>3, <1>7, <2>4 DEF SeenCurrent
  <2>8. Callers'
    BY <1>1, <1>2, <2>6 DEF Callers, Started
  <2>9. req_nums' = Cardinality(using')
    <3>1. n \in using /\ req_nums = Cardinality(using)
      BY <2>2 DEF Agree
    <3>2. IsFiniteSet(using)
      BY SignosFinite DEF TypeOK
    <3>. QED
      BY <2>4, <3>1, <3>2, FS_RemoveElement
  <2>10. Agree'
    BY <2>2, <2>4, <2>6, <2>9 DEF Agree, NumbersUnique
  <2>. QED
    BY <1>4, <1>5, <2>5, <2>7, <2>8, <2>10
<1>8. CASE op[t] = "set_ready_signal"
  <2>1. signo[t] \in Signos /\ seen[t].pending = pending
    BY <1>1, <1>8 DEF Callers, SeenCurrent
  <2>2. set_ready_signal(t)
    BY <1>8 DEF Write
  <2>3. /\ pending' = pending \cup {signo[t]} /\ announced' = announced \cup {signo[t]}
        /\ UNCHANGED <<using, req_nums, poll_times, mine, requested>>
    BY <2>1, <2>2 DEF set_ready_signal
  <2>4. TypeOK'
    BY <1>1, <2>1, <2>3 DEF TypeOK, Places
  <2>5. SeenCurrent'
    BY <1>1, <1>2, <1>3, <1>8, <2>3 DEF SeenCurrent
  <2>6. Callers' /\ Agree'
    BY <1>1, <1>2, <2>3 DEF Callers, Started, Agree, NumbersUnique
  <2>. QED
    BY <1>4, <1>5, <2>4, <2>5, <2>6
<1>9. CASE op[t] \in {"get_ready_signal", "get_req_num"}
  <2>1. get_ready_signal(t) \/ get_req_num(t)
    BY <1>9 DEF Write
  <2>2. poll_times' \in Int /\ UNCHANGED <<pending, using, req_nums, mine, requested, announced>>
    BY <2>1 DEF get_ready_signal, get_req_num, data, TypeOK, Reads
  <2>3. TypeOK'
    BY <1>1, <2>2 DEF TypeOK, Places
  <2>4. SeenCurrent' /\ Callers' /\ Agree'
    BY <1>1, <1>2, <2>2 DEF SeenCurrent, Callers, Started, Agree, NumbersUnique
  <2>. QED
    BY <1>4, <1>5, <2>3, <2>4
<1>. QED
  BY <1>6, <1>7, <1>8, <1>9 DEF TypeOK, Ops

\* A thread enters a function.
LEMMA EnterStep ==
  ASSUME IndInv, NEW t \in Threads, NEW o \in Ops, NEW n \in Signos \cup {None},
         pc[t] = "out", pc' = [pc EXCEPT ![t] = "lock"], op' = [op EXCEPT ![t] = o],
         signo' = [signo EXCEPT ![t] = n],
         o \in {"allocate_signo", "release_signo"} => t \in Clients,
         o = "allocate_signo" => mine[t] = None,
         o = "release_signo" => n = mine[t] /\ n # None,
         o = "set_ready_signal" => t = Loop /\ n \in Signos,
         requested' \in Seq(Signos),
         UNCHANGED <<mstate, held, seen, pending, using, req_nums, poll_times, mine, announced>>
  PROVE  IndInv'
<1> USE DEF IndInv
<1>2. \A u \in Threads : /\ pc'[u] = IF u = t THEN "lock" ELSE pc[u]
                         /\ op'[u] = IF u = t THEN o ELSE op[u]
                         /\ signo'[u] = IF u = t THEN n ELSE signo[u]
  BY DEF TypeOK
<1>3. op[t] = "get_req_num" /\ Len(held[t]) = 0
  BY DEF HeldInOrder, TypeOK
<1>4. TypeOK'
  BY DEF TypeOK, Places
<1>5. HeldInOrder'
  <2> SUFFICES ASSUME NEW u \in Threads, NEW q \in Ops, op'[u] = q
               PROVE  /\ Len(held[u]) <= Len(locks_of(q))
                      /\ \A i \in 1 .. Len(held[u]) : held[u][i] = locks_of(q)[i]
                      /\ pc'[u] = "out" => Len(held[u]) = 0 /\ q = "get_req_num"
                      /\ pc'[u] \in {"lock", "wait"} => Len(held[u]) < Len(locks_of(q))
                      /\ pc'[u] \in {"read", "write"} => Len(held[u]) = Len(locks_of(q))
                      /\ pc'[u] \in {"unlock", "wake", "unlocked"} => Len(held[u]) > 0
    BY DEF HeldInOrder
  <2>1. CASE u # t
    BY <2>1, <1>2 DEF HeldInOrder
  <2>2. CASE u = t
    BY <2>2, <1>2, <1>3, LocksTyped
  <2>. QED
    BY <2>1, <2>2
<1>6. Exclusive'
  BY <1>2, <1>3, SMTT(30) DEF Exclusive, HasPending, HasUsing, Released
<1>7. SeenCurrent' /\ Agree'
  BY <1>2 DEF SeenCurrent, Agree, NumbersUnique
<1>8. Callers'
  BY <1>2 DEF Callers, Started
<1>. QED
  BY <1>4, <1>5, <1>6, <1>7, <1>8

\* A client calls a function, or the loop has handled a request.
LEMMA CallStep ==
  ASSUME IndInv, \/ \E c \in Clients, o \in Ops : Call(c, o)
                 \/ LoopReady
  PROVE  IndInv'
<1>1. TypeOK
  BY DEF IndInv
<1>2. ASSUME NEW c \in Clients, NEW o \in Ops, Call(c, o) PROVE IndInv'
  <2>1. c \in Threads /\ requested \in Seq(Signos)
    BY <1>1 DEF Threads, TypeOK
  <2>2. /\ pc[c] = "out" /\ pc' = [pc EXCEPT ![c] = "lock"] /\ op' = [op EXCEPT ![c] = o]
        /\ o = "allocate_signo" => mine[c] = None
        /\ o = "release_signo" => mine[c] \in announced
        /\ o # "set_ready_signal"
        /\ UNCHANGED <<mstate, held, seen, pending, using, req_nums, poll_times, mine, requested,
                       announced>>
    BY <1>2 DEF Call, Goto, locks, data
  <2>3. CASE o = "release_signo"
    <3>1. mine[c] \in Signos /\ mine[c] # None
      BY <1>1, <2>2, <2>3, NoneIsNoSigno DEF TypeOK
    <3>2. signo' = [signo EXCEPT ![c] = mine[c]]
      BY <1>2, <2>3 DEF Call
    <3>. QED
      BY <2>1, <2>2, <2>3, <3>1, <3>2, EnterStep
  <2>4. CASE o # "release_signo"
    <3>1. signo' = [signo EXCEPT ![c] = None]
      BY <1>2, <2>4 DEF Call
    <3>. QED
      BY <2>1, <2>2, <2>4, <3>1, EnterStep
  <2>. QED
    BY <2>3, <2>4
<1>3. CASE LoopReady
  <2>1. Loop \in Threads /\ "set_ready_signal" \in Ops
    BY DEF Threads, Ops
  <2>2. Head(requested) \in Signos /\ Tail(requested) \in Seq(Signos)
    BY <1>1, <1>3, HeadTailProperties DEF LoopReady, TypeOK
  <2>3. /\ pc[Loop] = "out" /\ pc' = [pc EXCEPT ![Loop] = "lock"]
        /\ op' = [op EXCEPT ![Loop] = "set_ready_signal"]
        /\ signo' = [signo EXCEPT ![Loop] = Head(requested)] /\ requested' = Tail(requested)
        /\ UNCHANGED <<mstate, held, seen, pending, using, req_nums, poll_times, mine, announced>>
    BY <1>3 DEF LoopReady, Goto, locks, data
  <2>. QED
    BY <2>1, <2>2, <2>3, EnterStep
<1>. QED
  BY <1>2, <1>3

LEMMA NextIndInv == IndInv /\ [Next]_vars => IndInv'
<1> SUFFICES ASSUME IndInv, [Next]_vars PROVE IndInv'
  OBVIOUS
<1>1. ASSUME NEW t \in Threads, Step(t) PROVE IndInv'
  BY <1>1, LockStep, WaitAndWakeStep, UnlockStep, UnlockedStep, ReadStep, WriteStep DEF Step
<1>2. CASE UNCHANGED vars
  BY <1>2 DEF vars, IndInv, TypeOK, HeldInOrder, Exclusive, HasPending, HasUsing, Released,
              SeenCurrent, Callers, Started, Agree, NumbersUnique
<1>. QED
  BY <1>1, <1>2, CallStep DEF Next

\* The invariant, of which the theorems below are consequences.
THEOREM Inductive == Spec => []IndInv
<1>. QED
  BY InitIndInv, NextIndInv, PTL DEF Spec

\* "req_nums is the number of signal using": the counter of io_signal.h agrees
\* with the bits of sigusing whenever no writer is in its section.
THEOREM NumbersCountedCorrect == Spec => []NumbersCounted
<1>1. IndInv => NumbersCounted
  BY DEF IndInv, Agree, NumbersCounted
<1>. QED
  BY <1>1, Inductive, PTL

\* allocate_signo never gives two clients the same number.
THEOREM NumbersUniqueCorrect == Spec => []NumbersUnique
<1>1. IndInv => NumbersUnique
  BY DEF IndInv, Agree
<1>. QED
  BY <1>1, Inductive, PTL

\* A signal set by the loop stays set until release_signo of its number: neither
\* of the two undoes the other's update of sigpending.
THEOREM SignalsKeptCorrect == Spec => []SignalsKept
<1>1. IndInv => SignalsKept
  BY DEF IndInv, Agree, SignalsKept
<1>. QED
  BY <1>1, Inductive, PTL

=============================================================================
