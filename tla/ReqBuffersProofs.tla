-------------------------- MODULE ReqBuffersProofs --------------------------
(***************************************************************************)
(* Who owns the blocks behind a request, for any number of clients,        *)
(* blocks, signal numbers and requests: nothing dangles, nothing has two   *)
(* owners, and only the known paths leak.                                  *)
(***************************************************************************)
EXTENDS ReqBuffers, SequenceTheorems, TLAPS

-----------------------------------------------------------------------------
(* The inductive invariant. *)

BlockOrNull == Blocks \cup {NULL}
Requests == [kind : AllKinds, in0 : BlockOrNull, n0 : 0 .. 1, in1 : BlockOrNull,
             rlen : 0 .. 1, signo : Signos \cup {NULL}]
Entries == [ret : {"ok", "err"}, len : 0 .. 1, buf : BlockOrNull]
Places == {"out", "malloc0", "malloc1", "signo", "enqueue"}

TypeOK ==
    /\ pc \in [Clients -> Places] /\ req \in [Clients -> Requests]
    /\ queue \in Seq(Requests)
    /\ table \in [Signos -> Entries]
    /\ live \subseteq Blocks /\ ready \subseteq Signos
    /\ badfree \in BOOLEAN

\* The kinds that may come through write_req_with_buffer.
TwoBuffers == {"obj_write", "unsupported"}

\* A secure object's identifier is never empty, a read_req has no buffer, and
\* only write_req_with_buffer has a second one.
WellFormed(r) ==
    /\ r.kind \in {"obj_write", "obj_read"} => r.n0 = 1
    /\ r.kind = "read" => r.n0 = 0
    /\ r.kind \notin TwoBuffers => r.in1 = NULL

\* What each place of a command says of the request it is building.
Shapes ==
    /\ \A c \in Clients :
         /\ WellFormed(req[c])
         /\ pc[c] = "out" => req[c] = NoReq
         /\ pc[c] = "malloc0" => req[c].n0 = 1 /\ req[c].in0 = NULL /\ req[c].in1 = NULL
         /\ pc[c] = "malloc1" => req[c].kind \in TwoBuffers /\ req[c].in1 = NULL
    /\ \A i \in 1 .. Len(queue) : WellFormed(queue[i])

\* What get_data would take from the entry of s.
Result(s) == IF s \in ready /\ table[s].ret = "ok" THEN table[s].buf ELSE NULL

\* A request on its way has a number of its own, whose signal is not set; a
\* length is that of a result which is to be fetched.
Numbers ==
    /\ ready \subseteq using /\ using \subseteq Signos
    /\ \A i \in 1 .. Len(queue) : queue[i].signo \in using \ ready
    /\ \A i, j \in 1 .. Len(queue) : queue[i].signo = queue[j].signo => i = j
    /\ \A c \in Clients : pc[c] = "enqueue" =>
         /\ req[c].signo \in using \ ready
         /\ \A i \in 1 .. Len(queue) : queue[i].signo # req[c].signo
         /\ \A d \in Clients : pc[d] = "enqueue" /\ d # c => req[d].signo # req[c].signo
    /\ \A s \in Signos : table[s].len > 0 => s \in ready /\ table[s].ret = "ok" /\ table[s].buf # NULL

\* OneOwner, block by block.
Apart ==
    /\ \A c, d \in Clients : \A x \in Owned(req[c]) : x \in Owned(req[d]) => c = d
    /\ \A i, j \in 1 .. Len(queue) : \A x \in Owned(queue[i]) : x \in Owned(queue[j]) => i = j
    /\ \A s, u \in Signos : Result(s) = Result(u) /\ Result(s) # NULL => s = u
    /\ \A c \in Clients, i \in 1 .. Len(queue) : \A x \in Owned(req[c]) : x \notin Owned(queue[i])
    /\ \A c \in Clients, s \in Signos : Result(s) \notin Owned(req[c])
    /\ \A i \in 1 .. Len(queue), s \in Signos : Result(s) \notin Owned(queue[i])

IsHeld(x) ==
    \/ \E c \in Clients : x \in Owned(req[c])
    \/ \E i \in 1 .. Len(queue) : x \in Owned(queue[i])
    \/ \E s \in Signos : x = Result(s)

\* The blocks in use are those somebody owns and those that were dropped, which
\* nobody owns any more.
Accounted ==
    /\ lost \cup unfreed \subseteq Blocks
    /\ \A x \in Blocks : /\ x \in live <=> IsHeld(x) \/ x \in lost \cup unfreed
                         /\ ~ (IsHeld(x) /\ x \in lost \cup unfreed)

IndInv ==
    /\ TypeOK /\ Apart /\ handles \subseteq {"info", "success"}
    /\ ~ badfree => Shapes /\ Numbers /\ Accounted

-----------------------------------------------------------------------------
(* Ownership *)

\* A request owns its buffers and nothing else.
LEMMA OwnedBlocks ==
  ASSUME NEW r \in Requests
  PROVE  Owned(r) \subseteq {r.in0, r.in1} /\ NULL \notin Owned(r) /\ Owned(r) \subseteq Blocks
  BY DEF Owned, Requests, BlockOrNull

\* A step of a command that leaves the queue alone: it may have a new block in
\* N, and drops D.
LEMMA ClientOwnership ==
  ASSUME TypeOK, Apart, Accounted, NEW c \in Clients, NEW r \in Requests,
         NEW N \in SUBSET Blocks, NEW D \in SUBSET Blocks,
         req' = [req EXCEPT ![c] = r], UNCHANGED <<queue, table, ready, unfreed>>,
         live' = live \cup N, \A x \in N : x \notin live,
         lost' = lost \cup D,
         \A x \in Blocks : (x \in D \/ x \in Owned(r)) <=> (x \in Owned(req[c]) \/ x \in N),
         \A x \in D : x \notin Owned(r)
  PROVE  Apart' /\ Accounted'
<1>1. \A d \in Clients : req'[d] = IF d = c THEN r ELSE req[d]
  BY DEF TypeOK
<1>2. \A d \in Clients : Owned(req[d]) \subseteq Blocks /\ Owned(req'[d]) \subseteq Blocks
  BY <1>1, OwnedBlocks DEF TypeOK
<1>2a. \A s \in Signos : Result(s)' = Result(s)
  BY DEF Result
<1>3. \A x \in Blocks : x \in N => ~ IsHeld(x)
  BY DEF Accounted
<1>4. Apart'
  <2>1. ASSUME NEW d \in Clients, NEW e \in Clients, NEW x \in Owned(req'[d]), x \in Owned(req'[e])
        PROVE  d = e
    BY <1>1, <1>2, <1>3, <2>1 DEF Apart, IsHeld
  <2>2. ASSUME NEW d \in Clients, NEW x \in Owned(req'[d])
        PROVE  /\ \A i \in 1 .. Len(queue) : x \notin Owned(queue[i])
               /\ \A s \in Signos : Result(s) # x
    <3>1. CASE x \in Owned(req[d])
      BY <3>1 DEF Apart
    <3>2. CASE x \notin Owned(req[d])
      <4>1. x \in N
        BY <1>1, <1>2, <3>2
      <4>. QED
        BY <1>3, <4>1 DEF IsHeld
    <3>. QED
      BY <3>1, <3>2
  <2>3. /\ \A i, j \in 1 .. Len(queue) : \A x \in Owned(queue[i]) : x \in Owned(queue[j]) => i = j
        /\ \A s, u \in Signos : Result(s) = Result(u) /\ Result(s) # NULL => s = u
        /\ \A i \in 1 .. Len(queue), s \in Signos : Result(s) \notin Owned(queue[i])
    BY DEF Apart
  <2>4. /\ \A d, e \in Clients : \A x \in Owned(req'[d]) : x \in Owned(req'[e]) => d = e
        /\ \A d \in Clients, i \in 1 .. Len(queue) : \A x \in Owned(req'[d]) : x \notin Owned(queue[i])
        /\ \A d \in Clients, s \in Signos : Result(s) \notin Owned(req'[d])
    BY <2>1, <2>2
  <2>5. /\ \A s, u \in Signos : Result(s)' = Result(u)' /\ Result(s)' # NULL => s = u
        /\ \A d \in Clients, s \in Signos : Result(s)' \notin Owned(req'[d])
        /\ \A i \in 1 .. Len(queue), s \in Signos : Result(s)' \notin Owned(queue[i])
    BY <1>2a, <2>3, <2>4
  <2>. QED
    BY <2>3, <2>4, <2>5 DEF Apart
<1>5. ASSUME NEW x \in Blocks
      PROVE  IsHeld(x)' <=> IF x \in D THEN FALSE ELSE IsHeld(x) \/ x \in N
  <2>1. x \in D => x \in Owned(req[c]) \/ x \in N
    OBVIOUS
  <2>2. CASE x \in D
    <3>1. \A d \in Clients : d # c => x \notin Owned(req[d])
      BY <1>3, <2>1, <2>2 DEF Apart, IsHeld
    <3>2. /\ \A i \in 1 .. Len(queue) : x \notin Owned(queue[i])
          /\ \A s \in Signos : x # Result(s)
      BY <1>3, <2>1, <2>2 DEF Apart, IsHeld
    <3>. QED
      BY <1>1, <1>2a, <2>2, <3>1, <3>2 DEF IsHeld
  <2>3. CASE x \notin D
    BY <1>1, <1>2a, <2>3 DEF IsHeld
  <2>. QED
    BY <2>2, <2>3
<1>6. Accounted'
  <2>0. lost' \cup unfreed' \subseteq Blocks
    BY DEF Accounted
  <2>1. SUFFICES ASSUME NEW x \in Blocks
                 PROVE  /\ x \in live' <=> IsHeld(x)' \/ x \in lost' \cup unfreed'
                        /\ ~ (IsHeld(x)' /\ x \in lost' \cup unfreed')
    BY <2>0 DEF Accounted
  <2>2. /\ x \in live <=> IsHeld(x) \/ x \in lost \cup unfreed
        /\ ~ (IsHeld(x) /\ x \in lost \cup unfreed)
    BY DEF Accounted
  <2>3. x \in Owned(req[c]) => IsHeld(x)
    BY DEF IsHeld
  <2>4. x \in lost' \cup unfreed' <=> x \in lost \cup unfreed \/ x \in D
    OBVIOUS
  <2>. QED
    BY <1>3, <1>5, <2>2, <2>3, <2>4
<1>. QED
  BY <1>4, <1>6

\* The same when nothing changes hands.
LEMMA QuietOwnership ==
  ASSUME TypeOK, Apart, Accounted, NEW c \in Clients, NEW r \in Requests,
         req' = [req EXCEPT ![c] = r], UNCHANGED <<live, queue, table, ready, lost, unfreed>>,
         Owned(r) = Owned(req[c])
  PROVE  Apart' /\ Accounted'
<1>1. PICK E : E = {}
  OBVIOUS
<1>2. /\ E \in SUBSET Blocks /\ live' = live \cup E /\ lost' = lost \cup E
      /\ \A x \in E : x \notin live /\ x \notin Owned(r)
      /\ \A x \in Blocks : (x \in E \/ x \in Owned(r)) <=> (x \in Owned(req[c]) \/ x \in E)
      /\ UNCHANGED <<queue, table, ready, unfreed>>
  BY <1>1
<1>. QED
  BY <1>2, ClientOwnership

\* enqueue hands what the request owns to the queue.
LEMMA EnqueueOwnership ==
  ASSUME TypeOK, Apart, Accounted, NEW c \in Clients,
         req' = [req EXCEPT ![c] = NoReq], queue' = Append(queue, req[c]),
         UNCHANGED <<table, ready, unfreed, lost, live>>
  PROVE  Apart' /\ Accounted'
<1>1. \A d \in Clients : req'[d] = IF d = c THEN NoReq ELSE req[d]
  BY DEF TypeOK
<1>2. Owned(NoReq) = {}
  BY DEF Owned, NoReq, NewReq
<1>2a. \A s \in Signos : Result(s)' = Result(s)
  BY DEF Result
<1>3. /\ Len(queue) \in Nat /\ Len(queue') = Len(queue) + 1
      /\ queue'[Len(queue) + 1] = req[c] /\ \A i \in 1 .. Len(queue) : queue'[i] = queue[i]
  BY AppendProperties, LenProperties DEF TypeOK
<1>4. \A d \in Clients : \A x \in Owned(req'[d]) : d # c /\ x \in Owned(req[d])
  BY <1>1, <1>2
<1>5. \A i \in 1 .. Len(queue') : \/ i \in 1 .. Len(queue) /\ queue'[i] = queue[i]
                                  \/ i = Len(queue) + 1 /\ queue'[i] = req[c]
  BY <1>3
<1>6. Apart'
  <2>1. ASSUME NEW i \in 1 .. Len(queue'), NEW j \in 1 .. Len(queue'),
               NEW x \in Owned(queue'[i]), x \in Owned(queue'[j])
        PROVE  i = j
    BY <1>5, <2>1 DEF Apart
  <2>2. ASSUME NEW d \in Clients, NEW i \in 1 .. Len(queue'), NEW x \in Owned(req'[d])
        PROVE  x \notin Owned(queue'[i])
    BY <1>4, <1>5 DEF Apart
  <2>3. ASSUME NEW i \in 1 .. Len(queue'), NEW s \in Signos PROVE Result(s) \notin Owned(queue'[i])
    BY <1>5 DEF Apart
  <2>4. \A d, e \in Clients : \A x \in Owned(req'[d]) : x \in Owned(req'[e]) => d = e
    BY <1>4 DEF Apart
  <2>5. \A d \in Clients, s \in Signos : Result(s) \notin Owned(req'[d])
    BY <1>4 DEF Apart
  <2>. QED
    <3>1. /\ \A s, u \in Signos : Result(s)' = Result(u)' /\ Result(s)' # NULL => s = u
          /\ \A d \in Clients, s \in Signos : Result(s)' \notin Owned(req'[d])
          /\ \A i \in 1 .. Len(queue'), s \in Signos : Result(s)' \notin Owned(queue'[i])
      BY <1>2a, <2>3, <2>5 DEF Apart
    <3>. QED
      BY <2>1, <2>2, <2>4, <3>1 DEF Apart
<1>7. ASSUME NEW x \in Blocks PROVE IsHeld(x)' <=> IsHeld(x)
  <2>1. ASSUME NEW d \in Clients, x \in Owned(req[d]) PROVE IsHeld(x)'
    <3>1. CASE d = c
      <4>1. Len(queue) + 1 \in 1 .. Len(queue') /\ x \in Owned(queue'[Len(queue) + 1])
        BY <1>3, <2>1, <3>1
      <4>. QED
        BY <4>1 DEF IsHeld
    <3>2. CASE d # c
      BY <1>1, <2>1, <3>2 DEF IsHeld
    <3>. QED
      BY <3>1, <3>2
  <2>2. ASSUME NEW i \in 1 .. Len(queue), x \in Owned(queue[i]) PROVE IsHeld(x)'
    <3>1. i \in 1 .. Len(queue') /\ queue'[i] = queue[i]
      BY <1>3
    <3>. QED
      BY <2>2, <3>1 DEF IsHeld
  <2>3. IsHeld(x)' => IsHeld(x)
    BY <1>2a, <1>4, <1>5 DEF IsHeld
  <2>. QED
    BY <1>2a, <2>1, <2>2, <2>3 DEF IsHeld
<1>. QED
  BY <1>6, <1>7 DEF Accounted

\* A handler takes the front request, frees S, drops D and leaves in the table
\* either nothing or the block b it has allocated.
LEMMA HandlerOwnership ==
  ASSUME TypeOK, Apart, Accounted, Numbers, queue # << >>,
         NEW r, r = Head(queue), NEW b \in BlockOrNull, b \notin live,
         NEW S \in SUBSET BlockOrNull, NEW D \in SUBSET Blocks,
         queue' = Tail(queue), \A s \in Signos : Result(s)' = IF s = r.signo THEN b ELSE Result(s),
         live' = (live \ S) \cup ({b} \ {NULL}), unfreed' = unfreed \cup D,
         UNCHANGED <<req, lost>>
  PROVE  /\ Apart'
         /\ (\A x \in Blocks : (x \in S \/ x \in D <=> x \in Owned(r)) /\ ~ (x \in S /\ x \in D))
              => Accounted'
<1>1. /\ Len(queue) \in Nat \ {0} /\ Head(queue) = queue[1] /\ Len(queue') = Len(queue) - 1
      /\ \A i \in 1 .. Len(queue') : queue'[i] = queue[i + 1]
  BY HeadTailProperties, EmptySeq, LenProperties DEF TypeOK
<1>2. \A i \in 1 .. Len(queue') : i + 1 \in 1 .. Len(queue) /\ i + 1 # 1 /\ queue'[i] = queue[i + 1]
  BY <1>1
<1>3. 1 \in 1 .. Len(queue) /\ r = queue[1]
  BY <1>1
<1>4. r.signo \in Signos /\ Result(r.signo) = NULL
  BY <1>3 DEF Numbers, Result
<1>5. \A s \in Signos : Result(s)' = IF s = r.signo THEN b ELSE Result(s)
  OBVIOUS
<1>6. b \in Blocks => ~ IsHeld(b)
  BY DEF Accounted
<1>7. \A d \in Clients : Owned(req[d]) \subseteq Blocks /\ NULL \notin Owned(req[d])
  BY OwnedBlocks DEF TypeOK
<1>8. \A i \in 1 .. Len(queue) : Owned(queue[i]) \subseteq Blocks /\ NULL \notin Owned(queue[i])
  BY OwnedBlocks, ElementOfSeq DEF TypeOK
<1>9. /\ \A d \in Clients : b \notin Owned(req[d])
      /\ \A i \in 1 .. Len(queue) : b \notin Owned(queue[i])
      /\ \A s \in Signos : Result(s) = b => b = NULL
  BY <1>6, <1>7, <1>8 DEF IsHeld, BlockOrNull
<1>10. Apart'
  <2>1. \A i, j \in 1 .. Len(queue') : \A x \in Owned(queue'[i]) : x \in Owned(queue'[j]) => i = j
    <3>1. TAKE i, j \in 1 .. Len(queue')
    <3>2. \A x \in Owned(queue[i + 1]) : x \in Owned(queue[j + 1]) => i + 1 = j + 1
      BY <1>2 DEF Apart
    <3>. QED
      BY <1>1, <1>2, <3>2
  <2>2. \A s, u \in Signos : Result(s)' = Result(u)' /\ Result(s)' # NULL => s = u
    BY <1>5, <1>9 DEF Apart
  <2>3. \A d \in Clients, s \in Signos : Result(s)' \notin Owned(req[d])
    BY <1>5, <1>9 DEF Apart
  <2>4. \A i \in 1 .. Len(queue'), s \in Signos : Result(s)' \notin Owned(queue'[i])
    BY <1>2, <1>5, <1>9 DEF Apart
  <2>5. \A d \in Clients, i \in 1 .. Len(queue') : \A x \in Owned(req[d]) : x \notin Owned(queue'[i])
    BY <1>2 DEF Apart
  <2>6. \A d, e \in Clients : \A x \in Owned(req[d]) : x \in Owned(req[e]) => d = e
    BY DEF Apart
  <2>. QED
    BY <2>1, <2>2, <2>3, <2>4, <2>5, <2>6 DEF Apart
<1>11. ASSUME NEW x \in Blocks
       PROVE  IsHeld(x)' <=> x = b \/ (IsHeld(x) /\ x \notin Owned(r))
  <2>0. x # NULL
    BY ReqBuffersAssumption
  <2>1. x = b => IsHeld(x)'
    BY <1>4, <1>5 DEF IsHeld
  <2>2. ASSUME NEW d \in Clients, x \in Owned(req[d]) PROVE IsHeld(x)' /\ x \notin Owned(r)
    BY <1>3, <2>2 DEF IsHeld, Apart
  <2>3. ASSUME NEW i \in 1 .. Len(queue), x \in Owned(queue[i]), x \notin Owned(r) PROVE IsHeld(x)'
    <3>1. i # 1
      BY <1>3, <2>3
    <3>2. i - 1 \in 1 .. Len(queue') /\ queue'[i - 1] = queue[i]
      BY <1>1, <3>1
    <3>. QED
      BY <2>3, <3>2 DEF IsHeld
  <2>4. ASSUME NEW s \in Signos, x = Result(s) PROVE IsHeld(x)' /\ x \notin Owned(r)
    BY <1>3, <1>4, <1>5, <2>0, <2>4 DEF IsHeld, Apart
  <2>5. ASSUME NEW i \in 1 .. Len(queue'), x \in Owned(queue'[i])
        PROVE  IsHeld(x) /\ x \notin Owned(r)
    BY <1>2, <1>3, <2>5 DEF IsHeld, Apart
  <2>6. ASSUME NEW s \in Signos, x = Result(s)', x # b PROVE IsHeld(x) /\ x \notin Owned(r)
    BY <1>3, <1>5, <2>6 DEF IsHeld, Apart
  <2>. QED
    BY <2>1, <2>2, <2>3, <2>4, <2>5, <2>6 DEF IsHeld
<1>12. ASSUME \A x \in Blocks : (x \in S \/ x \in D <=> x \in Owned(r)) /\ ~ (x \in S /\ x \in D)
       PROVE  Accounted'
  <2>0. lost' \cup unfreed' \subseteq Blocks
    BY DEF Accounted
  <2>1. SUFFICES ASSUME NEW x \in Blocks
                 PROVE  /\ x \in live' <=> IsHeld(x)' \/ x \in lost' \cup unfreed'
                        /\ ~ (IsHeld(x)' /\ x \in lost' \cup unfreed')
    BY <2>0 DEF Accounted
  <2>2. x # NULL
    BY ReqBuffersAssumption
  <2>3. x \in Owned(r) => IsHeld(x)
    BY <1>3 DEF IsHeld
  <2>4. /\ x \in live <=> IsHeld(x) \/ x \in lost \cup unfreed
        /\ ~ (IsHeld(x) /\ x \in lost \cup unfreed)
    BY DEF Accounted
  <2>5. (x \in S \/ x \in D <=> x \in Owned(r)) /\ ~ (x \in S /\ x \in D)
    BY <1>12
  <2>6. x \in live' <=> (x \in live /\ x \notin S) \/ x = b
    BY <2>2
  <2>7. x \in lost' \cup unfreed' <=> x \in lost \cup unfreed \/ x \in D
    OBVIOUS
  <2>8. x = b => x \notin live
    OBVIOUS
  <2>. QED
    BY <1>11, <2>3, <2>4, <2>5, <2>6, <2>7, <2>8
<1>. QED
  BY <1>10, <1>12

-----------------------------------------------------------------------------
(* The steps of a command. *)

\* What Shapes says of a request r at place l.
Shape(r, l) ==
    /\ WellFormed(r)
    /\ l = "out" => r = NoReq
    /\ l = "malloc0" => r.n0 = 1 /\ r.in0 = NULL /\ r.in1 = NULL
    /\ l = "malloc1" => r.kind \in TwoBuffers /\ r.in1 = NULL

\* A command goes on to a place before the one with a number of its own.
LEMMA ClientPlaces ==
  ASSUME TypeOK, Shapes, Numbers, NEW c \in Clients, NEW r \in Requests, NEW l \in Places,
         req' = [req EXCEPT ![c] = r], pc' = [pc EXCEPT ![c] = l],
         UNCHANGED <<queue, table, using, ready, badfree>>, live' \subseteq Blocks,
         Shape(r, l), l # "enqueue"
  PROVE  TypeOK' /\ Shapes' /\ Numbers'
<1>1. \A d \in Clients : /\ req'[d] = IF d = c THEN r ELSE req[d]
                         /\ pc'[d] = IF d = c THEN l ELSE pc[d]
  BY DEF TypeOK
<1>2. TypeOK'
  BY DEF TypeOK
<1>3. Shapes'
  BY <1>1 DEF Shapes, Shape
<1>4. Numbers'
  BY <1>1 DEF Numbers
<1>. QED
  BY <1>2, <1>3, <1>4

LEMMA NoReqFacts == NoReq \in Requests /\ Owned(NoReq) = {} /\ WellFormed(NoReq)
  BY DEF NoReq, NewReq, Requests, BlockOrNull, AllKinds, Owned, WellFormed

\* A command returns, and what its request owned is dropped.
LEMMA ReturnStep ==
  ASSUME IndInv, ~ badfree, NEW c \in Clients, Forget(c),
         live' = live, lost' = lost \cup Owned(req[c]),
         UNCHANGED <<queue, using, ready, table, handles, unfreed, badfree>>
  PROVE  IndInv'
<1>1. /\ req' = [req EXCEPT ![c] = NoReq] /\ pc' = [pc EXCEPT ![c] = "out"]
  BY DEF Forget, Goto
<1>2. TypeOK' /\ Shapes' /\ Numbers'
  <2>1. Shape(NoReq, "out") /\ "out" \in Places /\ NoReq \in Requests
    BY NoReqFacts DEF Shape, Places
  <2>2. live' \subseteq Blocks
    BY DEF IndInv, TypeOK
  <2>. QED
    BY <1>1, <2>1, <2>2, ClientPlaces DEF IndInv
<1>3. Apart' /\ Accounted'
  <2>1. Owned(req[c]) \in SUBSET Blocks
    BY OwnedBlocks DEF IndInv, TypeOK
  <2>2. TypeOK /\ Apart /\ Accounted
    BY DEF IndInv
  <2>3. live' = live \cup {}
    OBVIOUS
  <2>4. /\ \A x \in Blocks : (x \in Owned(req[c]) \/ x \in Owned(NoReq)) <=> (x \in Owned(req[c]) \/ x \in {})
        /\ \A x \in Owned(req[c]) : x \notin Owned(NoReq)
    BY NoReqFacts
  <2>5. \A x \in {} : x \notin live
    OBVIOUS
  <2>. QED
    BY <1>1, <2>1, <2>2, <2>3, <2>4, <2>5, NoReqFacts, ClientOwnership
<1>. QED
  BY <1>2, <1>3 DEF IndInv

LEMMA SubmitStep ==
  ASSUME IndInv, ~ badfree, NEW c \in Clients,
         NEW kind \in Kinds, NEW n0 \in 0 .. 1, NEW rlen \in 0 .. 1, Submit(c, kind, n0, rlen)
  PROVE  IndInv'
<1>1. PICK junk \in BlockOrNull :
         /\ n0 = 1 => junk = NULL
         /\ req' = [req EXCEPT ![c] = NewReq(kind, junk, n0, rlen)]
  <2> DEFINE Junk == IF n0 = 0 /\ kind # "read" THEN Blocks \cup {NULL} ELSE {NULL}
  <2>1. PICK j \in Junk : req' = [req EXCEPT ![c] = NewReq(kind, j, n0, rlen)]
    BY Zenon DEF Submit
  <2>2. j \in BlockOrNull /\ (n0 = 1 => j = NULL)
    BY DEF BlockOrNull
  <2>. QED
    BY <2>1, <2>2
<1> DEFINE r == NewReq(kind, junk, n0, rlen)
           l == IF n0 = 0 THEN "signo" ELSE "malloc0"
<1>2. /\ r \in Requests /\ r.kind = kind /\ r.n0 = n0 /\ r.in0 = junk /\ r.in1 = NULL
  <2>1. kind \in AllKinds
    BY ReqBuffersAssumption
  <2>. QED
    BY <1>1, <2>1 DEF Requests, BlockOrNull, NewReq
<1>3. /\ pc' = [pc EXCEPT ![c] = l] /\ pc[c] = "out" /\ (kind \in {"obj_write", "obj_read"} => n0 = 1)
      /\ (kind = "read" => n0 = 0)
      /\ UNCHANGED <<live, queue, using, ready, table, handles, lost, unfreed, badfree>>
  BY DEF Submit, Goto
<1> HIDE DEF r
<1>4. Owned(r) = {}
  BY <1>1, <1>2 DEF Owned
<1>5. Shape(r, l) /\ l \in Places /\ l # "enqueue"
  BY <1>1, <1>2, <1>3 DEF Shape, WellFormed, Places
<1>6. req' = [req EXCEPT ![c] = r]
  BY <1>1 DEF r
<1> HIDE DEF l
<1>7. TypeOK' /\ Shapes' /\ Numbers'
  <2>1. live' \subseteq Blocks
    BY <1>3 DEF IndInv, TypeOK
  <2>. QED
    BY <1>2, <1>3, <1>5, <1>6, <2>1, ClientPlaces DEF IndInv
<1>8. Owned(req[c]) = {}
  BY <1>3, NoReqFacts DEF IndInv, Shapes
<1>9. Apart' /\ Accounted'
  <2>1. TypeOK /\ Apart /\ Accounted
    BY DEF IndInv
  <2>. QED
    BY <1>2, <1>3, <1>4, <1>6, <1>8, <2>1, QuietOwnership
<1>. QED
  BY <1>3, <1>7, <1>9 DEF IndInv

\* malloc gives the request a block nobody has.
LEMMA MallocStep ==
  ASSUME IndInv, ~ badfree, NEW c \in Clients, Malloc0(c) \/ Malloc1(c)
  PROVE  IndInv'
<1> DEFINE Good(r, b, l) ==
      /\ b \in Blocks /\ b \notin live /\ live' = live \cup {b}
      /\ req' = [req EXCEPT ![c] = r] /\ pc' = [pc EXCEPT ![c] = l] /\ r \in Requests
      /\ l \in Places /\ l # "enqueue" /\ Shape(r, l)
      /\ \A x \in Blocks : x \in Owned(r) <=> x \in Owned(req[c]) \/ x = b
      /\ UNCHANGED <<queue, using, ready, table, handles, lost, unfreed, badfree>>
<1>1. \E r, b, l : Good(r, b, l)
  <2>1. CASE Malloc0(c)
    <3>1. PICK b \in Blocks : b \notin live /\ live' = live \cup {b} /\ req' = [req EXCEPT ![c].in0 = b]
      BY <2>1 DEF Malloc0, Malloc
    <3>2. PICK r : r = [req[c] EXCEPT !.in0 = b]
      OBVIOUS
    <3>3. PICK l \in {"malloc1", "signo"} :
            pc' = [pc EXCEPT ![c] = l] /\ (l = "malloc1" => req[c].kind \in TwoBuffers)
      BY <2>1 DEF Malloc0, Goto, TwoBuffers
    <3>4. req[c] \in Requests /\ WellFormed(req[c]) /\ pc[c] = "malloc0"
          /\ req[c].n0 = 1 /\ req[c].in0 = NULL /\ req[c].in1 = NULL
      BY <2>1 DEF Malloc0, IndInv, TypeOK, Shapes
    <3>5. /\ r \in Requests /\ r.kind = req[c].kind /\ r.n0 = 1 /\ r.in0 = b /\ r.in1 = NULL
      BY <3>2, <3>4 DEF Requests, BlockOrNull
    <3>6. req' = [req EXCEPT ![c] = r] /\ pc' = [pc EXCEPT ![c] = l]
          /\ UNCHANGED <<queue, using, ready, table, handles, lost, unfreed, badfree>>
      BY <2>1, <3>1, <3>2, <3>3 DEF Malloc0, Goto
    <3>7. l \in Places /\ l # "enqueue" /\ Shape(r, l)
      BY <3>3, <3>4, <3>5 DEF Places, Shape, WellFormed
    <3>8. \A x \in Blocks : x \in Owned(r) <=> x \in Owned(req[c]) \/ x = b
      BY <3>4, <3>5, ReqBuffersAssumption DEF Owned
    <3>. QED
      BY <3>1, <3>5, <3>6, <3>7, <3>8, ZenonT(40)
  <2>2. CASE Malloc1(c)
    <3>1. PICK b \in Blocks : b \notin live /\ live' = live \cup {b} /\ req' = [req EXCEPT ![c].in1 = b]
      BY <2>2 DEF Malloc1, Malloc
    <3>2. PICK r : r = [req[c] EXCEPT !.in1 = b]
      OBVIOUS
    <3>4. req[c] \in Requests /\ WellFormed(req[c]) /\ pc[c] = "malloc1"
          /\ req[c].kind \in TwoBuffers /\ req[c].in1 = NULL
      BY <2>2 DEF Malloc1, IndInv, TypeOK, Shapes
    <3>5. /\ r \in Requests /\ r.kind = req[c].kind /\ r.n0 = req[c].n0 /\ r.in0 = req[c].in0 /\ r.in1 = b
      BY <3>2, <3>4 DEF Requests, BlockOrNull
    <3>6. req' = [req EXCEPT ![c] = r] /\ pc' = [pc EXCEPT ![c] = "signo"]
          /\ UNCHANGED <<queue, using, ready, table, handles, lost, unfreed, badfree>>
      BY <2>2, <3>1, <3>2 DEF Malloc1, Goto
    <3>7. "signo" \in Places /\ Shape(r, "signo")
      BY <3>4, <3>5 DEF Places, Shape, WellFormed
    <3>8. \A x \in Blocks : x \in Owned(r) <=> x \in Owned(req[c]) \/ x = b
      BY <3>4, <3>5, ReqBuffersAssumption DEF Owned
    <3>. QED
      BY <3>1, <3>5, <3>6, <3>7, <3>8
  <2>. QED
    BY <2>1, <2>2
<1>2. PICK r, b, l : Good(r, b, l)
  BY <1>1
<1>3. TypeOK' /\ Shapes' /\ Numbers'
  <2>1. live' \subseteq Blocks
    BY <1>2 DEF IndInv, TypeOK
  <2>. QED
    BY <1>2, <2>1, ClientPlaces DEF IndInv
<1>4. Apart' /\ Accounted'
  <2>1. TypeOK /\ Apart /\ Accounted
    BY DEF IndInv
  <2>2. /\ live' = live \cup {b} /\ lost' = lost \cup {} /\ {b} \in SUBSET Blocks /\ {} \in SUBSET Blocks
        /\ UNCHANGED <<queue, table, ready, unfreed>> /\ r \in Requests /\ req' = [req EXCEPT ![c] = r]
    BY <1>2
  <2>3. /\ \A x \in Blocks : (x \in {} \/ x \in Owned(r)) <=> (x \in Owned(req[c]) \/ x \in {b})
        /\ \A x \in {} : x \notin Owned(r)
        /\ \A x \in {b} : x \notin live
    BY <1>2
  <2>. QED
    BY <2>1, <2>2, <2>3, ClientOwnership, ZenonT(40)
<1>. QED
  BY <1>2, <1>3, <1>4 DEF IndInv

\* The command returns early: out of memory, or TEE_ERROR_BUSY.
LEMMA EarlyReturnStep ==
  ASSUME IndInv, ~ badfree, NEW c \in Clients, MallocFails(c) \/ Busy(c)
  PROVE  IndInv'
<1>1. Owned(req[c]) \subseteq live
  <2>1. Owned(req[c]) \subseteq Blocks
    BY OwnedBlocks DEF IndInv, TypeOK
  <2>. QED
    BY <2>1 DEF IndInv, Accounted, IsHeld
<1>2. /\ live' = live /\ lost' = lost \cup Owned(req[c]) /\ Forget(c)
      /\ UNCHANGED <<queue, using, ready, table, handles, unfreed, badfree>>
  BY <1>1 DEF MallocFails, Busy, live_after_return
<1>. QED
  BY <1>2, ReturnStep

\* allocate_signo gives the request a number nobody has.
LEMMA SignoStep ==
  ASSUME IndInv, ~ badfree, NEW c \in Clients, AllocateSigno(c)
  PROVE  IndInv'
<1>1. PICK s \in Signos : s \notin using /\ using' = using \cup {s} /\ req' = [req EXCEPT ![c].signo = s]
  BY DEF AllocateSigno
<1>2. PICK r : r = [req[c] EXCEPT !.signo = s]
  OBVIOUS
<1>3. /\ req' = [req EXCEPT ![c] = r] /\ pc' = [pc EXCEPT ![c] = "enqueue"]
      /\ UNCHANGED <<live, queue, ready, table, handles, lost, unfreed, badfree>>
  BY <1>1, <1>2 DEF AllocateSigno, Goto
<1>4. req[c] \in Requests /\ WellFormed(req[c])
  BY DEF IndInv, TypeOK, Shapes
<1>5. /\ r \in Requests /\ r.signo = s /\ r.kind = req[c].kind /\ r.n0 = req[c].n0
      /\ r.in0 = req[c].in0 /\ r.in1 = req[c].in1
  BY <1>2, <1>4 DEF Requests
<1>6. \A d \in Clients : /\ req'[d] = IF d = c THEN r ELSE req[d]
                         /\ pc'[d] = IF d = c THEN "enqueue" ELSE pc[d]
  BY <1>3 DEF IndInv, TypeOK
<1>7. TypeOK'
  BY <1>3, <1>5 DEF IndInv, TypeOK, Places
<1>8. Shapes'
  <2>1. WellFormed(r)
    BY <1>4, <1>5 DEF WellFormed
  <2>. QED
    BY <1>3, <1>6, <2>1 DEF IndInv, Shapes
<1>9. Numbers'
  <2>1. s \notin ready /\ \A i \in 1 .. Len(queue) : queue[i].signo # s
    BY <1>1 DEF IndInv, Numbers
  <2>2. \A d \in Clients : d # c /\ pc[d] = "enqueue" => req[d].signo # s
    BY <1>1 DEF IndInv, Numbers
  <2>. QED
    BY <1>1, <1>3, <1>5, <1>6, <2>1, <2>2 DEF IndInv, Numbers
<1>10. Apart' /\ Accounted'
  <2>1. TypeOK /\ Apart /\ Accounted
    BY DEF IndInv
  <2>2. Owned(r) = Owned(req[c])
    BY <1>5 DEF Owned
  <2>. QED
    BY <1>3, <1>5, <2>1, <2>2, QuietOwnership
<1>. QED
  BY <1>3, <1>7, <1>8, <1>9, <1>10 DEF IndInv

LEMMA EnqueueStep ==
  ASSUME IndInv, ~ badfree, NEW c \in Clients, Enqueue(c)
  PROVE  IndInv'
<1>1. /\ req' = [req EXCEPT ![c] = NoReq] /\ pc' = [pc EXCEPT ![c] = "out"] /\ pc[c] = "enqueue"
      /\ UNCHANGED <<live, using, ready, table, handles, unfreed, badfree>>
  BY DEF Enqueue, Enqueued, Forget, Goto
<1>2. CASE queue' = queue /\ lost' = lost \cup Owned(req[c])
  BY <1>1, <1>2, ReturnStep DEF Forget, Goto
<1>3. CASE queue' = Append(queue, req[c]) /\ UNCHANGED lost
  <2>1. \A d \in Clients : /\ req'[d] = IF d = c THEN NoReq ELSE req[d]
                           /\ pc'[d] = IF d = c THEN "out" ELSE pc[d]
    BY <1>1 DEF IndInv, TypeOK
  <2>2. req[c] \in Requests /\ WellFormed(req[c])
    BY DEF IndInv, TypeOK, Shapes
  <2>3. /\ queue' \in Seq(Requests)
        /\ Len(queue) \in Nat /\ Len(queue') = Len(queue) + 1
        /\ queue'[Len(queue) + 1] = req[c] /\ \A i \in 1 .. Len(queue) : queue'[i] = queue[i]
    BY <1>3, <2>2, AppendProperties, LenProperties DEF IndInv, TypeOK
  <2>4. \A i \in 1 .. Len(queue') : \/ i \in 1 .. Len(queue) /\ queue'[i] = queue[i]
                                    \/ i = Len(queue) + 1 /\ queue'[i] = req[c]
    BY <2>3
  <2>5. TypeOK'
    BY <1>1, <2>3, NoReqFacts DEF IndInv, TypeOK, Places
  <2>6. Shapes'
    <3>1. \A i \in 1 .. Len(queue') : WellFormed(queue'[i])
      BY <2>2, <2>4 DEF IndInv, Shapes
    <3>. QED
      BY <2>1, <3>1, NoReqFacts DEF IndInv, Shapes
  <2>7. Numbers'
    <3>1. /\ req[c].signo \in using \ ready
          /\ \A i \in 1 .. Len(queue) : queue[i].signo # req[c].signo
      BY <1>1 DEF IndInv, Numbers
    <3>2. \A i \in 1 .. Len(queue') : queue'[i].signo \in using \ ready
      BY <2>4, <3>1 DEF IndInv, Numbers
    <3>3. \A i, j \in 1 .. Len(queue') : queue'[i].signo = queue'[j].signo => i = j
      BY <2>4, <3>1 DEF IndInv, Numbers
    <3>4. ASSUME NEW d \in Clients, pc'[d] = "enqueue"
          PROVE  /\ req'[d] = req[d] /\ req[d].signo \in using \ ready
                 /\ \A i \in 1 .. Len(queue') : queue'[i].signo # req[d].signo
                 /\ \A e \in Clients : pc'[e] = "enqueue" /\ e # d => req'[e].signo # req[d].signo
      <4>1. d # c /\ pc[d] = "enqueue" /\ req'[d] = req[d]
        BY <2>1, <3>4
      <4>2. req[c].signo # req[d].signo
        BY <1>1, <4>1 DEF IndInv, Numbers
      <4>. QED
        BY <2>1, <2>4, <4>1, <4>2 DEF IndInv, Numbers
    <3>. QED
      BY <1>1, <3>2, <3>3, <3>4 DEF IndInv, Numbers
  <2>8. Apart' /\ Accounted'
    BY <1>1, <1>3, EnqueueOwnership DEF IndInv
  <2>. QED
    BY <1>1, <2>5, <2>6, <2>7, <2>8 DEF IndInv
<1>. QED
  BY <1>2, <1>3 DEF Enqueue

-----------------------------------------------------------------------------
(* The steps of the loop, and get_data. *)

\* A handler that frees S, drops D and leaves the entry e, with the block b.
LEMMA HandlerStep ==
  ASSUME IndInv, ~ badfree, queue # << >>, NEW r, r = Head(queue),
         NEW e \in Entries, NEW b \in BlockOrNull, b \notin live,
         b = IF e.ret = "ok" THEN e.buf ELSE NULL, e.len > 0 => e.ret = "ok" /\ e.buf # NULL,
         NEW S \in SUBSET BlockOrNull, NEW D \in SUBSET Blocks,
         queue' = Tail(queue), table' = [table EXCEPT ![r.signo] = e],
         ready' = ready \cup {r.signo},
         live' = (live \ S) \cup ({b} \ {NULL}), unfreed' = unfreed \cup D,
         badfree' = ~ (S \ {NULL} \subseteq Owned(r)),
         UNCHANGED <<pc, req, using, lost>>, handles' \subseteq {"info", "success"},
         \A x \in Owned(r) : x \in S \/ x \in D, \A x \in D : x \in Owned(r) /\ x \notin S
  PROVE  IndInv'
<1>1. /\ Len(queue) \in Nat \ {0} /\ Head(queue) = queue[1] /\ Len(queue') = Len(queue) - 1
      /\ queue' \in Seq(Requests)
      /\ \A i \in 1 .. Len(queue') : queue'[i] = queue[i + 1]
  BY HeadTailProperties, EmptySeq, LenProperties DEF IndInv, TypeOK
<1>2. \A i \in 1 .. Len(queue') : i + 1 \in 1 .. Len(queue) /\ i + 1 # 1 /\ queue'[i] = queue[i + 1]
  BY <1>1
<1>3. 1 \in 1 .. Len(queue) /\ r = queue[1]
  BY <1>1
<1>4. r.signo \in Signos /\ r.signo \in using /\ r.signo \notin ready
  BY <1>3 DEF IndInv, Numbers
<1>5. \A s \in Signos : table'[s] = IF s = r.signo THEN e ELSE table[s]
  BY <1>4 DEF IndInv, TypeOK
<1>5a. \A s \in Signos : Result(s)' = IF s = r.signo THEN b ELSE Result(s)
  BY <1>5 DEF Result
<1>6. TypeOK'
  <2>1. live' \subseteq Blocks
    BY DEF IndInv, TypeOK, BlockOrNull
  <2>2. table' \in [Signos -> Entries]
    BY DEF IndInv, TypeOK
  <2>. QED
    BY <1>1, <1>4, <2>1, <2>2 DEF IndInv, TypeOK
<1>7. /\ Apart'
      /\ (\A x \in Blocks : (x \in S \/ x \in D <=> x \in Owned(r)) /\ ~ (x \in S /\ x \in D))
           => Accounted'
  <2>1. TypeOK /\ Apart /\ Accounted /\ Numbers
    BY DEF IndInv
  <2>. QED
    BY <1>5a, <2>1, HandlerOwnership
<1>8. ASSUME ~ badfree' PROVE Accounted'
  <2>1. \A x \in Blocks : x \in S => x \in Owned(r)
    BY <1>8, ReqBuffersAssumption
  <2>. QED
    BY <1>7, <2>1
<1>9. Shapes'
  BY <1>2 DEF IndInv, Shapes
<1>10. Numbers'
  <2>1. \A i \in 1 .. Len(queue') : queue'[i].signo # r.signo
    BY <1>2, <1>3 DEF IndInv, Numbers
  <2>2. \A i \in 1 .. Len(queue') : queue'[i].signo \in using \ ready'
    BY <1>2, <2>1 DEF IndInv, Numbers
  <2>3. \A i, j \in 1 .. Len(queue') : queue'[i].signo = queue'[j].signo => i = j
    <3>1. TAKE i, j \in 1 .. Len(queue')
    <3>2. queue[i + 1].signo = queue[j + 1].signo => i + 1 = j + 1
      BY <1>2 DEF IndInv, Numbers
    <3>. QED
      BY <1>1, <1>2, <3>2
  <2>4. ASSUME NEW c \in Clients, pc[c] = "enqueue"
        PROVE  /\ req[c].signo \in using \ ready'
               /\ \A i \in 1 .. Len(queue') : queue'[i].signo # req[c].signo
    BY <1>2, <1>3, <2>4 DEF IndInv, Numbers
  <2>5. \A s \in Signos : table'[s].len > 0 => s \in ready' /\ table'[s].ret = "ok" /\ table'[s].buf # NULL
    BY <1>5 DEF IndInv, Numbers
  <2>6. ready' \subseteq using /\ using \subseteq Signos
    BY <1>4 DEF IndInv, Numbers
  <2>7. \A c, d \in Clients : pc[c] = "enqueue" /\ pc[d] = "enqueue" /\ d # c => req[d].signo # req[c].signo
    BY DEF IndInv, Numbers
  <2>. QED
    BY <2>2, <2>3, <2>4, <2>5, <2>6, <2>7 DEF Numbers
<1>. QED
  BY <1>6, <1>7, <1>8, <1>9, <1>10 DEF IndInv

\* Every handler is one of those.
LEMMA HandleStep ==
  ASSUME IndInv, ~ badfree, Handle
  PROVE  IndInv'
<1>1. PICK r : r = Head(queue) /\ queue # << >>
  BY DEF Handle, HandleObjWrite, HandleObjReadFails, HandleObjRead, HandleBusWrite, HandleBusWriteRefused,
         HandleRead, HandleUnsupported, HandleSpiGivesUp, HandleSpiNoData, HandleSpi, Serving
<1>2. r \in Requests /\ WellFormed(r) /\ r.signo \in Signos /\ r.signo \notin ready
  <2>1. 1 \in 1 .. Len(queue) /\ r = queue[1] /\ r \in Requests
    BY <1>1, HeadTailProperties, EmptySeq, LenProperties DEF IndInv, TypeOK
  <2>. QED
    BY <2>1 DEF IndInv, Shapes, Numbers
<1>3. /\ Owned(r) \subseteq {r.in0, r.in1} /\ NULL \notin Owned(r) /\ Owned(r) \in SUBSET Blocks
      /\ {r.in0} \in SUBSET BlockOrNull /\ {r.in0, r.in1} \in SUBSET BlockOrNull
      /\ r.rlen \in 0 .. 1
  BY <1>2, OwnedBlocks DEF Requests
<1>4. /\ r.kind \notin TwoBuffers => Owned(r) \subseteq {r.in0}
      /\ r.kind = "read" => Owned(r) = {}
  BY <1>2 DEF WellFormed, Owned, TwoBuffers
<1>5. NULL \notin live /\ NULL \in BlockOrNull
  BY ReqBuffersAssumption DEF IndInv, TypeOK, BlockOrNull
<1>5a. Failed(r.signo) \in Entries /\ Failed(r.signo).ret = "err" /\ Failed(r.signo).len = 0
  <2>1. table[r.signo] \in Entries /\ table[r.signo].len = 0
    BY <1>2 DEF IndInv, TypeOK, Numbers, Entries
  <2>. QED
    BY <2>1 DEF Failed, Entries
<1>5b. \A ret \in {"ok", "err"} : LET e == Entry(ret, 0, NULL)
                                 IN  e \in Entries /\ e.len = 0 /\ e.buf = NULL
  BY <1>5 DEF Entry, Entries
<1>6. ASSUME NEW e \in Entries, e.len = 0, e.ret = "err" \/ e.buf = NULL,
             NEW S \in SUBSET BlockOrNull, NEW D \in SUBSET Blocks, Finish(r, e, S, D),
             \A x \in Owned(r) : x \in S \/ x \in D, \A x \in D : x \in Owned(r) /\ x \notin S,
             handles' \subseteq {"info", "success"}
      PROVE  IndInv'
  <2>1. /\ queue' = Tail(queue) /\ table' = [table EXCEPT ![r.signo] = e]
        /\ ready' = ready \cup {r.signo} /\ unfreed' = unfreed \cup D
        /\ live' = (live \ S) \cup ({NULL} \ {NULL})
        /\ badfree' = ~ (S \ {NULL} \subseteq Owned(r))
        /\ UNCHANGED <<pc, req, using, lost>>
    BY <1>6 DEF Finish, Free
  <2>2. NULL = (IF e.ret = "ok" THEN e.buf ELSE NULL) /\ (e.len > 0 => e.ret = "ok" /\ e.buf # NULL)
    BY <1>6
  <2>. QED
    BY <1>1, <1>5, <1>6, <2>1, <2>2, HandlerStep
<1>7. ASSUME NEW b \in Blocks, NEW len \in 0 .. 1, NEW S \in SUBSET BlockOrNull, FinishWith(r, b, b, len, S),
             \A x \in Owned(r) : x \in S, handles' \subseteq {"info", "success"}
      PROVE  IndInv'
  <2>1. PICK E : E = {}
    OBVIOUS
  <2>2. PICK e : e = Entry("ok", len, b)
    OBVIOUS
  <2>3. /\ queue' = Tail(queue) /\ table' = [table EXCEPT ![r.signo] = e]
        /\ ready' = ready \cup {r.signo} /\ unfreed' = unfreed \cup E
        /\ live' = (live \ S) \cup ({b} \ {NULL}) /\ b \notin live
        /\ badfree' = ~ (S \ {NULL} \subseteq Owned(r))
        /\ UNCHANGED <<pc, req, using, lost>>
    BY <1>7, <2>1, <2>2, ReqBuffersAssumption DEF FinishWith
  <2>4. E \in SUBSET Blocks /\ b \in BlockOrNull /\ \A x \in E : x \in Owned(r) /\ x \notin S
    BY <2>1 DEF BlockOrNull
  <2>5. /\ e \in Entries /\ b = (IF e.ret = "ok" THEN e.buf ELSE NULL)
        /\ e.len > 0 => e.ret = "ok" /\ e.buf # NULL
    BY <2>2, <2>4, ReqBuffersAssumption DEF Entry, Entries
  <2>. QED
    BY <1>1, <1>7, <2>3, <2>4, <2>5, HandlerStep
<1>8. handles \subseteq {"info", "success"}
  BY DEF IndInv
<1>9. CASE HandleObjWrite
  <2>1. (\E ret \in {"ok", "err"} : Finish(r, Entry(ret, 0, NULL), {r.in0, r.in1}, {})) /\ handles' = handles
    BY <1>1, <1>9 DEF HandleObjWrite, obj_write_frees
  <2>. QED
    BY <1>3, <1>5b, <1>6, <1>8, <2>1
<1>10. CASE HandleObjReadFails
  <2>1. /\ Finish(r, Failed(r.signo), {r.in0}, {}) /\ r.kind = "obj_read"
        /\ \E failure \in {"open", "info", "malloc", "read"} :
             handles' = IF failure = "open" \/ closes(failure) THEN handles ELSE handles \cup {failure}
    BY <1>1, <1>10 DEF HandleObjReadFails, Serving
  <2>2. handles' \subseteq {"info", "success"}
    BY <1>8, <2>1 DEF closes
  <2>. QED
    BY <1>3, <1>4, <1>5a, <1>6, <2>1, <2>2 DEF TwoBuffers
<1>11. CASE HandleObjRead
  <2>1. /\ r.kind = "obj_read" /\ handles' = handles \cup {"success"}
        /\ \E b \in Blocks, len \in 0 .. 1 : FinishWith(r, b, b, len, {r.in0})
    BY <1>1, <1>11 DEF HandleObjRead, Serving
  <2>. QED
    BY <1>3, <1>4, <1>7, <1>8, <2>1 DEF TwoBuffers
<1>12. CASE HandleBusWrite
  <2>1. /\ r.kind = "bus_write" /\ handles' = handles
        /\ \E ret \in {"ok", "err"} : Finish(r, Entry(ret, 0, NULL), {r.in0}, {})
    BY <1>1, <1>12 DEF HandleBusWrite, Serving
  <2>. QED
    BY <1>3, <1>4, <1>5b, <1>6, <1>8, <2>1 DEF TwoBuffers
<1>13. CASE HandleBusWriteRefused \/ HandleUnsupported \/ HandleSpiGivesUp
  <2>1. handles' = handles /\ Finish(r, Failed(r.signo), {}, Owned(r))
    BY <1>1, <1>13 DEF HandleBusWriteRefused, HandleUnsupported, HandleSpiGivesUp
  <2>. QED
    BY <1>3, <1>5a, <1>6, <1>8, <2>1
<1>14. CASE HandleRead
  <2>1. /\ r.kind = "read" /\ handles' = handles
        /\ \/ \E b \in Blocks : FinishWith(r, b, b, r.rlen, {})
           \/ Finish(r, Failed(r.signo), {}, {})
    BY <1>1, <1>14 DEF HandleRead, Serving
  <2>2. {} \in SUBSET BlockOrNull /\ {} \in SUBSET Blocks
    OBVIOUS
  <2>3. CASE \E b \in Blocks : FinishWith(r, b, b, r.rlen, {})
    BY <1>3, <1>4, <1>7, <1>8, <2>1, <2>2, <2>3
  <2>4. CASE Finish(r, Failed(r.signo), {}, {})
    BY <1>4, <1>5a, <1>6, <1>8, <2>1, <2>2, <2>4
  <2>. QED
    BY <2>1, <2>3, <2>4
<1>15. CASE HandleSpiNoData
  <2>1. /\ r.kind = "spi" /\ handles' = handles
        /\ \/ Finish(r, Failed(r.signo), {r.in0}, {})
           \/ Finish(r, Entry("ok", 0, NULL), {r.in0}, {})
    BY <1>1, <1>15 DEF HandleSpiNoData, Serving
  <2>. QED
    BY <1>3, <1>4, <1>5a, <1>5b, <1>6, <1>8, <2>1 DEF TwoBuffers
<1>16. CASE HandleSpi
  <2>1. r.kind = "spi" /\ handles' = handles /\ \E b \in Blocks : FinishWith(r, b, b, r.rlen, {r.in0})
    BY <1>1, <1>16 DEF HandleSpi, Serving, spi_result
  <2>. QED
    BY <1>3, <1>4, <1>7, <1>8, <2>1 DEF TwoBuffers
<1>. QED
  BY <1>9, <1>10, <1>11, <1>12, <1>13, <1>14, <1>15, <1>16 DEF Handle

\* get_data releases its number: what it would take, it frees or drops.
LEMMA GetDataStep ==
  ASSUME IndInv, ~ badfree, NEW s \in Signos, GetDataFailed(s) \/ GetDataEmpty(s) \/ GetData(s)
  PROVE  IndInv'
<1>1. /\ s \in ready /\ ready' = ready \ {s} /\ using' = using \ {s}
      /\ UNCHANGED <<pc, req, queue, handles, lost, badfree>>
  BY DEF GetDataFailed, GetDataEmpty, GetData, Release
<1>2. \A u \in Signos : Result(u)' = IF u = s THEN NULL ELSE Result(u)
  <2>1. \A u \in Signos : u # s => table'[u] = table[u]
    BY DEF GetDataFailed, GetDataEmpty, GetData, IndInv, TypeOK
  <2>. QED
    BY <1>1, <2>1 DEF Result
<1>2a. \/ live' = live \ ({Result(s)} \ {NULL}) /\ unfreed' = unfreed
       \/ live' = live /\ unfreed' = unfreed \cup ({Result(s)} \ {NULL})
  <2>1. CASE GetDataFailed(s)
    BY <2>1 DEF GetDataFailed, Result
  <2>2. CASE GetDataEmpty(s)
    BY <2>2 DEF GetDataEmpty, Result
  <2>3. CASE GetData(s)
    BY <2>3, ReqBuffersAssumption DEF GetData, Result, result_freed, IndInv, TypeOK
  <2>. QED
    BY <2>1, <2>2, <2>3
<1>2b. /\ table' \in [Signos -> Entries]
       /\ \A u \in Signos : table'[u] = table[u] \/ (u = s /\ table'[u].len = 0)
       /\ table'[s].len = 0
  <2>1. table \in [Signos -> Entries] /\ table[s] \in Entries
    BY DEF IndInv, TypeOK
  <2>2. CASE GetDataFailed(s)
    BY <2>1, <2>2 DEF GetDataFailed, IndInv, Numbers, Entries
  <2>3. CASE GetDataEmpty(s)
    BY <2>1, <2>3 DEF GetDataEmpty
  <2>4. CASE GetData(s)
    BY <2>1, <2>4 DEF GetData, Entry, Entries, len_reset
  <2>. QED
    BY <2>2, <2>3, <2>4
<1>3. TypeOK'
  BY <1>1, <1>2a, <1>2b DEF IndInv, TypeOK
<1>4. Shapes'
  BY <1>1 DEF IndInv, Shapes
<1>5. Numbers'
  BY <1>1, <1>2b DEF IndInv, Numbers
<1>6. /\ \A d \in Clients : NULL \notin Owned(req[d])
      /\ \A i \in 1 .. Len(queue) : NULL \notin Owned(queue[i])
  BY OwnedBlocks, ElementOfSeq DEF IndInv, TypeOK
<1>7. Apart'
  <2>1. \A u, v \in Signos : Result(u)' = Result(v)' /\ Result(u)' # NULL => u = v
    BY <1>2 DEF IndInv, Apart
  <2>2. \A d \in Clients, u \in Signos : Result(u)' \notin Owned(req[d])
    BY <1>2, <1>6 DEF IndInv, Apart
  <2>3. \A i \in 1 .. Len(queue), u \in Signos : Result(u)' \notin Owned(queue[i])
    BY <1>2, <1>6 DEF IndInv, Apart
  <2>4. /\ \A c, d \in Clients : \A x \in Owned(req[c]) : x \in Owned(req[d]) => c = d
        /\ \A i, j \in 1 .. Len(queue) : \A x \in Owned(queue[i]) : x \in Owned(queue[j]) => i = j
        /\ \A c \in Clients, i \in 1 .. Len(queue) : \A x \in Owned(req[c]) : x \notin Owned(queue[i])
    BY DEF IndInv, Apart
  <2>. QED
    BY <1>1, <2>1, <2>2, <2>3, <2>4 DEF Apart
<1>8. Accounted'
  <2>0. lost' \cup unfreed' \subseteq Blocks
    <3>1. {Result(s)} \ {NULL} \subseteq Blocks
      BY DEF IndInv, TypeOK, Entries, BlockOrNull, Result
    <3>. QED
      BY <1>1, <1>2a, <3>1 DEF IndInv, Accounted
  <2>1. SUFFICES ASSUME NEW x \in Blocks
                 PROVE  /\ x \in live' <=> IsHeld(x)' \/ x \in lost' \cup unfreed'
                        /\ ~ (IsHeld(x)' /\ x \in lost' \cup unfreed')
    BY <2>0 DEF Accounted
  <2>2. x # NULL
    BY ReqBuffersAssumption
  <2>3. IsHeld(x)' <=> IsHeld(x) /\ x # Result(s)
    <3>1. x = Result(s) => ~ IsHeld(x)'
      BY <1>1, <1>2, <2>2 DEF IsHeld, IndInv, Apart
    <3>2. x # Result(s) => (IsHeld(x)' <=> IsHeld(x))
      BY <1>1, <1>2, <2>2 DEF IsHeld
    <3>3. x = Result(s) => IsHeld(x)
      BY DEF IsHeld
    <3>. QED
      BY <3>1, <3>2, <3>3
  <2>4. /\ x \in live <=> IsHeld(x) \/ x \in lost \cup unfreed
        /\ ~ (IsHeld(x) /\ x \in lost \cup unfreed)
    BY DEF IndInv, Accounted
  <2>5. \/ (x \in live' <=> x \in live /\ x # Result(s)) /\ unfreed' = unfreed
        \/ live' = live /\ (x \in unfreed' <=> x \in unfreed \/ x = Result(s))
    BY <1>2a, <2>2
  <2>6. x = Result(s) => IsHeld(x)
    BY DEF IsHeld
  <2>. QED
    BY <1>1, <2>3, <2>4, <2>5, <2>6
<1>. QED
  BY <1>1, <1>3, <1>4, <1>5, <1>7, <1>8 DEF IndInv

-----------------------------------------------------------------------------

LEMMA InitIndInv == Init => IndInv
<1> SUFFICES ASSUME Init PROVE IndInv
  OBVIOUS
<1>1. TypeOK
  <2>1. [ret |-> "ok", len |-> 0, buf |-> NULL] \in Entries
    BY DEF Entries, BlockOrNull
  <2>. QED
    BY <2>1, NoReqFacts, EmptySeq DEF Init, TypeOK, Places
<1>2. \A i \in 1 .. Len(queue) : FALSE
  BY EmptySeq DEF Init
<1>3. \A c \in Clients : Owned(req[c]) = {} /\ req[c] = NoReq /\ pc[c] = "out"
  BY NoReqFacts DEF Init
<1>4. \A s \in Signos : Result(s) = NULL /\ table[s].len = 0
  BY DEF Init, Result
<1>5. Apart
  BY <1>2, <1>3, <1>4 DEF Apart
<1>6. Shapes /\ Numbers
  BY <1>2, <1>3, <1>4, NoReqFacts DEF Init, Shapes, Numbers
<1>7. Accounted
  BY <1>2, <1>3, <1>4, ReqBuffersAssumption DEF Init, Accounted, IsHeld
<1>. QED
  BY <1>1, <1>5, <1>6, <1>7 DEF Init, IndInv

LEMMA NextIndInv == IndInv /\ [Next]_vars => IndInv'
<1> SUFFICES ASSUME IndInv, [Next]_vars PROVE IndInv'
  OBVIOUS
<1>1. CASE UNCHANGED vars
  BY <1>1 DEF vars, IndInv, TypeOK, Apart, Shapes, Numbers, Accounted, IsHeld, Result
<1>2. CASE Next
  BY <1>2, SubmitStep, MallocStep, EarlyReturnStep, SignoStep, EnqueueStep, HandleStep, GetDataStep
     DEF Next
<1>. QED
  BY <1>1, <1>2

\* The invariant, of which the theorems below are consequences.
THEOREM Inductive == Spec => []IndInv
  BY InitIndInv, NextIndInv, PTL DEF Spec

\* What the blocks of the invariant are in the sets of the properties.
LEMMA HeldBlocks ==
  ASSUME IndInv
  PROVE  /\ \A x : x \in Held <=> x # NULL /\ IsHeld(x)
         /\ Held \subseteq Blocks
<1>1. \A d \in Clients : Owned(req[d]) \subseteq Blocks /\ NULL \notin Owned(req[d])
  BY OwnedBlocks DEF IndInv, TypeOK
<1>2. \A i \in 1 .. Len(queue) : Owned(queue[i]) \subseteq Blocks /\ NULL \notin Owned(queue[i])
  BY OwnedBlocks, ElementOfSeq DEF IndInv, TypeOK
<1>3. PICK B : B = UNION Building
  OBVIOUS
<1>3a. \A x : x \in B <=> \E d \in Clients : x \in Owned(req[d])
  BY <1>3 DEF Building
<1>4. PICK Q : Q = UNION Queued
  OBVIOUS
<1>4a. \A x : x \in Q <=> \E i \in 1 .. Len(queue) : x \in Owned(queue[i])
  BY <1>4 DEF Queued
<1>5. \A x : x \in Results <=> x # NULL /\ \E s \in Signos : x = Result(s)
  BY DEF Results, Fetchable, Result, IndInv, TypeOK
<1>6. Held = Q \cup B \cup Results
  BY <1>3, <1>4, Zenon DEF Held
<1>7. \A x : x \in Held <=> x # NULL /\ IsHeld(x)
  BY <1>1, <1>2, <1>3a, <1>4a, <1>5, <1>6 DEF IsHeld
<1>8. \A s \in Signos : Result(s) # NULL => Result(s) \in Blocks
  BY DEF IndInv, TypeOK, BlockOrNull, Entries, Result
<1>. QED
  BY <1>1, <1>2, <1>7, <1>8 DEF IsHeld

\* No handler and no get_data touches a block that has been freed, although
\* entries go on pointing to such blocks: their length says so. (As long as no
\* handler has freed the pointer of an empty write.)
THEOREM NoDanglingCorrect == Spec => []NoDanglingBuffer
<1>1. ASSUME IndInv, ~ badfree
      PROVE  /\ Held \subseteq live
             /\ \A s \in Signos : table[s].len > 0 => s \in Fetchable /\ table[s].buf \in live
  <2>1. Held \subseteq live
    BY <1>1, HeldBlocks DEF IndInv, Accounted
  <2>2. ASSUME NEW s \in Signos, table[s].len > 0 PROVE s \in Fetchable /\ table[s].buf \in Held
    <3>1. s \in ready /\ table[s].ret = "ok" /\ table[s].buf # NULL
      BY <1>1, <2>2 DEF IndInv, Numbers
    <3>2. IsHeld(table[s].buf)
      BY <3>1 DEF IsHeld, Result
    <3>. QED
      BY <1>1, <3>1, <3>2, HeldBlocks DEF Fetchable
  <2>. QED
    BY <2>1, <2>2
<1>2. IndInv => NoDanglingBuffer
  BY <1>1 DEF NoDanglingBuffer
<1>. QED
  BY <1>2, Inductive, PTL

\* Two requests, or a request and a result, never share a block.
THEOREM OneOwnerCorrect == Spec => []OneOwner
<1>1. ASSUME IndInv PROVE OneOwner
  <2>1. PICK B : B = UNION Building
    OBVIOUS
  <2>1a. \A x : x \in B <=> \E d \in Clients : x \in Owned(req[d])
    BY <2>1 DEF Building
  <2>2. PICK Q : Q = UNION Queued
    OBVIOUS
  <2>2a. \A x : x \in Q <=> \E i \in 1 .. Len(queue) : x \in Owned(queue[i])
    BY <2>2 DEF Queued
  <2>3. \A x : x \in Results <=> x # NULL /\ \E s \in Signos : x = Result(s)
    BY <1>1 DEF Results, Fetchable, Result, IndInv, TypeOK
  <2>4. Apart
    BY <1>1 DEF IndInv
  <2>5. ASSUME NEW c \in Clients, NEW d \in Clients, c # d
        PROVE  Owned(req[c]) \cap Owned(req[d]) = {}
    <3>1. \A x \in Owned(req[c]) : x \notin Owned(req[d])
      BY <2>4, <2>5 DEF Apart
    <3>. QED
      BY <3>1
  <2>6. ASSUME NEW i \in 1 .. Len(queue), NEW j \in 1 .. Len(queue), i # j
        PROVE  Owned(queue[i]) \cap Owned(queue[j]) = {}
    <3>1. \A x \in Owned(queue[i]) : x \notin Owned(queue[j])
      BY <2>4, <2>6 DEF Apart
    <3>. QED
      BY <3>1
  <2>7. Q \cap B = {}
    BY <2>1a, <2>2a, <2>4 DEF Apart
  <2>8. (Q \cup B) \cap Results = {}
    BY <2>1a, <2>2a, <2>3, <2>4 DEF Apart
  <2>9. \A s, u \in Fetchable : (s # u /\ table[s].buf = table[u].buf) => table[s].buf = NULL
    BY <1>1, <2>4 DEF Apart, Fetchable, Result, IndInv, TypeOK
  <2>. QED
    BY <2>1, <2>2, <2>5, <2>6, <2>7, <2>8, <2>9, Zenon DEF OneOwner
<1>2. IndInv => OneOwner
  BY <1>1
<1>. QED
  BY <1>2, Inductive, PTL

\* Only the paths that are known to drop a block leave one behind, and only a
\* read that succeeds or whose get_info fails an open object.
THEOREM NothingElseLeftCorrect == Spec => []NothingElseLeft
<1>1. IndInv => NothingElseLeft
  <2> SUFFICES ASSUME IndInv PROVE NothingElseLeft
    OBVIOUS
  <2>1. ASSUME ~ badfree PROVE live = Held \cup lost \cup unfreed
    <3>1. live \subseteq Blocks /\ lost \cup unfreed \subseteq Blocks /\ Accounted
      BY <2>1 DEF IndInv, TypeOK, Accounted
    <3>2. ASSUME NEW x \in Blocks PROVE x \in live <=> x \in Held \/ x \in lost \cup unfreed
      BY <3>1, HeldBlocks, ReqBuffersAssumption DEF Accounted
    <3>. QED
      BY <3>1, <3>2, HeldBlocks
  <2>. QED
    BY <2>1 DEF IndInv, NothingElseLeft
<1>. QED
  BY <1>1, Inductive, PTL

=============================================================================
