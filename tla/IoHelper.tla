------------------------------ MODULE IoHelper ------------------------------
(***************************************************************************)
(* One peripheral of the IO helper pseudo-TA: its signal numbers, its      *)
(* request queue, the loop thread that serves it and the client threads    *)
(* that call its commands concurrently (TA_FLAG_CONCURRENT).               *)
(*                                                                         *)
(* State of the code                                                       *)
(*   sigusing, sigpending   the two bitmaps, as sets of signal numbers     *)
(*   req_nums               the uint32_t counter, modulo CounterMod        *)
(*   queue                  req_queues[periph_no]                          *)
(*   table                  io_helper_signal_table[periph_no]; the field   *)
(*                          req is history: whose handler wrote ret last   *)
(*   heap                   the result buffers malloc'ed and not freed     *)
(*   lpc, lreq              the loop: where it is, the request it serves   *)
(*   cpc, csig, creq        a client: where its command is, its arguments  *)
(*   polled, mine           what poll answered it; the numbers it was given*)
(*                          and whose result it has not taken              *)
(* History: owner, issued, got, served.                                    *)
(*                                                                         *)
(* A mutex-protected section is one step. What the code does outside every *)
(* mutex (the body of get_data) is split at each access that another       *)
(* thread could separate. A length is 0 or 1 (some bytes). The counters    *)
(* kept "for test" (poll_times) and the request's input buffers are left   *)
(* out. The first START_LOOP has passed its initialisations (module        *)
(* QueueSync is about those).                                              *)
(***************************************************************************)
EXTENDS Integers, Sequences, FiniteSets

CONSTANTS
    Clients,    \* threads that invoke commands of the PTA
    ByPoll,     \* those that take whatever number poll answers (callbacks)
    NSubSig,    \* N_SUB_SIG, the signal numbers of a peripheral
    Kinds,      \* the families of requests that are submitted
    MallocFails,\* may malloc return NULL?
    CounterMod, \* req_nums is modulo this (2^32 in the code)
    MaxReq,     \* bound: requests accepted in one behaviour
    NoSig       \* not a signal number

Signos == 0 .. NSubSig - 1
AllKinds == {"read", "write", "object", "spi", "unsupported"}

ASSUME ConstantsAssumption ==
    /\ NSubSig \in Nat \ {0}
    /\ CounterMod \in Nat /\ CounterMod > NSubSig
    /\ MaxReq \in Nat
    /\ Kinds \subseteq AllKinds
    /\ ByPoll \subseteq Clients
    /\ MallocFails \in BOOLEAN
    /\ NoSig \notin Signos

VARIABLES sigusing, sigpending, req_nums, queue, table, heap, lpc, lreq,
          cpc, csig, creq, polled, mine, owner, issued, got, served

sigvars == <<sigusing, sigpending, req_nums>>
loopvars == <<lpc, lreq>>
tabvars == <<table, heap>>
callvars == <<cpc, csig, creq>>
ghosts == <<owner, issued, got, served>>
vars == <<sigvars, queue, tabvars, loopvars, callvars, polled, mine, ghosts>>

-----------------------------------------------------------------------------
(* Data *)

NULL == [id |-> 0, len |-> 0]
Block(i, n) == [id |-> i, len |-> n]
Request(i, s, k, c) == [id |-> i, signo |-> s, kind |-> k, by |-> c]

Blocks == [id : Nat, len : {0, 1}]
Requests == [id : Nat, signo : Signos, kind : AllKinds, by : Clients]
Entries == [ret : {"ok", "err"}, len : {0, 1}, buf : Blocks, req : Nat]

\* Where a client is inside a command; "idle" is outside every command.
ClientPc == {"idle", "enqueue", "pollnum", "pollsub",
             "table", "free", "reset", "release"}
LoopPc == {"check", "wait", "handle", "ready"}

NoRequest == [id |-> 0]

\* __builtin_ffsll(bits) - 1, for a bitmap that is not zero.
Lowest(bits) == CHOOSE s \in bits : \A t \in bits : s <= t

\* A definition whose comment says "Mutant" is not part of the model: it is a
\* plausible mistake in the definition that follows it, and the property named
\* beside it in PROJECT.json must catch it.

Init ==
    /\ sigusing = {} /\ sigpending = {} /\ req_nums = 0
    /\ queue = << >>
    /\ table = [s \in Signos |-> [ret |-> "ok", len |-> 0, buf |-> NULL, req |-> 0]]
    /\ heap = {}
    /\ lpc = "check" /\ lreq = NoRequest
    /\ cpc = [c \in Clients |-> "idle"]
    /\ csig = [c \in Clients |-> NoSig]
    /\ creq = [c \in Clients |-> NoRequest]
    /\ polled = [c \in Clients |-> NoSig]
    /\ mine = [c \in Clients |-> {}]
    /\ owner = [s \in Signos |-> NoRequest]
    /\ issued = 0
    /\ got = [c \in Clients |-> 0]
    /\ served = {}

-----------------------------------------------------------------------------
(* io_signal.h, io_req.c: what each helper does under its mutex *)

is_using_signo(s) == s \in sigusing

\* Mutant: the check is left out.
ready_unchecked(s) == TRUE
is_ready_signal(s) == s \in sigpending

\* Mutant: only a request that succeeded is announced.
set_ready_if_ok(bits, s) == IF table[s].ret = "ok" THEN bits \cup {s} ELSE bits
set_ready_signal(bits, s) == bits \cup {s}

\* get_ready_signal leaves the bit it answers; "when data was taked, clear".
bits_after_poll(bits) == bits

\* Mutant: the number after the last one in use, whatever was released before.
after_last_used ==
    Lowest({n \in 0 .. NSubSig : \A s \in sigusing : s < n})
lowest_free == Lowest(Signos \ sigusing)

\* Mutant: the counter is not incremented.
req_nums_same(n) == n
req_nums_inc(n) == (n + 1) % CounterMod

\* Mutant: the counter is not decremented.
req_nums_kept(n) == n
req_nums_dec(n) == (n - 1) % CounterMod

\* Mutant: the ready bit survives the release.
pending_kept(bits, s) == bits
pending_released(bits, s) == bits \ {s}

\* Mutant: a stack instead of a queue.
push_front(q, r) == <<r>> \o q
enqueue(q, r) == Append(q, r)

\* condvar_signal: a waiting loop goes back to test the queue.
\* Mutant: the signal is left out.
not_signalled(pc) == pc
condvar_signal(pc) == IF pc = "wait" THEN "check" ELSE pc

-----------------------------------------------------------------------------
(* Submitting: read_req, read_req_with_buffer, write_req,                   *)
(* write_req_with_buffer. They differ in the buffers they copy; all four    *)
(* allocate a number and enqueue under the queue mutex.                     *)

\* allocate_signo succeeds. (When every number is in use the command answers
\* TEE_ERROR_BUSY and changes none of this state.)
AllocateSigno(c, k) ==
    /\ cpc[c] = "idle"
    /\ issued < MaxReq
    /\ sigusing # Signos
    /\ LET s == lowest_free
           r == Request(issued + 1, s, k, c)
       IN  /\ sigusing' = sigusing \cup {s}
           /\ creq' = [creq EXCEPT ![c] = r]
           /\ owner' = [owner EXCEPT ![s] = r]
    /\ req_nums' = req_nums_inc(req_nums)
    /\ cpc' = [cpc EXCEPT ![c] = "enqueue"]
    /\ issued' = issued + 1
    /\ UNCHANGED <<sigpending, queue, tabvars, loopvars, csig, polled, mine,
                   got, served>>

\* The section under the queue mutex. The result of enqueue is ignored: when
\* malloc of the node fails nothing is queued, and the command still signals
\* the loop and answers TEE_SUCCESS with the number.
Enqueue(c) ==
    /\ cpc[c] = "enqueue"
    /\ \/ queue' = enqueue(queue, creq[c])
       \/ MallocFails /\ queue' = queue
    /\ lpc' = condvar_signal(lpc)
    /\ mine' = [mine EXCEPT ![c] = @ \cup {creq[c].signo}]
    /\ cpc' = [cpc EXCEPT ![c] = "idle"]
    /\ creq' = [creq EXCEPT ![c] = NoRequest]
    /\ UNCHANGED <<sigvars, tabvars, lreq, csig, polled, ghosts>>

-----------------------------------------------------------------------------
(* The loop of start_loop *)

\* With the queue mutex held: wait on the condvar while the queue is empty.
LoopWait ==
    /\ lpc = "check" /\ queue = << >>
    /\ lpc' = "wait"
    /\ UNCHANGED <<sigvars, queue, tabvars, lreq, callvars, polled, mine, ghosts>>

\* Otherwise take the oldest request and release the mutex.
LoopDequeue ==
    /\ lpc = "check" /\ queue # << >>
    /\ lreq' = Head(queue)
    /\ queue' = Tail(queue)
    /\ lpc' = "handle"
    /\ UNCHANGED <<sigvars, tabvars, callvars, polled, mine, ghosts>>

\* A handler that fails writes only ret and leaves what it finds in len, buf.
Failed(e, r) == [e EXCEPT !.ret = "err", !.req = r.id]
Done(x, n, b, r) == [ret |-> x, len |-> n, buf |-> b, req |-> r.id]

\* Sensors, positioning module, fingerprint upload: some bytes or an error.
ReadResults(e, r) ==
    {Failed(e, r), Done("ok", 1, Block(r.id, 1), r)}

\* Object and EEPROM writes, bus writes, fingerprint capture: every field is
\* written whatever the outcome, except when i2c_acquire fails.
WriteResults(e, r) ==
    {Failed(e, r), Done("ok", 0, NULL, r), Done("err", 0, NULL, r)}

\* Reading a secure object, a bus or an EEPROM: the object's size, or the length
\* the application asks for, may be 0, and malloc(0) is not NULL.
ObjectResults(e, r) ==
    {Failed(e, r), Done("ok", 1, Block(r.id, 1), r),
                   Done("ok", 0, Block(r.id, 0), r)}

\* A SPI transfer with or without bytes to read.
SpiResults(e, r) ==
    {Failed(e, r), Done("ok", 1, Block(r.id, 1), r), Done("ok", 0, NULL, r)}

\* What the handler of r may leave in the table entry e of its number.
handle_req(e, r) ==
    CASE r.kind = "read"        -> ReadResults(e, r)
      [] r.kind = "write"       -> WriteResults(e, r)
      [] r.kind = "object"      -> ObjectResults(e, r)
      [] r.kind = "spi"         -> SpiResults(e, r)
      [] r.kind = "unsupported" -> {Failed(e, r)}

\* The buffer a handler's outcome hands over to the table.
NewBlocks(e, r) == {b \in {e.buf} : b.id = r.id}

LoopHandle ==
    /\ lpc = "handle"
    /\ \E e \in handle_req(table[lreq.signo], lreq) :
          /\ table' = [table EXCEPT ![lreq.signo] = e]
          /\ heap' = heap \cup NewBlocks(e, lreq)
    /\ lpc' = "ready"
    /\ UNCHANGED <<sigvars, queue, lreq, callvars, polled, mine, ghosts>>

\* set_ready_signal, then back to the top of the loop.
LoopSetReady ==
    /\ lpc = "ready"
    /\ sigpending' = set_ready_signal(sigpending, lreq.signo)
    /\ lpc' = "check"
    /\ lreq' = NoRequest
    /\ UNCHANGED <<sigusing, req_nums, queue, tabvars, callvars, polled, mine,
                   ghosts>>

-----------------------------------------------------------------------------
(* poll: get_ready_signal, then, if nothing is ready, get_req_num *)

PollReady(c) ==
    /\ cpc[c] = "idle"
    /\ sigpending # {}
    /\ polled' = [polled EXCEPT ![c] = Lowest(sigpending)]
    /\ sigpending' = bits_after_poll(sigpending)
    /\ UNCHANGED <<sigusing, req_nums, queue, tabvars, loopvars, callvars, mine, ghosts>>

PollNothingReady(c) ==
    /\ cpc[c] = "idle"
    /\ sigpending = {}
    /\ cpc' = [cpc EXCEPT ![c] = "pollnum"]
    /\ polled' = [polled EXCEPT ![c] = NoSig]
    /\ UNCHANGED <<sigvars, queue, tabvars, loopvars, csig, creq, mine, ghosts>>

\* The answer: "no request" (a = 0) or "still processing" (a = 1).
PollSaysIdle == req_nums = 0
PollSaysBusy == req_nums > 0

PollReqNum(c) ==
    /\ cpc[c] = "pollnum"
    /\ cpc' = [cpc EXCEPT ![c] = "idle"]
    /\ UNCHANGED <<sigvars, queue, tabvars, loopvars, csig, creq, polled, mine,
                   ghosts>>

(* poll_subsignal: is_using_signo, else TEE_ERROR_BAD_STATE; is_ready_signal *)

PollSubsignal(c, s) ==
    /\ cpc[c] = "idle"
    /\ is_using_signo(s)
    /\ cpc' = [cpc EXCEPT ![c] = "pollsub"]
    /\ csig' = [csig EXCEPT ![c] = s]
    /\ UNCHANGED <<sigvars, queue, tabvars, loopvars, creq, polled, mine, ghosts>>

PollSubsignalReady(c) ==
    /\ cpc[c] = "pollsub"
    /\ cpc' = [cpc EXCEPT ![c] = "idle"]
    /\ csig' = [csig EXCEPT ![c] = NoSig]
    /\ UNCHANGED <<sigvars, queue, tabvars, loopvars, creq, polled, mine, ghosts>>

-----------------------------------------------------------------------------
(* get_data *)

\* The numbers c asks the data of: a callback asks for the one poll answered,
\* a future for one its own request was given.
Fetchable(c) == IF c \in ByPoll THEN {polled[c]} \ {NoSig} ELSE mine[c]

\* is_ready_signal holds; the mutex is released before the entry is read.
GetData(c, s) ==
    /\ cpc[c] = "idle"
    /\ is_ready_signal(s)
    /\ cpc' = [cpc EXCEPT ![c] = "table"]
    /\ csig' = [csig EXCEPT ![c] = s]
    /\ UNCHANGED <<sigvars, queue, tabvars, loopvars, creq, polled, mine, ghosts>>

\* The tests on the entry, in the code's order; n is the caller's buffer size.
Verdict(e, n) ==
    IF e.ret = "err" THEN "error"
    ELSE IF n < e.len THEN "short"
    ELSE IF e.len # 0 /\ e.buf = NULL THEN "nodata"
    ELSE IF e.len = 0 THEN "empty"
    ELSE "data"

\* Mutant: the buffer is not freed once its data is copied.
ForgetsFree(v) ==
    IF v = "short" THEN "idle" ELSE IF v = "data" THEN "reset" ELSE "release"

\* Mutant: the buffer is freed after a failed request too.
ErrorFrees(v) ==
    IF v = "short" THEN "idle"
    ELSE IF v \in {"data", "error"} THEN "free" ELSE "release"

\* After the tests: a short buffer keeps the number, data is copied out and
\* its buffer freed, everything else only releases the number.
AfterVerdict(v) ==
    IF v = "short" THEN "idle" ELSE IF v = "data" THEN "free" ELSE "release"

\* History: the request whose result the caller receives with verdict v.
Source(e, v) == IF v = "short" THEN 0 ELSE IF v = "data" THEN e.buf.id ELSE e.req

GetDataTable(c, n) ==
    /\ cpc[c] = "table"
    /\ LET e == table[csig[c]]
           v == Verdict(e, n)
       IN  /\ cpc' = [cpc EXCEPT ![c] = AfterVerdict(v)]
           /\ csig' = IF v = "short" THEN [csig EXCEPT ![c] = NoSig] ELSE csig
           /\ got' = [got EXCEPT ![c] = Source(e, v)]
    /\ UNCHANGED <<sigvars, queue, tabvars, loopvars, creq, polled, mine,
                   owner, issued, served>>

GetDataFree(c) ==
    /\ cpc[c] = "free"
    /\ heap' = heap \ {table[csig[c]].buf}
    /\ cpc' = [cpc EXCEPT ![c] = "reset"]
    /\ UNCHANGED <<sigvars, queue, table, loopvars, csig, creq, polled, mine,
                   ghosts>>

\* len and ret are reset; buf keeps the freed pointer.
GetDataReset(c) ==
    /\ cpc[c] = "reset"
    /\ table' = [table EXCEPT ![csig[c]].len = 0, ![csig[c]].ret = "ok"]
    /\ cpc' = [cpc EXCEPT ![c] = "release"]
    /\ UNCHANGED <<sigvars, queue, heap, loopvars, csig, creq, polled, mine,
                   ghosts>>

\* release_signo: both bits and the counter, under both mutexes.
ReleaseSigno(c) ==
    /\ cpc[c] = "release"
    /\ LET s == csig[c] IN
         /\ sigpending' = pending_released(sigpending, s)
         /\ sigusing' = sigusing \ {s}
         /\ req_nums' = req_nums_dec(req_nums)
         /\ mine' = [mine EXCEPT ![c] = @ \ {s}]
         /\ served' = served \cup {[req |-> owner[s].id, from |-> got[c]]}
    /\ cpc' = [cpc EXCEPT ![c] = "idle"]
    /\ polled' = [polled EXCEPT ![c] = NoSig]
    /\ csig' = [csig EXCEPT ![c] = NoSig]
    /\ got' = [got EXCEPT ![c] = 0]
    /\ UNCHANGED <<queue, tabvars, loopvars, creq, owner, issued>>

-----------------------------------------------------------------------------

LoopStep == LoopWait \/ LoopDequeue \/ LoopHandle \/ LoopSetReady

\* The steps of a command that has been invoked.
InCall(c) ==
    \/ Enqueue(c)
    \/ PollReqNum(c)
    \/ PollSubsignalReady(c)
    \/ \E n \in {0, 1} : GetDataTable(c, n)
    \/ GetDataFree(c)
    \/ GetDataReset(c)
    \/ ReleaseSigno(c)

\* A client invokes a command.
Invoke(c) ==
    \/ \E k \in Kinds : AllocateSigno(c, k)
    \/ PollReady(c)
    \/ PollNothingReady(c)
    \/ \E s \in mine[c] : PollSubsignal(c, s)
    \/ \E s \in Fetchable(c) : GetData(c, s)

Next == LoopStep \/ \E c \in Clients : InCall(c) \/ Invoke(c)

SafeSpec == Init /\ [][Next]_vars

\* The loop thread is scheduled and its handlers return; a command that was
\* invoked runs to its end. Nothing obliges a client to invoke a command.
Fairness == WF_vars(LoopStep) /\ \A c \in Clients : WF_vars(InCall(c))

Spec == SafeSpec /\ Fairness

-----------------------------------------------------------------------------
(* Where a number in use can be *)

Queued == {queue[i].signo : i \in 1 .. Len(queue)}
Submitting == {creq[c].signo : c \in {d \in Clients : cpc[d] = "enqueue"}}
Serving == IF lpc \in {"handle", "ready"} THEN {lreq.signo} ELSE {}
InFlight == Submitting \cup Queued \cup Serving

-----------------------------------------------------------------------------
(* Properties *)

\* The shape of every variable.
TypeOK ==
    /\ sigusing \subseteq Signos /\ sigpending \subseteq Signos
    /\ req_nums \in 0 .. CounterMod - 1
    /\ queue \in Seq(Requests)
    /\ table \in [Signos -> Entries]
    /\ heap \subseteq Blocks
    /\ lpc \in LoopPc /\ lreq \in Requests \cup {NoRequest}
    /\ cpc \in [Clients -> ClientPc]
    /\ csig \in [Clients -> Signos \cup {NoSig}]
    /\ creq \in [Clients -> Requests \cup {NoRequest}]
    /\ polled \in [Clients -> Signos \cup {NoSig}]
    /\ mine \in [Clients -> SUBSET Signos]
    /\ owner \in [Signos -> Requests \cup {NoRequest}]
    /\ issued \in Nat
    /\ got \in [Clients -> Nat]
    /\ served \subseteq [req : Nat, from : Nat]

\* "req_nums is the number of signal using" (io_signal.h): allocate_signo and
\* release_signo keep the counter equal to the number of bits set in sigusing,
\* although release_signo decrements it whether or not the bit was set.
UsingCounted == req_nums = Cardinality(sigusing)

\* A number in use is in one place at a time: with the thread that submits it,
\* in the queue (once), with the loop, or ready. Were it in two, the loop would
\* serve a request twice or complete one while its number is given out again.
OnePlace ==
    /\ InFlight \cup sigpending \subseteq sigusing
    /\ sigpending \cap InFlight = {}
    /\ Submitting \cap (Queued \cup Serving) = {}
    /\ Queued \cap Serving = {}
    /\ \A i, j \in 1 .. Len(queue) : queue[i].signo = queue[j].signo => i = j
    /\ \A c, d \in Clients :
          cpc[c] = "enqueue" /\ cpc[d] = "enqueue"
             /\ creq[c].signo = creq[d].signo => c = d

\* get_data frees a buffer that is allocated: no buffer is freed twice, or
\* copied after it was freed, by threads that pass is_ready_signal together.
FreesLiveBuffer ==
    \A c \in Clients : cpc[c] = "free" => table[csig[c]].buf \in heap

\* A result buffer that holds bytes stays reachable from the table until it is
\* freed: no path of get_data drops it. (An empty one is dropped.)
DataNotLeaked ==
    \A b \in heap : b.len > 0 => \E s \in sigusing : table[s].buf = b

\* The loop never sleeps on the condvar with a request in the queue.
NoLostWakeup == lpc = "wait" => queue = << >>

\* A peripheral finishes the requests of one client in the order it submitted
\* them: none that is ready was submitted after one that is still queued. The
\* adaptive runtime takes its profile entries in that order.
CompletionOrder ==
    \A s \in sigpending, i \in 1 .. Len(queue) :
       owner[s].by = queue[i].by => owner[s].id < queue[i].id

\* poll answers "no request" only to a client that has none outstanding,
\* although it reads the ready bits and the counter under different mutexes.
\* (The runtime drops the peripheral from io_sigpending on that answer.)
PollIdleIsTrue ==
    [][\A c \in Clients : PollReqNum(c) /\ PollSaysIdle => mine[c] = {}]_vars

\* "a>0 means still have processing req" (poll): some request is on its way,
\* or has become ready since get_ready_signal found none.
PollBusyIsTrue ==
    [][\A c \in Clients : PollReqNum(c) /\ PollSaysBusy =>
                              InFlight \cup sigpending # {}]_vars

\* Every request that reached the queue becomes ready, even among requests that
\* were lost because malloc failed in enqueue.
QueuedComplete ==
    \A s \in Signos : s \in Queued ~> s \in sigpending

-----------------------------------------------------------------------------
(* The inductive invariant behind the safety properties *)

\* Results are taken by the client that asked for them: a client that takes what
\* poll answers is alone on the peripheral.
ExclusiveFetch == \A c \in ByPoll : Clients = {c}

\* A number in use belongs to the client that submitted its request, which is
\* still submitting it or has been told it, and to no other.
Ownership ==
    /\ \A s \in sigusing :
          LET o == owner[s] IN
          /\ o \in Requests /\ o.signo = s
          /\ s \in mine[o.by] \/ (cpc[o.by] = "enqueue" /\ creq[o.by] = o)
    /\ \A c \in Clients : \A s \in mine[c] : s \in sigusing /\ owner[s].by = c

\* A request on its way is the owner of its number.
OnItsWay ==
    /\ \A c \in Clients : cpc[c] = "enqueue" =>
          /\ creq[c] \in Requests /\ creq[c].by = c
          /\ owner[creq[c].signo] = creq[c]
          /\ creq[c].signo \notin mine[c]
    /\ \A i \in 1 .. Len(queue) :
          /\ owner[queue[i].signo] = queue[i]
          /\ queue[i].signo \in mine[queue[i].by]
    /\ lpc \in {"handle", "ready"} =>
          /\ lreq \in Requests /\ owner[lreq.signo] = lreq
          /\ lreq.signo \in mine[lreq.by]

\* A client inside get_data works on a ready number of its own.
FetchesOwn ==
    \A c \in Clients : cpc[c] \in {"table", "free", "reset", "release"} =>
       csig[c] \in sigpending /\ csig[c] \in mine[c]

IndInv == /\ TypeOK /\ NoLostWakeup /\ UsingCounted /\ OnePlace
          /\ Ownership /\ OnItsWay /\ FetchesOwn

\* Requests are numbered as they are accepted; no two numbers in use belong to
\* the same request, and none to one whose result has been handed out.
Identities ==
    /\ \A s \in sigusing : owner[s].id \in 1 .. issued
    /\ \A s, t \in sigusing : owner[s].id = owner[t].id => s = t
    /\ \A d \in served : d.req \in 1 .. issued /\ \A s \in sigusing : d.req # owner[s].id

\* The numbers whose handler has returned.
Handled == sigpending \cup (IF lpc = "ready" THEN {lreq.signo} ELSE {})
\* Does its entry hold bytes that get_data would copy?
HasData(s) == table[s].ret = "ok" /\ table[s].len > 0
\* Has get_data freed the buffer it still points to?
Freed(s) == \E c \in Clients : cpc[c] \in {"reset", "release"} /\ csig[c] = s

\* The entry of a handled number was written for its own request; the entry of
\* any other number in use may point to an older request's buffer, never to one
\* of its own request.
OwnEntry ==
    /\ \A s \in Signos : table[s].buf.id \in 0 .. issued
    /\ \A s \in Handled : table[s].req = owner[s].id
    /\ \A s \in Handled : HasData(s) => table[s].buf = Block(owner[s].id, 1)
    /\ \A s \in sigusing \ Handled : table[s].buf.id # owner[s].id

\* What get_data is going to hand out, and what it has already looked at.
InGetData ==
    \A c \in Clients :
       /\ cpc[c] \in {"free", "reset", "release"} => got[c] = owner[csig[c]].id
       /\ cpc[c] = "free" => HasData(csig[c])
       /\ cpc[c] = "release" => ~ HasData(csig[c])

\* The buffers with bytes are those of the handled numbers, until get_data has
\* freed them.
HeapExact ==
    /\ \A s \in Handled : HasData(s) /\ ~ Freed(s) => table[s].buf \in heap
    /\ \A b \in heap : b.len > 0 =>
          \E s \in Handled : HasData(s) /\ ~ Freed(s) /\ table[s].buf = b

\* The requests of one client are in the order in which it submitted them.
InOrder ==
    /\ \A i, j \in 1 .. Len(queue) :
          i < j /\ queue[i].by = queue[j].by => queue[i].id < queue[j].id
    /\ lpc \in {"handle", "ready"} => \A i \in 1 .. Len(queue) :
          lreq.by = queue[i].by => lreq.id < queue[i].id
    /\ \A c \in Clients : cpc[c] = "enqueue" =>
          \A s \in mine[c] : owner[s].id < creq[c].id

DataInv == Identities /\ OwnEntry /\ InGetData /\ HeapExact /\ InOrder /\ CompletionOrder

\* Without failing allocations no request is lost on its way.
NoneLost == sigusing \subseteq InFlight \cup sigpending

-----------------------------------------------------------------------------
(* The promise to the clients *)

PhaseOf(s) == IF s \notin sigusing THEN "free"
              ELSE IF s \in sigpending THEN "ready" ELSE "inflight"

Abs == INSTANCE AsyncIo WITH
           phase <- [s \in Signos |-> PhaseOf(s)],
           holder <- [s \in Signos |-> owner[s].id]

\* The peripheral implements AsyncIo: results are delivered once and to their
\* own request.
ImplementsAsyncIo == Abs!SafeSpec

\* With its fairness too: every accepted request completes.
ImplementsAsyncIoLive == Abs!Spec
=============================================================================
