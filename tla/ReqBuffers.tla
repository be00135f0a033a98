----------------------------- MODULE ReqBuffers -----------------------------
(***************************************************************************)
(* The heap blocks and object handles behind a request: who owns them from *)
(* the command that copies the application's data into them, through the   *)
(* queue and the handler, to the get_data that hands the result over.      *)
(*                                                                         *)
(*   live       the blocks malloc has given out                            *)
(*   pc, req    each client's place in the command and the request it is   *)
(*              building: in0 and in1 are the input buffers, n0 the size   *)
(*              of the first (0: none), rlen the bytes it asks for         *)
(*   queue      req_queues[p]                                              *)
(*   using      the numbers in use; ready, those whose signal is set       *)
(*   table      the entry of each number: ret, the length and the buffer   *)
(*              of the result. A handler that fails writes only ret, and   *)
(*              get_data leaves buf as it was when it has freed it         *)
(*   handles    outcomes after which a handler has left its object open    *)
(*   lost       blocks a command has dropped without freeing them          *)
(*   unfreed    blocks a handler or get_data has dropped likewise          *)
(*   badfree    a free was given a block that its request does not own:    *)
(*              what the heap does then is not defined, no step follows    *)
(*   left       requests a client will still make                          *)
(*                                                                         *)
(* Module IoHelper has the same commands with the results' meaning and     *)
(* their interleavings; here a handler is one step and blocks are all that *)
(* matters. Queue nodes are left out: dequeue frees what enqueue took.     *)
(* A definition whose comment says "Mutant" is not part of the model.      *)
(***************************************************************************)
EXTENDS Naturals, Sequences, FiniteSets

CONSTANTS
    Clients,        \* runtimes with a session to the PTA
    Blocks,         \* the blocks of the PTA's heap
    Signos,         \* signal numbers of the peripheral
    Kinds,          \* the kinds of request the clients make
    MaxReq          \* bound: requests each client makes

NULL == "null"
AllKinds == {"obj_write", "obj_read", "bus_write", "spi", "read", "unsupported"}

ASSUME ReqBuffersAssumption ==
    /\ NULL \notin Blocks
    /\ Kinds \subseteq AllKinds /\ MaxReq \in Nat

VARIABLES live, pc, req, queue, using, ready, table, handles, lost, unfreed, badfree, left

vars == <<live, pc, req, queue, using, ready, table, handles, lost, unfreed, badfree, left>>

\* A request as the command fills it in before it allocates anything.
NewReq(kind, in0, n0, rlen) ==
    [kind |-> kind, in0 |-> in0, n0 |-> n0, in1 |-> NULL, rlen |-> rlen, signo |-> NULL]
NoReq == NewReq("spi", NULL, 0, 0)

\* The blocks a request owns: an empty first buffer was never allocated.
Owned(r) == ((IF r.n0 > 0 THEN {r.in0} ELSE {}) \cup {r.in1}) \ {NULL}

Init ==
    /\ live = {} /\ lost = {} /\ unfreed = {} /\ badfree = FALSE
    /\ pc = [c \in Clients |-> "out"]
    /\ req = [c \in Clients |-> NoReq]
    /\ queue = << >>
    /\ using = {} /\ ready = {}
    /\ table = [s \in Signos |-> [ret |-> "ok", len |-> 0, buf |-> NULL]]
    /\ handles = {}
    /\ left = [c \in Clients |-> MaxReq]

Goto(c, l) == pc' = [pc EXCEPT ![c] = l]
Forget(c) == req' = [req EXCEPT ![c] = NoReq] /\ Goto(c, "out")

-----------------------------------------------------------------------------
(* The commands: read_req, read_req_with_buffer, write_req,               *)
(* write_req_with_buffer.                                                  *)

\* write_req allocates nothing for an empty buffer and leaves the pointer in
\* the request as the stack had it: some block, or NULL. A read_req has no
\* buffer. A type that handle_req does not know comes through any of them.
Submit(c, kind, n0, rlen) ==
    /\ pc[c] = "out" /\ left[c] > 0
    /\ kind \in {"obj_write", "obj_read"} => n0 = 1
    /\ kind = "read" => n0 = 0
    /\ kind \notin {"spi", "read"} => rlen = 0
    /\ \E junk \in IF n0 = 0 /\ kind # "read" THEN Blocks \cup {NULL} ELSE {NULL} :
         req' = [req EXCEPT ![c] = NewReq(kind, junk, n0, rlen)]
    /\ Goto(c, IF n0 = 0 THEN "signo" ELSE "malloc0")
    /\ left' = [left EXCEPT ![c] = @ - 1]
    /\ UNCHANGED <<live, queue, using, ready, table, handles, lost, unfreed, badfree>>

\* malloc: some block that is not in use.
Malloc(b) == b \notin live /\ live' = live \cup {b}

Malloc0(c) ==
    /\ pc[c] = "malloc0"
    /\ \E b \in Blocks : Malloc(b) /\ req' = [req EXCEPT ![c].in0 = b]
    /\ \/ req[c].kind \in {"obj_write", "unsupported"} /\ Goto(c, "malloc1")
       \/ req[c].kind # "obj_write" /\ Goto(c, "signo")
    /\ UNCHANGED <<queue, using, ready, table, handles, lost, unfreed, badfree, left>>

Malloc1(c) ==
    /\ pc[c] = "malloc1"
    /\ \E b \in Blocks : Malloc(b) /\ req' = [req EXCEPT ![c].in1 = b]
    /\ Goto(c, "signo")
    /\ UNCHANGED <<queue, using, ready, table, handles, lost, unfreed, badfree, left>>

\* The command returns without freeing what the request owns.
live_after_return(c) == live

\* TEE_ERROR_OUT_OF_MEMORY from either malloc: the command returns, and an
\* in0 it had already allocated stays behind.
MallocFails(c) ==
    /\ pc[c] \in {"malloc0", "malloc1"}
    /\ live' = live_after_return(c)
    /\ lost' = lost \cup (Owned(req[c]) \cap live)
    /\ Forget(c)
    /\ UNCHANGED <<queue, using, ready, table, handles, unfreed, badfree, left>>

\* allocate_signo has a free number.
AllocateSigno(c) ==
    /\ pc[c] = "signo" /\ using # Signos
    /\ \E s \in Signos \ using :
         /\ using' = using \cup {s}
         /\ req' = [req EXCEPT ![c].signo = s]
    /\ Goto(c, "enqueue")
    /\ UNCHANGED <<live, queue, ready, table, handles, lost, unfreed, badfree, left>>

\* It has none: the command answers TEE_ERROR_BUSY and drops the request with
\* the buffers in it.
Busy(c) ==
    /\ pc[c] = "signo" /\ using = Signos
    /\ live' = live_after_return(c)
    /\ lost' = lost \cup Owned(req[c])
    /\ Forget(c)
    /\ UNCHANGED <<queue, using, ready, table, handles, unfreed, badfree, left>>

\* Mutant: the command enqueues its request once more.
EnqueuesAgain(c) == UNCHANGED <<req, pc>>
Enqueued(c) == Forget(c)

\* The node is allocated, or it is not and the result of enqueue is ignored:
\* the command succeeds, the request is gone and keeps its number.
Enqueue(c) ==
    /\ pc[c] = "enqueue"
    /\ \/ queue' = Append(queue, req[c]) /\ UNCHANGED lost
       \/ queue' = queue /\ lost' = lost \cup Owned(req[c])
    /\ Enqueued(c)
    /\ UNCHANGED <<live, using, ready, table, handles, unfreed, badfree, left>>

-----------------------------------------------------------------------------
(* The loop: dequeue, the handlers, set_ready_signal. *)

\* free of the pointers in S by the handler of r (NULL is ignored by free).
Free(r, S) ==
    /\ live' = live \ S
    /\ badfree' = ~ (S \ {NULL} \subseteq Owned(r))

\* What a handler writes: everything, or at a failure only ret.
Entry(ret, len, buf) == [ret |-> ret, len |-> len, buf |-> buf]
Failed(s) == [table[s] EXCEPT !.ret = "err"]

\* The handler leaves the entry e, frees S and drops D.
Finish(r, e, S, D) ==
    /\ queue' = Tail(queue)
    /\ table' = [table EXCEPT ![r.signo] = e]
    /\ ready' = ready \cup {r.signo}
    /\ Free(r, S)
    /\ unfreed' = unfreed \cup D
    /\ UNCHANGED <<pc, req, using, lost, left>>

\* It has succeeded with len bytes in the block b, which it has allocated, and
\* leaves buf in the table; it frees S.
FinishWith(r, b, buf, len, S) ==
    /\ b \in Blocks \ live
    /\ queue' = Tail(queue)
    /\ table' = [table EXCEPT ![r.signo] = Entry("ok", len, buf)]
    /\ ready' = ready \cup {r.signo}
    /\ live' = (live \ S) \cup {b}
    /\ badfree' = ~ (S \ {NULL} \subseteq Owned(r))
    /\ UNCHANGED <<pc, req, using, lost, unfreed, left>>

Serving(kind) == queue # << >> /\ Head(queue).kind = kind

\* Mutant: the data buffer is forgotten.
obj_write_frees_id(r) == {r.in0}
obj_write_frees(r) == {r.in0, r.in1}

\* handle_write_secure_object: whatever create and write answer, the object is
\* closed or deleted and both buffers are freed.
HandleObjWrite ==
    LET r == Head(queue)
    IN  /\ Serving("obj_write")
        /\ \E ret \in {"ok", "err"} : Finish(r, Entry(ret, 0, NULL), obj_write_frees(r), {})
        /\ UNCHANGED handles

\* The failures of handle_read_secure_object that close the object again.
closes(failure) == failure \in {"malloc", "read"}

\* open, get_info, the allocation or the read fails: the identifier's buffer is
\* freed, but after a failed get_info the object stays open.
HandleObjReadFails ==
    LET r == Head(queue)
    IN  /\ Serving("obj_read")
        /\ \E failure \in {"open", "info", "malloc", "read"} :
             handles' = IF failure = "open" \/ closes(failure) THEN handles ELSE handles \cup {failure}
        /\ Finish(r, Failed(r.signo), {r.in0}, {})

\* It succeeds, perhaps with an empty object: nothing closes the object.
HandleObjRead ==
    LET r == Head(queue)
    IN  /\ Serving("obj_read")
        /\ \E b \in Blocks, len \in 0 .. 1 : FinishWith(r, b, b, len, {r.in0})
        /\ handles' = handles \cup {"success"}

\* handle_i2c_write_bytes and handle_at24cxx_write, whatever the transfer says.
HandleBusWrite ==
    LET r == Head(queue)
    IN  /\ Serving("bus_write")
        /\ \E ret \in {"ok", "err"} : Finish(r, Entry(ret, 0, NULL), {r.in0}, {})
        /\ UNCHANGED handles

\* handle_i2c_write_bytes cannot acquire the bus: it writes ret and returns,
\* the write buffer stays.
HandleBusWriteRefused ==
    LET r == Head(queue)
    IN  /\ Serving("bus_write")
        /\ Finish(r, Failed(r.signo), {}, Owned(r))
        /\ UNCHANGED handles

\* The handlers of a read_req: a buffer of the length asked for, or a failure
\* that has freed it again (or has got none).
HandleRead ==
    LET r == Head(queue)
    IN  /\ Serving("read")
        /\ \/ \E b \in Blocks : FinishWith(r, b, b, r.rlen, {})
           \/ Finish(r, Failed(r.signo), {}, {})
        /\ UNCHANGED handles

\* handle_req's default: TEE_ERROR_NOT_SUPPORTED, and nothing is freed.
HandleUnsupported ==
    LET r == Head(queue)
    IN  /\ Serving("unsupported")
        /\ Finish(r, Failed(r.signo), {}, Owned(r))
        /\ UNCHANGED handles

\* handle_spi_transfer_bytes gives up before the transfer: no memory for the
\* bytes read, or spi_acquire refuses the chip select. The write buffer stays.
HandleSpiGivesUp ==
    LET r == Head(queue)
    IN  /\ Serving("spi")
        /\ Finish(r, Failed(r.signo), {}, Owned(r))
        /\ UNCHANGED handles

\* The buffer that an SPI transfer leaves in the table.
spi_result(r, b) == b

\* The transfer failed and only ret is written, or there was nothing to read.
HandleSpiNoData ==
    LET r == Head(queue)
    IN  /\ Serving("spi")
        /\ \/ Finish(r, Failed(r.signo), {r.in0}, {})
           \/ r.rlen = 0 /\ Finish(r, Entry("ok", 0, NULL), {r.in0}, {})
        /\ UNCHANGED handles

HandleSpi ==
    LET r == Head(queue)
    IN  /\ Serving("spi") /\ r.rlen > 0
        /\ \E b \in Blocks : FinishWith(r, b, spi_result(r, b), r.rlen, {r.in0})
        /\ UNCHANGED handles

-----------------------------------------------------------------------------

(* get_data, and the number it releases. *)

Release(s) ==
    /\ ready' = ready \ {s} /\ using' = using \ {s}
    /\ UNCHANGED <<pc, req, queue, handles, lost, badfree, left>>

\* ret < 0: the number is released and the entry stays as it is.
GetDataFailed(s) ==
    /\ s \in ready /\ table[s].ret = "err"
    /\ Release(s)
    /\ UNCHANGED <<live, table, unfreed>>

\* len = 0: the same, also where a buffer was allocated for no bytes.
GetDataEmpty(s) ==
    /\ s \in ready /\ table[s].ret = "ok" /\ table[s].len = 0
    /\ unfreed' = unfreed \cup ({table[s].buf} \ {NULL})
    /\ Release(s)
    /\ UNCHANGED <<live, table>>

result_freed(s) == {table[s].buf}
\* Mutant: len is not reset, the entry still offers the bytes that are gone.
len_kept(s) == table[s].len
len_reset(s) == 0

\* The bytes are copied and their buffer is freed; len and ret are reset, buf
\* still points to the block.
GetData(s) ==
    /\ s \in ready /\ table[s].ret = "ok" /\ table[s].len > 0
    /\ live' = live \ result_freed(s)
    /\ table' = [table EXCEPT ![s] = Entry("ok", len_reset(s), table[s].buf)]
    /\ Release(s)
    /\ UNCHANGED unfreed

Handle == HandleObjWrite \/ HandleObjReadFails \/ HandleObjRead
          \/ HandleBusWrite \/ HandleBusWriteRefused
          \/ HandleRead \/ HandleUnsupported
          \/ HandleSpiGivesUp \/ HandleSpiNoData \/ HandleSpi

Next == ~ badfree /\
    \/ \E c \in Clients :
         \/ \E kind \in Kinds, n0 \in 0 .. 1, rlen \in 0 .. 1 : Submit(c, kind, n0, rlen)
         \/ Malloc0(c) \/ Malloc1(c) \/ MallocFails(c)
         \/ AllocateSigno(c) \/ Busy(c) \/ Enqueue(c)
    \/ Handle
    \/ \E s \in Signos : GetDataFailed(s) \/ GetDataEmpty(s) \/ GetData(s)

Spec == Init /\ [][Next]_vars

-----------------------------------------------------------------------------
(* Properties. *)

Queued == {Owned(queue[i]) : i \in 1 .. Len(queue)}
Building == {Owned(req[c]) : c \in Clients}
\* The numbers whose entry is a result to fetch, and the buffers of those.
Fetchable == {s \in ready : table[s].ret = "ok"}
Results == {table[s].buf : s \in Fetchable} \ {NULL}
Held == (UNION Queued) \cup (UNION Building) \cup Results

\* What a request points to, and what get_data may copy from and free, has not
\* been freed, until the handler of an empty write frees the pointer nobody has
\* set. Entries do keep pointers to freed blocks; that their length is 0 is all
\* that sets them apart, whatever handlers fail and numbers are reused, and no
\* length outlives the number's release.
NoDanglingBuffer ==
    ~ badfree => /\ Held \subseteq live
                 /\ \A s \in Signos : table[s].len > 0 => s \in Fetchable /\ table[s].buf \in live

\* A block belongs to one owner: two requests, or a request and a result, never
\* share one, so that each free is the only one.
OneOwner ==
    /\ \A c, d \in Clients : c # d => Owned(req[c]) \cap Owned(req[d]) = {}
    /\ \A i, j \in 1 .. Len(queue) : i # j => Owned(queue[i]) \cap Owned(queue[j]) = {}
    /\ \A s, t \in Fetchable : (s # t /\ table[s].buf = table[t].buf) => table[s].buf = NULL
    /\ (UNION Queued) \cap (UNION Building) = {}
    /\ ((UNION Queued) \cup (UNION Building)) \cap Results = {}

\* The blocks that are neither owned nor free are those the code is known to
\* drop: at TEE_ERROR_BUSY, at a failed second malloc, at a failed enqueue,
\* where an SPI transfer gives up or an I2C write cannot acquire its bus, with
\* a type that is not supported, and at the get_data of a result of no bytes.
\* Every other path frees what it owns. An object is closed again unless
\* get_info fails or the read succeeds.
NothingElseLeft ==
    /\ ~ badfree => live = Held \cup lost \cup unfreed
    /\ handles \subseteq {"info", "success"}

=============================================================================
