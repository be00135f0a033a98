----------------------------- MODULE SpiTransfer -----------------------------
(***************************************************************************)
(* The transfer functions of the SPI driver and the controller they drive. *)
(* The driver fills the TX FIFO, empties the RX FIFO and watches the       *)
(* controller through TXD, RXD and DONE; the controller clocks a byte out  *)
(* and the answer to it in whenever it can. A caller holds the bus for a   *)
(* session: spi_acquire, one or more transfers, spi_release.               *)
(*                                                                         *)
(*   ta        the transfer active bit, which also selects the chip        *)
(*   tx, rx    the FIFOs; a byte is <<number of the transfer, position>>,  *)
(*             position 0 being the register of spi_transfer_regs, and the *)
(*             answer clocked in with a byte is named like the byte        *)
(*   wire      the bytes the chip has got since it was selected            *)
(*   session   transfers still to come in the session                      *)
(*   pc, job, n, sent, got    the transfer: place, parameters, number,     *)
(*             bytes written to the FIFO, what it has put into "in"        *)
(*   slow      may this transfer's waits time out although the controller  *)
(*             gets on?                                                    *)
(*   old       bytes in the RX FIFO when the transfer began                *)
(*   ret       what the last transfer returned                             *)
(*   left      sessions still to come                                      *)
(*                                                                         *)
(* A job has wr and rd (are out and in not NULL) and the two lengths.      *)
(* A definition whose comment says "Mutant" is not part of the model.      *)
(***************************************************************************)
EXTENDS Integers, Sequences

CONSTANTS
    Sessions,       \* the sessions of the driver's callers, sequences of jobs
    TxDepth,        \* size of the TX FIFO
    RxDepth,        \* size of the RX FIFO
    MaxSessions     \* bound: sessions of a behaviour

Job(fn, wr, out, rd, in, cont) ==
    [fn |-> fn, wr |-> wr, out |-> out, rd |-> rd, in |-> in, cont |-> cont]
NoJob == Job("bytes", FALSE, 0, FALSE, 0, FALSE)

\* Are both FIFOs cleared first? spi_transfer_regs has no cont.
clears(j) == j.fn = "regs" \/ ~ j.cont

FirstPlace(j) ==
    CASE j.wr -> "tx"
      [] ~ j.wr /\ j.rd -> "rx"
      [] OTHER -> "end"

Jobs == UNION {{s[i] : i \in DOMAIN s} : s \in Sessions}

\* A caller continues a transfer only to send more, and not one that leaves its
\* register in the FIFO: of the callers in the tree only w25qxx_page_program does.
Continues(j, k) == ~ clears(k) => k.in = 0 /\ ~ (j.fn = "regs" /\ FirstPlace(j) = "end")
IsSession(s) ==
    s \in Seq(Jobs) /\ \A i \in 1 .. Len(s) : i < Len(s) => Continues(s[i], s[i + 1])

SpiAssumption ==
    /\ TxDepth \in Nat \ {0} /\ RxDepth \in Nat \ {0} /\ MaxSessions \in Nat
    /\ \A j \in Jobs :
         /\ j.fn \in {"byte", "bytes", "regs"} /\ j.out \in Nat /\ j.in \in Nat
         /\ j.wr \in BOOLEAN /\ j.rd \in BOOLEAN /\ j.cont \in BOOLEAN
         /\ ~ j.wr => j.out = 0
         /\ ~ j.rd => j.in = 0
         /\ j.fn = "byte" => j.wr /\ j.out = 1 /\ (j.rd => j.in = 1)
    /\ \A s \in Sessions : IsSession(s)

VARIABLES ta, tx, rx, wire, session, pc, job, n, sent, got, slow, old, ret, left

vars == <<ta, tx, rx, wire, session, pc, job, n, sent, got, slow, old, ret, left>>
hardware == <<ta, tx, rx, wire>>

Garbage == <<0, 0>>     \* what reading an empty FIFO gives
Byte(k) == <<n, k>>

Init ==
    /\ ta = FALSE /\ tx = <<>> /\ rx = <<>> /\ wire = <<>>
    /\ session = <<>> /\ pc = "idle" /\ job = NoJob /\ n = 0
    /\ sent = 0 /\ got = <<>> /\ slow = FALSE /\ old = 0 /\ ret = "none" /\ left = MaxSessions

-----------------------------------------------------------------------------
(* The controller. *)

TXD == Len(tx) < TxDepth
RXD == rx # <<>>
DONE == tx = <<>>

\* Nothing is clocked while the RX FIFO is full.
Runs == ta /\ tx # <<>> /\ Len(rx) < RxDepth

Clock ==
    /\ Runs
    /\ tx' = Tail(tx)
    /\ rx' = Append(rx, Head(tx))
    /\ wire' = Append(wire, Head(tx))
    /\ UNCHANGED <<ta, session, pc, job, n, sent, got, slow, old, ret, left>>

-----------------------------------------------------------------------------
(* The driver. *)

\* spi_release and the spi_acquire of the next session, which clears CS and both
\* FIFOs.
spi_acquire(s) ==
    /\ pc = "idle" /\ session = <<>> /\ left > 0
    /\ session' = s /\ left' = left - 1
    /\ ta' = FALSE /\ tx' = <<>> /\ rx' = <<>>
    /\ UNCHANGED <<wire, pc, job, n, sent, got, slow, old, ret>>

\* The start of a transfer up to its first wait: select, clear, TA = 1, and the
\* register, which spi_transfer_regs writes without a look at TXD.
Start ==
    /\ pc = "idle" /\ session # <<>>
    /\ LET j == Head(session)
           kept == IF clears(j) THEN <<>> ELSE tx
       IN  /\ job' = j
           /\ tx' = IF j.fn = "regs" THEN Append(kept, <<n + 1, 0>>) ELSE kept
           /\ rx' = IF clears(j) THEN <<>> ELSE rx
           /\ old' = IF clears(j) THEN 0 ELSE Len(rx)
           /\ pc' = FirstPlace(j)
    /\ session' = Tail(session)
    /\ n' = n + 1 /\ sent' = 0 /\ got' = <<>> /\ ret' = "none"
    /\ slow' \in BOOLEAN
    /\ ta' = TRUE /\ wire' = IF ta THEN wire ELSE <<>>
    /\ UNCHANGED left

\* TA = 0 at every return. A caller whose transfer fails releases the bus.
Return(r) ==
    /\ ret' = r /\ pc' = "idle"
    /\ ta' = FALSE
    /\ session' = IF r = "ok" THEN session ELSE <<>>
    /\ UNCHANGED <<tx, wire, job, n, sent, slow, old, left>>

WriteFifo ==
    /\ TXD /\ sent < job.out
    /\ tx' = Append(tx, Byte(sent + 1))
    /\ sent' = sent + 1
    /\ UNCHANGED <<ta, rx, wire, session, job, n, got, slow, old, ret, left>>

\* spi_transfer_byte waits for TXD, writes its byte and waits for DONE.
byte_tx ==
    /\ pc = "tx" /\ job.fn = "byte"
    /\ \/ WriteFifo /\ pc' = "done"
       \/ (slow \/ (~ TXD /\ ~ Runs)) /\ Return("timeout") /\ UNCHANGED <<rx, got>>

\* The inner loop over TXD, and its end.
fill_tx ==
    /\ pc = "tx" /\ job.fn # "byte"
    /\ \/ WriteFifo /\ UNCHANGED pc
       \/ /\ ~ (TXD /\ sent < job.out)
          /\ pc' = IF job.rd THEN "rx" ELSE "test"
          /\ UNCHANGED <<hardware, session, job, n, sent, got, slow, old, ret, left>>

\* The inner loop over RXD, and its end.
drain_rx ==
    /\ pc = "rx"
    /\ \/ /\ RXD /\ Len(got) < job.in
          /\ got' = Append(got, Head(rx)) /\ rx' = Tail(rx)
          /\ UNCHANGED <<ta, tx, wire, session, pc, job, n, sent, slow, old, ret, left>>
       \/ /\ ~ (RXD /\ Len(got) < job.in)
          /\ pc' = "test"
          /\ UNCHANGED <<hardware, session, job, n, sent, got, slow, old, ret, left>>

\* Mutant: the loop also waits for answers nobody reads.
moved_all_answers == sent >= job.out /\ Len(got) >= job.out
moved_all == sent >= job.out /\ Len(got) >= job.in

\* Neither side can make a move.
Blocked ==
    /\ ~ Runs
    /\ ~ (TXD /\ sent < job.out)
    /\ ~ (RXD /\ Len(got) < job.in)

gives_up == ~ moved_all /\ Blocked

\* The condition of the outer loop, and the look at the clock behind it, which a
\* late thread fails with every byte moved.
test ==
    /\ pc = "test"
    /\ \/ /\ moved_all /\ pc' = "done"
          /\ UNCHANGED <<hardware, session, job, n, sent, got, slow, old, ret, left>>
       \/ /\ ~ moved_all /\ ~ gives_up /\ pc' = FirstPlace(job)
          /\ UNCHANGED <<hardware, session, job, n, sent, got, slow, old, ret, left>>
       \/ /\ slow \/ gives_up
          /\ Return("timeout") /\ UNCHANGED <<rx, got>>

sees_done == DONE

\* The wait for DONE is 1000 us per byte: no time at all for no bytes.
NoTime == job.fn # "byte" /\ job.out = 0 /\ job.in = 0

wait_done ==
    /\ pc = "done"
    /\ \/ /\ sees_done /\ Return("ok")
          /\ IF job.fn = "byte" /\ job.rd
               THEN /\ got' = <<IF RXD THEN Head(rx) ELSE Garbage>>
                    /\ rx' = IF RXD THEN Tail(rx) ELSE rx
               ELSE UNCHANGED <<rx, got>>
       \/ /\ slow \/ NoTime \/ (~ DONE /\ ~ Runs)
          /\ Return("timeout") /\ UNCHANGED <<rx, got>>

\* With neither buffer there is nothing to wait for: TA = 0 at once.
no_buffers == pc = "end" /\ Return("ok") /\ UNCHANGED <<rx, got>>

-----------------------------------------------------------------------------

Driver == Start \/ byte_tx \/ fill_tx \/ drain_rx \/ test \/ wait_done \/ no_buffers

Next == Clock \/ Driver \/ \E s \in Sessions : spi_acquire(s)

Spec == Init /\ [][Next]_vars

\* The controller clocks, and the driver's loops look at it again and again.
FairSpec == Spec /\ WF_vars(Driver) /\ WF_vars(Clock)

-----------------------------------------------------------------------------
(* Properties. *)

\* The bytes of the last transfer, with its register.
OwnBytes == [i \in 1 .. job.out |-> Byte(i)]
OwnFrame == (IF job.fn = "regs" THEN <<Byte(0)>> ELSE <<>>) \o OwnBytes

Succeeded == pc = "idle" /\ ret = "ok"

\* When a transfer succeeds the chip has got exactly its bytes, in order, in one
\* selection: nothing of an earlier transfer that timed out, nothing missing. A
\* register without data is left in the FIFO with TA = 0, and may never be sent.
FrameIsOwn == (Succeeded /\ FirstPlace(job) # "end") => wire = OwnFrame

\* No byte is written to a full FIFO, where it would be lost, and the controller
\* clocks none into one.
NoOverrun == Len(tx) <= TxDepth /\ Len(rx) <= RxDepth

\* What a transfer puts into "in" is what was clocked in with its own bytes from
\* the first one on, whatever earlier transfers left in the RX FIFO.
AnswersOwn == Succeeded => got = SubSeq(OwnFrame, 1, job.in)

\* As many answers as are asked for, room for those nobody takes out beside those
\* the transfer before has left, and something to wait for.
Fits == ~ NoTime /\ Len(OwnFrame) - job.in \in 0 .. RxDepth - old

\* With a controller and a thread that keep pace no transfer times out that is
\* clocked to its end: a read without a write never is, nor a write the RX FIFO
\* has no room for; and a transfer of no bytes is given no time.
NoStall == (~ slow /\ Fits) => ret # "timeout"

\* Every transfer returns, also one the controller will never finish.
TransferReturns == (pc # "idle") ~> (pc = "idle")

=============================================================================
