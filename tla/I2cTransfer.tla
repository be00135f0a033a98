----------------------------- MODULE I2cTransfer -----------------------------
(***************************************************************************)
(* The transfer functions of the I2C driver, the controller they drive and *)
(* a device that may refuse a byte or hold the clock. The driver fills or  *)
(* empties the one FIFO and watches the status flags; the controller moves *)
(* a byte whenever it can. A session is what a caller does between         *)
(* i2c_acquire and i2c_release: the transfers of one driver function.      *)
(*                                                                         *)
(*   active, rd, dlen    the controller's transfer: is there one, does it  *)
(*             read, how many bytes are still to move                      *)
(*   fifo      bytes in the FIFO; a byte is <<number of the transfer,      *)
(*             position>>, a byte read is named like that too              *)
(*   flags     the status flags among DONE, ERR, CLKT                      *)
(*   held      the device holds the clock for good                         *)
(*   wire      bytes the device has taken in this transfer                 *)
(*   session, pc, job, n, sent, remain, got    the driver: transfers still *)
(*             to come, place, parameters, number, next byte to write,     *)
(*             bytes left to move, bytes read                              *)
(*   fault     has the device refused a byte or been too slow for the      *)
(*             controller in this transfer?                                *)
(*   slow      may fail_safe run out although the controller gets on?      *)
(*   ret, left     last result, sessions still to come                     *)
(*                                                                         *)
(* Ten bit addresses and the speed of the bus are not modelled.            *)
(* A definition whose comment says "Mutant" is not part of the model.      *)
(***************************************************************************)
EXTENDS Integers, Sequences, FiniteSets

CONSTANTS
    Sessions,       \* the sessions of the driver's callers, sequences of jobs
    BSC_FIFO_SIZE,  \* size of the FIFO
    Faults,         \* what the device may do: "nack", "stretch", "hold"
    MaxSessions     \* bound: sessions of a behaviour

\* A transfer of the bytes from .. from + len - 1, position 0 being a register.
Transfer(reads, from, len, cont) ==
    [rd |-> reads, from |-> from, len |-> len, cont |-> cont]
NoJob == Transfer(FALSE, 1, 0, FALSE)

\* The driver's functions as sessions.
i2c_read_bytes(len) == <<Transfer(TRUE, 1, len, FALSE)>>
i2c_write_bytes(len) == <<Transfer(FALSE, 1, len, FALSE)>>
i2c_read_regs(len) ==
    [i \in 1 .. 2 * len |-> IF i % 2 = 1 THEN Transfer(FALSE, 0, 1, i > 1) ELSE Transfer(TRUE, 1, 1, TRUE)]
i2c_write_reg == <<Transfer(FALSE, 0, 2, FALSE)>>
i2c_write_regs(len) == <<Transfer(FALSE, 0, 1, FALSE), Transfer(FALSE, 1, len, TRUE)>>
i2c_write_with_prefix(len) == i2c_write_bytes(len)
\* A driver that continues its own transfer: the address, then what is there.
at24cxx_read(len) == <<Transfer(FALSE, 1, 2, FALSE), Transfer(TRUE, 1, len, TRUE)>>

Jobs == UNION {{s[i] : i \in DOMAIN s} : s \in Sessions}

\* I2C_CONT is for a transfer that continues one of the same caller. The PTAs pass
\* the flags of an application on; one that sets I2C_CONT there is left out.
I2cAssumption ==
    /\ BSC_FIFO_SIZE \in Nat \ {0} /\ MaxSessions \in Nat
    /\ Faults \subseteq {"nack", "stretch", "hold"}
    /\ \A j \in Jobs :
         /\ j.len \in Nat \ {0} /\ j.from \in {0, 1}
         /\ j.rd \in BOOLEAN /\ j.cont \in BOOLEAN
         /\ j.rd => j.from = 1
    /\ \A s \in Sessions : s \in Seq(Jobs) /\ (s # <<>> => ~ s[1].cont)

VARIABLES active, rd, dlen, fifo, flags, held, wire,
          session, pc, job, n, sent, remain, got, fault, slow, ret, left

controller == <<active, rd, dlen, fifo, flags, held, wire>>
driver == <<session, pc, job, n, sent, remain, got, ret>>
vars == <<controller, driver, fault, slow, left>>

Byte(k) == <<n, k>>

Init ==
    /\ active = FALSE /\ rd = FALSE /\ dlen = 0 /\ fifo = <<>> /\ flags = {} /\ held = FALSE
    /\ wire = <<>>
    /\ session = <<>> /\ pc = "idle" /\ job = NoJob /\ n = 0 /\ sent = 0 /\ remain = 0
    /\ got = <<>> /\ fault = FALSE /\ slow = FALSE /\ ret = "none" /\ left = MaxSessions

-----------------------------------------------------------------------------
(* The controller and the device. *)

TXD == ~ rd /\ Len(fifo) < BSC_FIFO_SIZE
RXD == rd /\ fifo # <<>>
DONE == "done" \in flags

\* The transfer ends when its last byte has moved.
Moved ==
    /\ dlen' = dlen - 1
    /\ active' = (dlen > 1)
    /\ flags' = IF dlen > 1 THEN flags ELSE flags \cup {"done"}

CanClock == active /\ ~ held /\ IF rd THEN Len(fifo) < BSC_FIFO_SIZE ELSE fifo # <<>>

Clock ==
    /\ CanClock
    /\ Moved
    /\ IF rd
         THEN /\ fifo' = Append(fifo, Byte(job.len - dlen + 1)) /\ UNCHANGED wire
         ELSE /\ fifo' = Tail(fifo) /\ wire' = Append(wire, Head(fifo))
    /\ UNCHANGED <<rd, held, driver, fault, slow, left>>

\* The device does not acknowledge, or stretches the clock beyond the
\* controller's own limit: the transfer ends.
Refuse(kind, flag) ==
    /\ kind \in Faults /\ active /\ ~ held
    /\ active' = FALSE /\ flags' = flags \cup {flag, "done"} /\ fault' = TRUE
    /\ UNCHANGED <<rd, dlen, fifo, held, wire, driver, slow, left>>

\* The device holds the clock and the controller sets no limit.
Hold ==
    /\ "hold" \in Faults /\ active /\ ~ held
    /\ held' = TRUE
    /\ UNCHANGED <<active, rd, dlen, fifo, flags, wire, driver, fault, slow, left>>

-----------------------------------------------------------------------------
(* The driver. *)

i2c_acquire(s) ==
    /\ pc = "idle" /\ session = <<>> /\ left > 0
    /\ session' = s /\ left' = left - 1
    /\ UNCHANGED <<controller, pc, job, n, sent, remain, got, fault, slow, ret>>

Least(a, b) == IF a < b THEN a ELSE b

\* The first bytes of a transfer's data.
Data(j, len) == [i \in 1 .. len |-> <<n + 1, j.from + i - 1>>]

\* Mutant: what an earlier transfer left in the FIFO stays there.
fifo_never_cleared(j) == fifo
\* The FIFO is cleared for a transfer that does not continue another one.
fifo_at_start(j) == IF j.cont THEN fifo ELSE <<>>

\* Both functions up to the start of the transfer: clear, length, address, and
\* for a write the first bytes of the data.
Start ==
    LET j == Head(session)
        filled == Least(j.len, BSC_FIFO_SIZE)
        kept == fifo_at_start(j)
    IN  /\ pc = "idle" /\ session # <<>>
        /\ session' = Tail(session) /\ job' = j /\ n' = n + 1
        /\ got' = <<>> /\ ret' = "none" /\ wire' = <<>> /\ fault' = FALSE /\ slow' \in BOOLEAN
        /\ flags' = IF j.cont THEN flags ELSE {}
        /\ active' = TRUE /\ rd' = j.rd /\ dlen' = j.len /\ held' = FALSE
        /\ IF j.rd
             THEN fifo' = kept /\ sent' = 0 /\ remain' = j.len /\ pc' = "read"
             ELSE /\ fifo' = kept \o Data(j, filled)
                  /\ sent' = filled /\ remain' = j.len - filled /\ pc' = "write"
        /\ UNCHANGED left

may_fill == remain > 0 /\ TXD

\* The loop of i2c_write_bytes over TXD until DONE.
fill ==
    /\ pc = "write" /\ ~ DONE /\ may_fill
    /\ fifo' = Append(fifo, Byte(job.from + sent))
    /\ sent' = sent + 1 /\ remain' = remain - 1
    /\ UNCHANGED <<active, rd, dlen, flags, held, wire, session, pc, job, n, got, fault, ret, slow, left>>

may_drain == TRUE

\* The loop of i2c_read_bytes over RXD, until DONE and for what is left then.
drain ==
    /\ pc = "read" /\ remain > 0 /\ RXD /\ may_drain
    /\ fifo' = Tail(fifo) /\ got' = Append(got, Head(fifo)) /\ remain' = remain - 1
    /\ UNCHANGED <<active, rd, dlen, flags, held, wire, session, pc, job, n, sent, fault, ret, slow, left>>

\* ERR, CLKT, then bytes that have not moved.
outcome == IF flags \cap {"err", "clkt"} # {} \/ remain > 0 THEN "error" ELSE "ok"

\* CLKT, ERR and DONE are cleared with every return.
flags_after == {}

Return(r) ==
    /\ ret' = r /\ pc' = "idle" /\ flags' = flags_after
    /\ session' = IF r = "ok" THEN session ELSE <<>>
    /\ UNCHANGED <<active, rd, dlen, fifo, held, wire, job, n, sent, remain, got, fault, slow, left>>

finish ==
    /\ pc \in {"read", "write"} /\ DONE
    /\ pc = "read" => ~ (remain > 0 /\ RXD /\ may_drain)
    /\ Return(outcome)

\* fail_safe counts the rounds of the write loop down. i2c_read_bytes has none.
fail_safe_runs_out == slow \/ (~ CanClock /\ ~ may_fill)

give_up ==
    /\ pc = "write" /\ ~ DONE /\ fail_safe_runs_out
    /\ Return("error")

-----------------------------------------------------------------------------

Driver == Start \/ fill \/ drain \/ finish \/ give_up

Next ==
    \/ Clock \/ Refuse("nack", "err") \/ Refuse("stretch", "clkt") \/ Hold
    \/ Driver
    \/ \E s \in Sessions : i2c_acquire(s)

Spec == Init /\ [][Next]_vars

\* The controller clocks, and the driver's loops look at it again and again.
FairSpec == Spec /\ WF_vars(Driver) /\ WF_vars(Clock)

-----------------------------------------------------------------------------
(* Properties. *)

Succeeded == pc = "idle" /\ ret = "ok" /\ n > 0
OwnData == [i \in 1 .. job.len |-> Byte(job.from + i - 1)]

\* A write that succeeds has given the device exactly its bytes in order, with
\* nothing of an earlier transfer.
WireOwn == (Succeeded /\ ~ job.rd) => wire = OwnData

\* No byte is written to a full FIFO, where it would be lost.
NoOverrun == Len(fifo) <= BSC_FIFO_SIZE

\* A read that succeeds returns what the device sent in this transfer, all of it
\* and in order, also with I2C_CONT, which does not clear the FIFO.
ReadOwn == (Succeeded /\ job.rd) => got = OwnData

\* A byte the device refused is never reported as success.
FaultReported == (pc = "idle" /\ fault) => ret # "ok"

\* With a device that answers and a thread that keeps pace nothing fails, and no
\* flag and no byte of one transfer ends the next.
NoFalseError == ret = "error" => (slow \/ fault \/ held)

\* Every transfer returns, but for a read from a device that holds the clock for
\* good: the loop of i2c_read_bytes counts nothing.
TransferReturns == (pc # "idle") ~> (pc = "idle" \/ (held /\ job.rd))

=============================================================================
