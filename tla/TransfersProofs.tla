--------------------------- MODULE TransfersProofs ---------------------------
(***************************************************************************)
(* The three wire protocols, for FIFOs of any size, sessions of any number *)
(* and length and any lengths of the pulses that TimingAssumption allows:  *)
(* what a transfer that succeeds has sent and returned is its own, and no  *)
(* transfer the hardware can finish fails.                                 *)
(***************************************************************************)
EXTENDS Transfers, TLAPS, SequenceTheorems

-----------------------------------------------------------------------------
(* The inductive invariants. *)

\* The bytes of transfer m from position a on, len of them.
Run(m, a, len) == [i \in 1 .. len |-> <<m, a + i - 1>>]

Bytes == Nat \X Nat

(* I2C *)

I2cPlaces == {"idle", "read", "write"}

\* A job the driver may be given, or none yet.
I2cJob(j) ==
    /\ j.len \in Nat /\ j.from \in {0, 1} /\ j.rd \in BOOLEAN
    /\ j.rd => j.from = 1

I2cTypes ==
    /\ active \in BOOLEAN /\ rd \in BOOLEAN /\ dlen \in Nat /\ fifo \in Seq(Bytes)
    /\ flags \in SUBSET {"done", "err", "clkt"} /\ held \in BOOLEAN
    /\ session \in Seq(I2c!Jobs) /\ pc \in I2cPlaces /\ I2cJob(job) /\ n \in Nat
    /\ sent \in Nat /\ remain \in Nat /\ fault \in BOOLEAN /\ slow \in BOOLEAN
    /\ dlen <= job.len /\ Len(fifo) <= BSC_FIFO_SIZE
    /\ active => dlen > 0

\* Nothing of an earlier transfer is left that the next one could meet.
I2cClean == fifo = << >> /\ ~ active /\ flags = {}

\* A transfer that continues another one starts on a clean controller.
I2cBetween == (pc = "idle" /\ session # << >> /\ session[1].cont) => I2cClean

\* The flags are those of this transfer.
I2cFlags ==
    pc # "idle" =>
        /\ ret = "none"
        /\ active <=> "done" \notin flags
        /\ fault <=> flags \cap {"err", "clkt"} # {}
        /\ active \/ fault \/ dlen = 0

\* Where the bytes of the transfer are: those the device has, those in the FIFO
\* and those still to be written; or those returned and those in the FIFO.
I2cMoved == job.len - dlen
I2cWriting ==
    pc = "write" =>
        /\ ~ rd /\ ~ job.rd
        /\ I2cMoved <= sent /\ sent + remain = job.len
        /\ wire = Run(n, job.from, I2cMoved)
        /\ fifo = Run(n, job.from + I2cMoved, sent - I2cMoved)
I2cReading ==
    pc = "read" =>
        /\ rd /\ job.rd
        /\ remain <= job.len /\ job.len - remain <= I2cMoved
        /\ got = Run(n, 1, job.len - remain)
        /\ fifo = Run(n, 1 + job.len - remain, I2cMoved - (job.len - remain))

\* What is true of a result.
I2cResult ==
    pc = "idle" =>
        /\ ret = "ok" => /\ I2cClean /\ ~ fault
                         /\ (IF job.rd THEN got ELSE wire) = Run(n, job.from, job.len)
        /\ ret = "error" => slow \/ fault \/ held

I2cInv == I2cTypes /\ I2cBetween /\ I2cFlags /\ I2cWriting /\ I2cReading /\ I2cResult

(* SPI *)

SpiPlaces == {"idle", "tx", "rx", "test", "done", "end"}

SpiJob(j) ==
    /\ j.fn \in {"byte", "bytes", "regs"} /\ j.out \in Nat /\ j.in \in Nat
    /\ j.wr \in BOOLEAN /\ j.rd \in BOOLEAN
    /\ ~ j.wr => j.out = 0
    /\ ~ j.rd => j.in = 0
    /\ j.fn = "byte" => j.wr /\ j.out = 1 /\ (j.rd => j.in = 1)

SpiTypes ==
    /\ ta \in BOOLEAN /\ tx \in Seq(Bytes) /\ rx \in Seq(Bytes) /\ old \in Nat
    /\ session \in Seq(Spi!Jobs) /\ pc \in SpiPlaces /\ SpiJob(job) /\ n \in Nat
    /\ sent \in Nat /\ slow \in BOOLEAN
    /\ Len(tx) <= TxDepth /\ Len(rx) <= RxDepth

\* The transfers still to come fit each other and the one under way.
SpiChain ==
    /\ \A i \in 1 .. Len(session) : i < Len(session) => Spi!Continues(session[i], session[i + 1])
    /\ pc # "idle" /\ session # << >> => Spi!Continues(job, session[1])

\* The first position of the transfer, 0 with a register, and its length.
Register == IF job.fn = "regs" THEN 1 ELSE 0
First == 1 - Register
FrameLen == job.out + Register

\* Between two transfers the chip is not selected, and one that does not clear
\* the FIFOs finds nothing in them that it would send or return.
SpiBetween ==
    pc = "idle" =>
        /\ ~ ta
        /\ session # << >> /\ ~ Spi!clears(session[1]) =>
             tx = << >> /\ (session[1].in > 0 => rx = << >>)

\* Where the bytes of the transfer and the answers are when w have been clocked
\* out and g answers taken. A transfer that returns any has an RX FIFO of its own.
SpiAt(w, g) ==
    /\ w <= sent + Register /\ g <= w /\ g <= job.in
    /\ wire = Run(n, First, w) /\ tx = Run(n, First + w, (sent + Register) - w)
    /\ got = Run(n, First, g) /\ Len(rx) = old + (w - g)
    /\ job.in > 0 => old = 0 /\ rx = Run(n, First + g, w - g)
    /\ pc = "done" => sent = job.out /\ (job.fn # "byte" => g = job.in)
    /\ job.fn = "byte" => g = 0
SpiMoving ==
    pc # "idle" =>
        /\ ta /\ ret = "none" /\ sent <= job.out
        /\ \E w, g \in Nat : SpiAt(w, g)

SpiPlace ==
    /\ pc = "tx" => job.wr /\ (job.fn = "byte" => sent = 0)
    /\ pc = "rx" => job.rd
    /\ pc # "idle" /\ job.fn = "byte" => pc \in {"tx", "done"}
    /\ pc # "idle" => (pc = "end" <=> Spi!FirstPlace(job) = "end")

SpiResult ==
    /\ (pc = "idle" /\ ret = "ok") =>
         /\ job.in <= FrameLen /\ got = Run(n, First, job.in)
         /\ Spi!FirstPlace(job) # "end" => wire = Run(n, First, FrameLen)
    /\ ret = "timeout" => slow \/ Spi!NoTime \/ FrameLen < job.in \/ (FrameLen - job.in) + old > RxDepth

SpiInv == SpiTypes /\ SpiChain /\ SpiBetween /\ SpiMoving /\ SpiPlace /\ SpiResult

(* One wire *)

DhtPlaces == {"idle", "power", "start", "sync", "resp", "gap", "wait_low", "wait_high", "sample", "done"}
Pulses == {"off", "idle", "reaction", "resp_low", "resp_high", "low", "high", "end"}

DhtTypes ==
    /\ phase \in Pulses /\ left \in Nat /\ sent \in Nat /\ dead \in BOOLEAN
    /\ bits \in [1 .. BITS -> {0, 1}]
    /\ pc \in DhtPlaces /\ time_out \in Nat /\ delay \in Nat /\ stalled \in 0 .. MaxStall
    /\ sent <= BITS
    /\ phase \in {"reaction", "resp_low", "resp_high"} => sent = 0

\* The functions are called once, and a sensor without power stays so in a read.
DhtCalls ==
    /\ fn = "none" => pc = "idle" /\ ret = "none" /\ got = << >>
    /\ fn = "dht_read" => pc \notin {"idle", "power"}
    /\ fn = "dht_read" /\ phase = "off" => pc \in {"start", "sync", "resp", "done"} /\ ret # "ok"

\* The length of the high pulse of bit k; how late the wait for a low pulse may
\* begin in it, when no time is lost in that wait itself.
HighLen(k) == IF bits[k] = 1 THEN One ELSE Zero
Late == IF Zero <= READ_THRESHOLD + MaxStall THEN READ_THRESHOLD + 2 + MaxStall - Zero ELSE 2

\* The first bits of what the sensor has to send.
FirstBits(k) == [i \in 1 .. k |-> bits[i]]

\* Where the sensor is when the driver is at each place: what the driver has
\* counted, and the time its thread has lost, tell how far the pulse is.
AtSync ==
    /\ sent = 0 /\ got = << >> /\ time_out = SPIN_TIMEOUT /\ left >= 1
    /\ \E r \in Reactions :
         \/ phase = "reaction" /\ left + (SYNC - delay) + stalled = r
         \/ phase = "resp_low" /\ left + (SYNC - delay) + stalled = r + RESPONSE
AtResponse ==
    /\ sent = 0 /\ got = << >> /\ delay = 0 /\ left >= 1 /\ time_out >= 1
    /\ \/ /\ phase = "resp_low"
          /\ \E r \in Reactions : left + (SYNC + 1) + (SPIN_TIMEOUT - time_out) + stalled = r + RESPONSE
       \/ phase = "resp_high" /\ RESPONSE - left \in 0 .. stalled
AtGap ==
    /\ got = << >> /\ left >= 1
    /\ \/ phase = "resp_high" /\ sent = 0 /\ delay - 1 - left \in 0 .. stalled
       \/ /\ phase = "low" /\ sent = 1
          /\ \E l \in Lows : left <= l /\ l - left + delay - 1 \in 0 .. stalled
AtWaitLow(k) ==
    /\ delay = 0 /\ left >= 1 /\ time_out >= 1
    /\ \/ /\ phase = "low" /\ sent = k + 1
          /\ \E l \in Lows : left <= l /\ l - left <= Late + stalled
       \/ /\ phase = "high" /\ sent = k
          /\ left <= One - READ_THRESHOLD - 2 /\ left + 1 <= time_out
AtWaitHigh(k) ==
    /\ delay = 0 /\ left >= 1 /\ time_out >= 1 /\ sent = k + 1
    /\ \/ phase = "low" /\ \E l \in Lows : left <= l /\ SPIN_TIMEOUT - (l - left) <= time_out
       \/ /\ phase = "high" /\ HighLen(k + 1) - left \in 0 .. stalled
          /\ One - READ_THRESHOLD - 1 <= time_out
AtSample(k) ==
    /\ left >= 1 /\ One - READ_THRESHOLD - 1 <= time_out
    /\ \/ /\ phase = "high" /\ sent = k + 1
          /\ HighLen(k + 1) - left - (READ_THRESHOLD - delay + 1) \in 0 .. stalled
       \/ /\ \/ phase = "low" /\ sent = k + 2 /\ sent <= BITS
             \/ phase = "end" /\ sent = k + 1 /\ sent = BITS
          /\ bits[k + 1] = 0
          /\ \E l \in Lows : left <= l /\ Zero + (l - left) - (READ_THRESHOLD - delay + 1) \in 0 .. stalled

DhtReading ==
    (fn = "dht_read" /\ ~ dead /\ phase # "off") =>
        \/ pc = "start" /\ got = << >> /\ ret = "none"
        \/ pc = "sync" /\ AtSync /\ ret = "none"
        \/ pc = "resp" /\ AtResponse /\ ret = "none"
        \/ pc = "gap" /\ AtGap /\ ret = "none"
        \/ /\ pc \in {"wait_low", "wait_high", "sample"} /\ ret = "none"
           /\ \E k \in 0 .. BITS - 1 :
                /\ got = FirstBits(k)
                /\ pc = "wait_low" => AtWaitLow(k)
                /\ pc = "wait_high" => AtWaitHigh(k)
                /\ pc = "sample" => AtSample(k)
        \/ pc = "done" /\ ret = "ok" /\ got = bits

DhtInv == DhtTypes /\ DhtCalls /\ DhtReading

IndInv ==
    /\ part \in {"spi", "i2c", "dht"}
    /\ part = "spi" => SpiInv
    /\ part = "i2c" => I2cInv
    /\ part = "dht" => DhtInv

-----------------------------------------------------------------------------
(* Runs of bytes *)

LEMMA RunSeq ==
  ASSUME NEW m \in Nat, NEW a \in Nat, NEW len \in Nat
  PROVE  Run(m, a, len) \in Seq(Bytes) /\ Len(Run(m, a, len)) = len
<1>1. \A i \in 1 .. len : <<m, a + i - 1>> \in Bytes
  BY DEF Bytes
<1>. QED
  BY <1>1 DEF Run

LEMMA RunEmpty ==
  ASSUME NEW m \in Nat, NEW a \in Nat
  PROVE  Run(m, a, 0) = << >>
BY DEF Run

LEMMA RunNotEmpty ==
  ASSUME NEW m \in Nat, NEW a \in Nat, NEW len \in Nat, len # 0
  PROVE  Run(m, a, len) # << >>
<1>1. Len(Run(m, a, len)) = len
  BY RunSeq
<1>. QED
  BY <1>1, EmptySeq

LEMMA RunAppend ==
  ASSUME NEW m \in Nat, NEW a \in Nat, NEW len \in Nat
  PROVE  Append(Run(m, a, len), <<m, a + len>>) = Run(m, a, len + 1)
<1> DEFINE s == Run(m, a, len)
           t == Append(s, <<m, a + len>>)
           u == Run(m, a, len + 1)
<1>0. <<m, a + len>> \in Bytes
  BY DEF Bytes
<1>1. s \in Seq(Bytes) /\ Len(s) = len
  BY RunSeq
<1>2. u \in Seq(Bytes) /\ Len(u) = len + 1
  BY RunSeq
<1>3. /\ t \in Seq(Bytes) /\ Len(t) = len + 1
      /\ \A i \in 1 .. len : t[i] = s[i]
      /\ t[len + 1] = <<m, a + len>>
  BY <1>0, <1>1, AppendProperties
<1>4. \A i \in 1 .. len : s[i] = <<m, a + i - 1>>
  BY DEF Run
<1>5. \A i \in 1 .. len + 1 : u[i] = <<m, a + i - 1>>
  BY DEF Run
<1> HIDE DEF s, t, u
<1>6. ASSUME NEW i \in 1 .. len + 1 PROVE t[i] = u[i]
  <2>1. CASE i = len + 1
    <3>1. a + (len + 1) - 1 = a + len
      OBVIOUS
    <3>. QED
      BY <2>1, <3>1, <1>3, <1>5
  <2>2. CASE i \in 1 .. len
    BY <2>2, <1>3, <1>4, <1>5
  <2>. QED
    BY <2>1, <2>2
<1>7. t = u
  BY <1>2, <1>3, <1>6, SeqEqual
<1>. QED
  BY <1>7 DEF s, t, u

LEMMA RunTail ==
  ASSUME NEW m \in Nat, NEW a \in Nat, NEW len \in Nat, len # 0
  PROVE  /\ Head(Run(m, a, len)) = <<m, a>>
         /\ Tail(Run(m, a, len)) = Run(m, a + 1, len - 1)
<1> DEFINE s == Run(m, a, len)
           t == Tail(s)
           u == Run(m, a + 1, len - 1)
<1>1. s \in Seq(Bytes) /\ Len(s) = len /\ s # << >>
  BY RunSeq, RunNotEmpty
<1>2. u \in Seq(Bytes) /\ Len(u) = len - 1
  <2>1. len - 1 \in Nat /\ a + 1 \in Nat
    OBVIOUS
  <2>. QED
    BY <2>1, RunSeq
<1>3. \A i \in 1 .. len : s[i] = <<m, a + i - 1>>
  BY DEF Run
<1>4. \A i \in 1 .. len - 1 : u[i] = <<m, a + i>>
  BY DEF Run
<1> HIDE DEF s, u
<1>5. /\ t \in Seq(Bytes) /\ Len(t) = len - 1
      /\ \A i \in 1 .. len - 1 : t[i] = s[i + 1]
  BY <1>1, HeadTailProperties
<1>6. Head(s) = s[1]
  BY <1>1
<1>7. ASSUME NEW i \in 1 .. len - 1 PROVE t[i] = u[i]
  <2>1. i + 1 \in 1 .. len /\ a + (i + 1) - 1 = a + i
    OBVIOUS
  <2>. QED
    BY <2>1, <1>3, <1>4, <1>5
<1> HIDE DEF t
<1>8. t = u
  BY <1>2, <1>5, <1>7, SeqEqual
<1>9. Head(s) = <<m, a>>
  BY <1>3, <1>6
<1>. QED
  BY <1>8, <1>9 DEF s, t, u

\* The first bytes of a run.
LEMMA RunSub ==
  ASSUME NEW m \in Nat, NEW a \in Nat, NEW len \in Nat, NEW k \in Nat, k <= len
  PROVE  SubSeq(Run(m, a, len), 1, k) = Run(m, a, k)
<1> DEFINE s == Run(m, a, len)
           t == SubSeq(s, 1, k)
           u == Run(m, a, k)
<1>1. \A i \in 1 .. len : s[i] = <<m, a + i - 1>>
  BY DEF Run
<1>2. u \in Seq(Bytes) /\ Len(u) = k
  BY RunSeq
<1>7. \A i \in 1 .. k : u[i] = <<m, a + i - 1>>
  BY DEF Run
<1> HIDE DEF s, u
<1>3. \A i \in 1 .. k : s[i] \in Bytes
  BY <1>1 DEF Bytes
<1>4. t \in Seq(Bytes) /\ Len(t) = k /\ \A i \in 1 .. k : t[i] = s[i]
  BY <1>3, SubSeqProperties
<1>5. ASSUME NEW i \in 1 .. k PROVE t[i] = u[i]
  <2>1. i \in 1 .. len
    OBVIOUS
  <2>. QED
    BY <2>1, <1>1, <1>4, <1>7
<1> HIDE DEF t
<1>6. t = u
  BY <1>2, <1>4, <1>5, SeqEqual
<1>. QED
  BY <1>6 DEF s, t, u

\* A first byte in front of a run.
LEMMA RunCons ==
  ASSUME NEW m \in Nat, NEW len \in Nat
  PROVE  << <<m, 0>> >> \o Run(m, 1, len) = Run(m, 0, len + 1)
<1> DEFINE h == << <<m, 0>> >>
           s == Run(m, 1, len)
           t == h \o s
           u == Run(m, 0, len + 1)
<1>1. s \in Seq(Bytes) /\ Len(s) = len
  BY RunSeq
<1>7. \A i \in 1 .. len : s[i] = <<m, i>>
  BY DEF Run
<1>2. u \in Seq(Bytes) /\ Len(u) = len + 1
  BY RunSeq
<1>8. \A i \in 1 .. len + 1 : u[i] = <<m, i - 1>>
  BY DEF Run
<1>3. h \in Seq(Bytes) /\ Len(h) = 1 /\ h[1] = <<m, 0>>
  BY DEF Bytes
<1> HIDE DEF h, s, u
<1>4. /\ t \in Seq(Bytes) /\ Len(t) = len + 1
      /\ \A i \in 1 .. len + 1 : t[i] = IF i <= 1 THEN h[i] ELSE s[i - 1]
  <2>1. /\ t \in Seq(Bytes) /\ Len(t) = Len(h) + Len(s)
        /\ \A i \in 1 .. Len(h) + Len(s) : t[i] = IF i <= Len(h) THEN h[i] ELSE s[i - Len(h)]
    BY <1>1, <1>3, ConcatProperties
  <2>2. /\ t \in Seq(Bytes) /\ Len(t) = 1 + len
        /\ \A i \in 1 .. 1 + len : t[i] = IF i <= 1 THEN h[i] ELSE s[i - 1]
    BY <1>1, <1>3, <2>1, Zenon
  <2>. QED
    BY <2>2
<1> HIDE DEF t
<1>5. ASSUME NEW i \in 1 .. len + 1 PROVE t[i] = u[i]
  <2>1. CASE i = 1
    BY <2>1, <1>3, <1>4, <1>8
  <2>2. CASE i \in 2 .. len + 1
    <3>1. i - 1 \in 1 .. len /\ i \in 1 .. len + 1 /\ ~ (i <= 1)
      BY <2>2
    <3>. QED
      BY <3>1, <1>4, <1>7, <1>8
  <2>. QED
    BY <2>1, <2>2
<1>6. t = u
  BY <1>2, <1>4, <1>5, SeqEqual
<1>. QED
  BY <1>6 DEF h, s, t, u

-----------------------------------------------------------------------------
(* I2C *)

-----------------------------------------------------------------------------
(* I2C *)

LEMMA I2cJobs ==
  ASSUME NEW j \in I2c!Jobs
  PROVE  I2cJob(j) /\ j.len \in Nat /\ j.len > 0 /\ j.cont \in BOOLEAN
<1>1. /\ j.len \in Nat \ {0} /\ j.from \in {0, 1}
      /\ j.rd \in BOOLEAN /\ j.cont \in BOOLEAN
      /\ j.rd => j.from = 1
  BY I2cConstants DEF I2c!I2cAssumption
<1>. QED
  BY <1>1 DEF I2cJob

LEMMA I2cInit == I2c!Init => I2cInv
<1> SUFFICES ASSUME I2c!Init PROVE I2cInv
  OBVIOUS
<1>1. fifo \in Seq(Bytes) /\ session \in Seq(I2c!Jobs) /\ Len(fifo) = 0
  BY EmptySeq DEF I2c!Init
<1>2. I2cJob(job) /\ job.len = 0
  BY DEF I2c!Init, I2cJob, I2c!NoJob, I2c!Transfer
<1>3. 0 <= BSC_FIFO_SIZE
  BY I2cConstants DEF I2c!I2cAssumption
<1>4. dlen <= job.len /\ Len(fifo) <= BSC_FIFO_SIZE
  BY <1>1, <1>2, <1>3 DEF I2c!Init
<1>5. /\ active = FALSE /\ rd = FALSE /\ dlen = 0 /\ flags = {} /\ held = FALSE
      /\ pc = "idle" /\ n = 0 /\ sent = 0 /\ remain = 0 /\ fault = FALSE /\ slow = FALSE
  BY DEF I2c!Init
<1>6. I2cTypes
  BY <1>1, <1>2, <1>4, <1>5 DEF I2cTypes, I2cPlaces
<1>. QED
  BY <1>6 DEF I2c!Init, I2cInv, I2cBetween, I2cFlags, I2cWriting, I2cReading, I2cResult

\* The bytes a clock moves.
LEMMA I2cClockStep == I2cInv /\ I2c!Clock => I2cInv'
<1> SUFFICES ASSUME I2cInv, I2c!Clock PROVE I2cInv'
  OBVIOUS
<1>1. /\ active /\ ~ held /\ dlen \in Nat /\ dlen > 0 /\ dlen' = dlen - 1
      /\ active' = (dlen > 1)
      /\ flags' = IF dlen > 1 THEN flags ELSE flags \cup {"done"}
      /\ UNCHANGED <<rd, held, session, pc, job, n, sent, remain, got, ret, fault, slow>>
  BY DEF I2cInv, I2cTypes, I2c!Clock, I2c!CanClock, I2c!Moved, I2c!driver
<1>2. I2cJob(job) /\ n \in Nat /\ dlen <= job.len /\ fifo \in Seq(Bytes)
  BY DEF I2cInv, I2cTypes
<1>3. job.len \in Nat /\ job.from \in Nat /\ sent \in Nat /\ remain \in Nat
  BY DEF I2cInv, I2cTypes, I2cJob
<1>5. /\ dlen' \in Nat /\ dlen' <= job.len /\ active' \in BOOLEAN /\ (active' => dlen' > 0)
      /\ flags' \in SUBSET {"done", "err", "clkt"}
  BY <1>1, <1>2, <1>3 DEF I2cInv, I2cTypes
<1>6. I2cFlags'
  <2>1. pc # "idle" => /\ ret = "none" /\ "done" \notin flags
                       /\ fault <=> flags \cap {"err", "clkt"} # {}
    BY <1>1 DEF I2cInv, I2cFlags
  <2>2. CASE dlen > 1
    BY <1>1, <2>1, <2>2 DEF I2cFlags
  <2>3. CASE dlen = 1
    <3>3. ~ (dlen > 1) /\ dlen' = 0
      BY <1>1, <2>3
    <3>1. ~ active' /\ flags' = flags \cup {"done"}
      BY <1>1, <3>3, Zenon
    <3>2. flags' \cap {"err", "clkt"} = flags \cap {"err", "clkt"}
      BY <3>1
    <3>. QED
      BY <1>1, <2>1, <3>1, <3>2, <3>3 DEF I2cFlags
  <2>. QED
    BY <1>1, <2>2, <2>3
<1>7. I2cBetween' /\ I2cResult'
  BY <1>1 DEF I2cInv, I2cBetween, I2cClean, I2cResult
<1>8. CASE rd
  <2>1. fifo' = Append(fifo, <<n, job.len - dlen + 1>>) /\ Len(fifo) < BSC_FIFO_SIZE /\ wire' = wire
    BY <1>8 DEF I2c!Clock, I2c!CanClock, I2c!Byte
  <2>2. <<n, job.len - dlen + 1>> \in Bytes
    BY <1>1, <1>2, <1>3 DEF Bytes
  <2>3. fifo' \in Seq(Bytes) /\ Len(fifo') = Len(fifo) + 1 /\ Len(fifo) \in Nat
    BY <2>1, <2>2, <1>2, AppendProperties, LenProperties
  <2>4. BSC_FIFO_SIZE \in Nat
    BY I2cConstants DEF I2c!I2cAssumption
  <2>5. I2cTypes'
    BY <1>1, <1>2, <1>5, <2>1, <2>3, <2>4 DEF I2cInv, I2cTypes
  <2>6. pc # "write"
    BY <1>8 DEF I2cInv, I2cWriting
  <2>7. I2cReading'
    <3> SUFFICES ASSUME pc = "read" PROVE I2cReading'
      BY <1>1 DEF I2cReading
    <3>1. /\ job.rd /\ remain <= job.len /\ job.len - remain <= job.len - dlen
          /\ got = Run(n, 1, job.len - remain)
          /\ fifo = Run(n, 1 + job.len - remain, job.len - dlen - (job.len - remain))
      BY DEF I2cInv, I2cReading, I2cMoved
    <3>2. PICK a \in Nat, len \in Nat : /\ a = 1 + job.len - remain
                                        /\ len = job.len - dlen - (job.len - remain)
      BY <1>1, <1>3, <3>1
    <3>3. /\ job.len - dlen + 1 = a + len
          /\ job.len - dlen' - (job.len - remain) = len + 1
          /\ job.len - remain <= job.len - dlen'
      BY <1>1, <1>3, <3>1, <3>2
    <3>5. Append(Run(n, a, len), <<n, a + len>>) = Run(n, a, len + 1)
      BY <1>2, RunAppend
    <3>4. fifo' = Run(n, a, job.len - dlen' - (job.len - remain))
      BY <2>1, <3>1, <3>2, <3>3, <3>5, Zenon
    <3>. QED
      BY <1>1, <1>8, <3>1, <3>2, <3>3, <3>4 DEF I2cReading, I2cMoved
  <2>. QED
    BY <1>1, <1>6, <1>7, <2>5, <2>6, <2>7 DEF I2cInv, I2cWriting
<1>9. CASE ~ rd
  <2>1. fifo # << >> /\ fifo' = Tail(fifo) /\ wire' = Append(wire, Head(fifo))
    BY <1>9 DEF I2c!Clock, I2c!CanClock
  <2>2. fifo' \in Seq(Bytes) /\ Len(fifo') = Len(fifo) - 1 /\ Len(fifo) \in Nat
    BY <2>1, <1>2, HeadTailProperties, LenProperties
  <2>3. BSC_FIFO_SIZE \in Nat
    BY I2cConstants DEF I2c!I2cAssumption
  <2>4. I2cTypes'
    BY <1>1, <1>2, <1>5, <2>1, <2>2, <2>3 DEF I2cInv, I2cTypes
  <2>5. pc # "read"
    BY <1>9 DEF I2cInv, I2cReading
  <2>6. I2cWriting'
    <3> SUFFICES ASSUME pc = "write" PROVE I2cWriting'
      BY <1>1 DEF I2cWriting
    <3>1. /\ ~ job.rd /\ job.len - dlen <= sent /\ sent + remain = job.len
          /\ wire = Run(n, job.from, job.len - dlen)
          /\ fifo = Run(n, job.from + (job.len - dlen), sent - (job.len - dlen))
      BY DEF I2cInv, I2cWriting, I2cMoved
    <3>2. PICK w \in Nat, a \in Nat, len \in Nat :
             w = job.len - dlen /\ a = job.from + w /\ len = sent - w
      BY <1>1, <1>2, <1>3, <3>1
    <3>3. len # 0
      BY <1>2, <2>1, <3>1, <3>2, RunEmpty
    <3>4. /\ job.from + (job.len - dlen') = a + 1 /\ sent - (job.len - dlen') = len - 1
          /\ job.len - dlen' = w + 1 /\ job.len - dlen' <= sent
      <4>1. dlen \in Nat /\ dlen' = dlen - 1
        BY <1>1
      <4>3. w = job.len - dlen
        BY <3>2
      <4>2. job.len - (dlen - 1) = w + 1
        BY <1>3, <4>3, <4>1
      <4>. QED
        BY <1>3, <3>2, <3>3, <4>1, <4>2
    <3>5. /\ Head(fifo) = <<n, a>>
          /\ fifo' = Run(n, job.from + (job.len - dlen'), sent - (job.len - dlen'))
      <4>1. Head(Run(n, a, len)) = <<n, a>> /\ Tail(Run(n, a, len)) = Run(n, a + 1, len - 1)
        BY <1>2, <3>3, RunTail
      <4>. QED
        BY <2>1, <3>1, <3>2, <3>4, <4>1, Zenon
    <3>6. wire' = Run(n, job.from, job.len - dlen')
      <4>1. Append(Run(n, job.from, w), <<n, job.from + w>>) = Run(n, job.from, w + 1)
        BY <1>2, <1>3, RunAppend
      <4>. QED
        BY <2>1, <3>1, <3>2, <3>4, <3>5, <4>1, Zenon
    <3>. QED
      BY <1>1, <1>9, <3>1, <3>4, <3>5, <3>6 DEF I2cWriting, I2cMoved
  <2>. QED
    BY <1>1, <1>6, <1>7, <2>4, <2>5, <2>6 DEF I2cInv, I2cReading
<1>. QED
  BY <1>8, <1>9

LEMMA I2cDeviceStep ==
  ASSUME I2cInv, \/ I2c!Refuse("nack", "err") \/ I2c!Refuse("stretch", "clkt") \/ I2c!Hold
  PROVE  I2cInv'
<1>1. CASE I2c!Hold
  <2>1. active /\ held' = TRUE /\ UNCHANGED <<active, rd, dlen, fifo, flags, wire, session, pc, job, n,
                                             sent, remain, got, ret, fault, slow>>
    BY <1>1 DEF I2c!Hold, I2c!driver
  <2>. QED
    BY <2>1 DEF I2cInv, I2cTypes, I2cBetween, I2cClean, I2cFlags, I2cWriting, I2cReading, I2cResult, I2cMoved
<1>2. ASSUME NEW kind, NEW f \in {"err", "clkt"}, I2c!Refuse(kind, f) PROVE I2cInv'
  <2>1. /\ active /\ active' = FALSE /\ flags' = flags \cup {f, "done"} /\ fault' = TRUE
        /\ UNCHANGED <<rd, dlen, fifo, held, wire, session, pc, job, n, sent, remain, got, ret, slow>>
    BY <1>2 DEF I2c!Refuse, I2c!driver
  <2>2. I2cTypes'
    BY <2>1 DEF I2cInv, I2cTypes
  <2>3. I2cFlags'
    BY <2>1 DEF I2cInv, I2cFlags
  <2>. QED
    BY <2>1, <2>2, <2>3 DEF I2cInv, I2cBetween, I2cClean, I2cWriting, I2cReading, I2cResult, I2cMoved
<1>. QED
  BY <1>1, <1>2

LEMMA I2cAcquireStep ==
  ASSUME I2cInv, NEW s \in I2cSessions, I2c!i2c_acquire(s)
  PROVE  I2cInv'
<1>1. /\ session' = s /\ pc = "idle"
      /\ UNCHANGED <<active, rd, dlen, fifo, flags, held, wire, pc, job, n, sent, remain, got, fault, slow, ret>>
  BY DEF I2c!i2c_acquire, I2c!controller
<1>2. s \in Seq(I2c!Jobs) /\ (s # << >> => ~ s[1].cont)
  BY I2cConstants DEF I2c!I2cAssumption
<1>. QED
  BY <1>1, <1>2 DEF I2cInv, I2cTypes, I2cBetween, I2cFlags, I2cWriting, I2cReading, I2cResult, I2cMoved, I2cClean

\* A transfer starts on an empty FIFO: cleared, or left so by the one it continues.
LEMMA I2cStartStep == I2cInv /\ I2c!Start => I2cInv'
<1> SUFFICES ASSUME I2cInv, I2c!Start PROVE I2cInv'
  OBVIOUS
<1> DEFINE j == Head(session)
           filled == I2c!Least(j.len, BSC_FIFO_SIZE)
<1>1. session \in Seq(I2c!Jobs) /\ session # << >> /\ pc = "idle" /\ n \in Nat
  BY DEF I2cInv, I2cTypes, I2c!Start
<1>2. j = session[1] /\ j \in I2c!Jobs /\ Tail(session) \in Seq(I2c!Jobs)
  BY <1>1, HeadTailProperties
<1>3. I2cJob(j) /\ j.len \in Nat /\ j.len > 0 /\ j.from \in Nat /\ j.rd \in BOOLEAN
  BY <1>2, I2cJobs DEF I2cJob
<1>4. BSC_FIFO_SIZE \in Nat /\ BSC_FIFO_SIZE > 0
  BY I2cConstants DEF I2c!I2cAssumption
<1>5. filled \in Nat /\ filled <= j.len /\ filled <= BSC_FIFO_SIZE
  BY <1>3, <1>4 DEF I2c!Least
<1>6. I2c!fifo_at_start(j) = << >> /\ (IF j.cont THEN flags ELSE {}) = {}
  BY <1>1, <1>2 DEF I2cInv, I2cBetween, I2cClean, I2c!fifo_at_start
<1>7. /\ session' = Tail(session) /\ job' = j /\ n' = n + 1
      /\ got' = << >> /\ ret' = "none" /\ wire' = << >> /\ fault' = FALSE /\ slow' \in BOOLEAN
      /\ flags' = {} /\ active' = TRUE /\ rd' = j.rd /\ dlen' = j.len /\ held' = FALSE
      /\ IF j.rd
           THEN fifo' = << >> /\ sent' = 0 /\ remain' = j.len /\ pc' = "read"
           ELSE /\ fifo' = << >> \o I2c!Data(j, filled)
                /\ sent' = filled /\ remain' = j.len - filled /\ pc' = "write"
  BY <1>6, Zenon DEF I2c!Start
<1>8. I2c!Data(j, filled) = Run(n + 1, j.from, filled)
  BY DEF I2c!Data, Run
<1> HIDE DEF filled, j
<1>9. Run(n + 1, j.from, filled) \in Seq(Bytes) /\ Len(Run(n + 1, j.from, filled)) = filled
  <2>1. n + 1 \in Nat
    BY <1>1
  <2>. QED
    BY <2>1, <1>3, <1>5, RunSeq
<1>10. ~ j.rd => fifo' = Run(n + 1, j.from, filled)
  BY <1>7, <1>8, <1>9, ConcatEmptySeq
<1>11. n' \in Nat /\ wire' = Run(n', j.from, 0) /\ got' = Run(n', 1, 0)
  BY <1>1, <1>3, <1>7, RunEmpty
<1>14. dlen' \in Nat /\ dlen' <= job'.len /\ dlen' > 0 /\ I2cJob(job') /\ rd' \in BOOLEAN
  BY <1>3, <1>7
<1>12. CASE j.rd
  <2>1. fifo' = << >> /\ sent' = 0 /\ remain' = j.len /\ pc' = "read"
    BY <1>7, <1>12
  <2>2. fifo' \in Seq(Bytes) /\ Len(fifo') = 0
    BY <2>1, EmptySeq
  <2>3. I2cTypes'
    <3>1. Len(fifo') <= BSC_FIFO_SIZE /\ sent' \in Nat /\ remain' \in Nat
      BY <1>3, <1>4, <2>1, <2>2
    <3>. QED
      BY <1>2, <1>7, <1>11, <1>14, <2>1, <2>2, <3>1 DEF I2cTypes, I2cPlaces
  <2>4. I2cFlags' /\ I2cBetween' /\ I2cResult' /\ I2cWriting'
    BY <1>7, <2>1 DEF I2cFlags, I2cBetween, I2cResult, I2cWriting
  <2>5. fifo' = Run(n', 1, 0)
    BY <2>1, <1>7, <1>11
  <2>6. /\ j.len - j.len = 0 /\ 1 + j.len - j.len = 1 /\ 0 - 0 = 0 /\ j.len <= j.len /\ 0 <= 0
    BY <1>3
  <2>7. I2cReading'
    <3>1. I2cMoved' = 0 /\ (job.len - remain)' = 0 /\ (1 + job.len - remain)' = 1
      BY <1>7, <2>1, <2>6 DEF I2cMoved
    <3>. QED
      BY <1>7, <1>11, <1>12, <2>1, <2>5, <2>6, <3>1 DEF I2cReading
  <2>. QED
    BY <2>3, <2>4, <2>7 DEF I2cInv
<1>13. CASE ~ j.rd
  <2>1. fifo' = Run(n', j.from, filled) /\ sent' = filled /\ remain' = j.len - filled /\ pc' = "write"
    BY <1>7, <1>10, <1>13
  <2>2. fifo' \in Seq(Bytes) /\ Len(fifo') = filled
    BY <2>1, <1>7, <1>9
  <2>3. I2cTypes'
    <3>1. Len(fifo') <= BSC_FIFO_SIZE /\ sent' \in Nat /\ remain' \in Nat
      BY <1>3, <1>4, <1>5, <2>1, <2>2
    <3>. QED
      BY <1>2, <1>7, <1>11, <1>14, <2>1, <2>2, <3>1 DEF I2cTypes, I2cPlaces
  <2>4. I2cFlags' /\ I2cBetween' /\ I2cResult' /\ I2cReading'
    BY <1>7, <2>1 DEF I2cFlags, I2cBetween, I2cResult, I2cReading
  <2>5. /\ j.len - j.len = 0 /\ j.from + 0 = j.from /\ filled - 0 = filled /\ 0 <= filled
        /\ filled + (j.len - filled) = j.len
    BY <1>3, <1>5
  <2>6. I2cWriting'
    <3>1. I2cMoved' = 0
      BY <1>7, <2>5 DEF I2cMoved
    <3>. QED
      BY <1>7, <1>11, <1>13, <2>1, <2>5, <3>1 DEF I2cWriting
  <2>. QED
    BY <2>3, <2>4, <2>6 DEF I2cInv
<1>. QED
  BY <1>3, <1>12, <1>13

LEMMA I2cFillStep == I2cInv /\ I2c!fill => I2cInv'
<1> SUFFICES ASSUME I2cInv, I2c!fill PROVE I2cInv'
  OBVIOUS
<1>1. /\ pc = "write" /\ remain > 0 /\ Len(fifo) < BSC_FIFO_SIZE
      /\ fifo' = Append(fifo, <<n, job.from + sent>>) /\ sent' = sent + 1 /\ remain' = remain - 1
      /\ UNCHANGED <<active, rd, dlen, flags, held, wire, session, pc, job, n, got, fault, ret, slow>>
  BY DEF I2c!fill, I2c!may_fill, I2c!TXD, I2c!Byte
<1>2. n \in Nat /\ job.len \in Nat /\ job.from \in Nat /\ sent \in Nat /\ remain \in Nat /\ dlen \in Nat
  BY DEF I2cInv, I2cTypes, I2cJob
<1>3. fifo \in Seq(Bytes) /\ BSC_FIFO_SIZE \in Nat
  BY I2cConstants DEF I2cInv, I2cTypes, I2c!I2cAssumption
<1>4. <<n, job.from + sent>> \in Bytes
  BY <1>2 DEF Bytes
<1>5. fifo' \in Seq(Bytes) /\ Len(fifo') = Len(fifo) + 1 /\ Len(fifo) \in Nat
  BY <1>1, <1>3, <1>4, AppendProperties, LenProperties
<1>6. Len(fifo') <= BSC_FIFO_SIZE /\ sent' \in Nat /\ remain' \in Nat
  BY <1>1, <1>2, <1>3, <1>5
<1>7. I2cTypes'
  BY <1>1, <1>5, <1>6 DEF I2cInv, I2cTypes
<1>8. I2cFlags' /\ I2cBetween' /\ I2cResult' /\ I2cReading'
  BY <1>1 DEF I2cInv, I2cFlags, I2cBetween, I2cResult, I2cReading
<1>9. I2cWriting'
  <2>1. /\ ~ rd /\ ~ job.rd
        /\ job.len - dlen <= sent /\ sent + remain = job.len
        /\ wire = Run(n, job.from, job.len - dlen)
        /\ fifo = Run(n, job.from + (job.len - dlen), sent - (job.len - dlen))
    BY <1>1 DEF I2cInv, I2cWriting, I2cMoved
  <2>2. dlen <= job.len
    BY DEF I2cInv, I2cTypes
  <2>3. PICK a \in Nat : a = job.from + (job.len - dlen)
    BY <1>2, <2>2
  <2>4. PICK len \in Nat : len = sent - (job.len - dlen)
    BY <1>2, <2>1, <2>2
  <2>5. job.from + sent = a + len
    BY <1>2, <2>3, <2>4
  <2>6. (sent + 1) - (job.len - dlen) = len + 1
    BY <1>2, <2>4
  <2>7. Append(Run(n, a, len), <<n, a + len>>) = Run(n, a, len + 1)
    BY <1>2, RunAppend
  <2>8. fifo' = Run(n, job.from + (job.len - dlen), sent' - (job.len - dlen))
    <3>1. fifo = Run(n, a, len)
      BY <2>1, <2>3, <2>4, Zenon
    <3>2. fifo' = Append(fifo, <<n, a + len>>) /\ sent' - (job.len - dlen) = len + 1
      <4>1. fifo' = Append(fifo, <<n, job.from + sent>>) /\ sent' = sent + 1
        BY <1>1
      <4>2. fifo' = Append(fifo, <<n, a + len>>)
        BY <4>1, <2>5, Zenon
      <4>3. sent' - (job.len - dlen) = len + 1
        BY <4>1, <2>6, Zenon
      <4>. QED
        BY <4>2, <4>3
    <3>. QED
      BY <2>3, <2>7, <3>1, <3>2, Zenon
  <2>9. job.len - dlen <= sent + 1 /\ (sent + 1) + (remain - 1) = job.len
    BY <1>2, <2>1
  <2>. QED
    BY <1>1, <2>1, <2>8, <2>9 DEF I2cWriting, I2cMoved
<1>. QED
  BY <1>7, <1>8, <1>9 DEF I2cInv

LEMMA I2cDrainStep == I2cInv /\ I2c!drain => I2cInv'
<1> SUFFICES ASSUME I2cInv, I2c!drain PROVE I2cInv'
  OBVIOUS
<1>1. /\ pc = "read" /\ remain > 0 /\ fifo # << >>
      /\ fifo' = Tail(fifo) /\ got' = Append(got, Head(fifo)) /\ remain' = remain - 1
      /\ UNCHANGED <<active, rd, dlen, flags, held, wire, session, pc, job, n, sent, fault, ret, slow>>
  BY DEF I2c!drain, I2c!RXD
<1>2. n \in Nat /\ job.len \in Nat /\ remain \in Nat /\ dlen \in Nat
  BY DEF I2cInv, I2cTypes, I2cJob
<1>3. fifo \in Seq(Bytes) /\ BSC_FIFO_SIZE \in Nat
  BY I2cConstants DEF I2cInv, I2cTypes, I2c!I2cAssumption
<1>5. fifo' \in Seq(Bytes) /\ Len(fifo') = Len(fifo) - 1 /\ Len(fifo) \in Nat
  BY <1>1, <1>3, HeadTailProperties, LenProperties
<1>6. Len(fifo') <= BSC_FIFO_SIZE /\ remain' \in Nat
  BY <1>1, <1>2, <1>3, <1>5 DEF I2cInv, I2cTypes
<1>7. I2cTypes'
  BY <1>1, <1>5, <1>6 DEF I2cInv, I2cTypes
<1>8. I2cFlags' /\ I2cBetween' /\ I2cResult' /\ I2cWriting'
  BY <1>1 DEF I2cInv, I2cFlags, I2cBetween, I2cResult, I2cWriting
<1>9. I2cReading'
  <2>1. /\ rd /\ job.rd /\ remain <= job.len /\ job.len - remain <= job.len - dlen
        /\ got = Run(n, 1, job.len - remain)
        /\ fifo = Run(n, 1 + job.len - remain, job.len - dlen - (job.len - remain))
    BY <1>1 DEF I2cInv, I2cReading, I2cMoved
  <2>2. PICK g \in Nat : g = job.len - remain
    BY <1>2, <2>1
  <2>3. PICK len \in Nat : len = job.len - dlen - g
    BY <1>2, <2>1, <2>2
  <2>4. 1 + job.len - remain = 1 + g
    BY <1>2, <2>2
  <2>5. fifo = Run(n, 1 + g, len) /\ got = Run(n, 1, g)
    BY <2>1, <2>2, <2>3, <2>4, Zenon
  <2>6. len # 0
    BY <1>1, <1>2, <2>5, RunEmpty
  <2>7. Head(fifo) = <<n, 1 + g>> /\ Tail(fifo) = Run(n, (1 + g) + 1, len - 1)
    <3>1. 1 + g \in Nat
      OBVIOUS
    <3>. QED
      BY <1>2, <2>5, <2>6, <3>1, RunTail
  <2>8. Append(Run(n, 1, g), <<n, 1 + g>>) = Run(n, 1, g + 1)
    BY <1>2, RunAppend
  <2>9. job.len - (remain - 1) = g + 1
    BY <1>2, <2>2
  <2>10. 1 + job.len - (remain - 1) = (1 + g) + 1
    BY <1>2, <2>2
  <2>11. job.len - dlen - (g + 1) = len - 1 /\ g + 1 <= job.len - dlen
    BY <1>2, <2>3, <2>6
  <2>12. remain - 1 <= job.len
    BY <1>2, <2>1
  <2>. QED
    BY <1>1, <2>1, <2>5, <2>7, <2>8, <2>9, <2>10, <2>11, <2>12 DEF I2cReading, I2cMoved
<1>. QED
  BY <1>7, <1>8, <1>9 DEF I2cInv

\* What is left of a write whose bytes have all moved: nothing.
LEMMA I2cWritten ==
  ASSUME I2cInv, pc = "write", dlen = 0
  PROVE  remain = 0 /\ fifo = << >> /\ wire = Run(n, job.from, job.len)
<1>1. /\ job.len - dlen <= sent /\ sent + remain = job.len
      /\ wire = Run(n, job.from, job.len - dlen)
      /\ fifo = Run(n, job.from + (job.len - dlen), sent - (job.len - dlen))
  BY DEF I2cInv, I2cWriting, I2cMoved
<1>2. n \in Nat /\ job.len \in Nat /\ job.from \in Nat /\ sent \in Nat /\ remain \in Nat
  BY DEF I2cInv, I2cTypes, I2cJob
<1>3. job.len - dlen = job.len /\ job.from + job.len \in Nat
  BY <1>2
<1>4. remain = 0 /\ sent - job.len = 0
  BY <1>1, <1>2, <1>3
<1>5. fifo = Run(n, job.from + job.len, 0)
  BY <1>1, <1>3, <1>4, Zenon
<1>6. fifo = << >>
  BY <1>2, <1>3, <1>5, RunEmpty
<1>. QED
  BY <1>1, <1>3, <1>4, <1>6

\* In a read whose bytes have all moved those that are left are in the FIFO.
LEMMA I2cRead ==
  ASSUME I2cInv, pc = "read", dlen = 0
  PROVE  /\ remain = 0 => fifo = << >> /\ got = Run(n, job.from, job.len)
         /\ remain > 0 => fifo # << >>
<1>1. /\ job.rd /\ remain <= job.len
      /\ got = Run(n, 1, job.len - remain)
      /\ fifo = Run(n, 1 + job.len - remain, job.len - dlen - (job.len - remain))
  BY DEF I2cInv, I2cReading, I2cMoved
<1>2. n \in Nat /\ job.len \in Nat /\ remain \in Nat /\ job.from = 1
  BY <1>1 DEF I2cInv, I2cTypes, I2cJob
<1>3. PICK a \in Nat : a = 1 + job.len - remain
  BY <1>1, <1>2
<1>4. job.len - dlen - (job.len - remain) = remain
  BY <1>2
<1>5. fifo = Run(n, a, remain)
  BY <1>1, <1>3, <1>4, Zenon
<1>6. ASSUME remain = 0 PROVE fifo = << >> /\ got = Run(n, job.from, job.len)
  <2>1. fifo = << >>
    BY <1>2, <1>5, <1>6, RunEmpty
  <2>2. job.len - remain = job.len
    BY <1>2, <1>6
  <2>. QED
    BY <1>1, <1>2, <2>1, <2>2
<1>7. ASSUME remain > 0 PROVE fifo # << >>
  <2>1. remain # 0
    BY <1>2, <1>7
  <2>. QED
    BY <1>2, <1>5, <2>1, RunNotEmpty
<1>. QED
  BY <1>6, <1>7

LEMMA I2cReturn ==
  ASSUME I2cInv, pc # "idle", NEW r \in {"ok", "error"}, I2c!Return(r),
         r = "ok" => /\ fifo = << >> /\ ~ active /\ ~ fault
                     /\ (IF job.rd THEN got ELSE wire) = Run(n, job.from, job.len),
         r = "error" => slow \/ fault \/ held
  PROVE  I2cInv'
<1>1. /\ ret' = r /\ pc' = "idle" /\ flags' = {} /\ session' = (IF r = "ok" THEN session ELSE << >>)
      /\ UNCHANGED <<active, rd, dlen, fifo, held, wire, job, n, sent, remain, got, fault, slow>>
  BY DEF I2c!Return, I2c!flags_after
<1>2. session' \in Seq(I2c!Jobs)
  BY <1>1, EmptySeq DEF I2cInv, I2cTypes
<1>3. I2cTypes'
  BY <1>1, <1>2 DEF I2cInv, I2cTypes, I2cPlaces
<1>4. r = "ok" => I2cClean'
  BY <1>1 DEF I2cClean
<1>5. I2cResult'
  BY <1>1, <1>4 DEF I2cResult
<1>6. I2cBetween'
  BY <1>1, <1>4 DEF I2cBetween
<1>. QED
  BY <1>1, <1>3, <1>5, <1>6 DEF I2cInv, I2cFlags, I2cWriting, I2cReading

LEMMA I2cFinishStep == I2cInv /\ I2c!finish => I2cInv'
<1> SUFFICES ASSUME I2cInv, I2c!finish PROVE I2cInv'
  OBVIOUS
<1>1. /\ pc \in {"read", "write"} /\ "done" \in flags
      /\ pc = "read" => ~ (remain > 0 /\ rd /\ fifo # << >>)
      /\ I2c!Return(I2c!outcome)
  BY DEF I2c!finish, I2c!DONE, I2c!RXD, I2c!may_drain
<1>2. ~ active /\ (fault <=> flags \cap {"err", "clkt"} # {}) /\ (fault \/ dlen = 0)
  BY <1>1 DEF I2cInv, I2cFlags
<1>3. remain \in Nat
  BY DEF I2cInv, I2cTypes
<1>4. I2c!outcome = "ok" => ~ fault /\ remain = 0
  BY <1>2, <1>3 DEF I2c!outcome
<1>5. ~ fault => remain = 0
  <2> SUFFICES ASSUME ~ fault PROVE remain = 0
    OBVIOUS
  <2>1. dlen = 0
    BY <1>2
  <2>2. CASE pc = "write"
    BY <2>1, <2>2, I2cWritten
  <2>3. CASE pc = "read"
    <3>1. rd
      BY <2>3 DEF I2cInv, I2cReading
    <3>. QED
      BY <1>1, <1>3, <2>1, <2>3, <3>1, I2cRead
  <2>. QED
    BY <1>1, <2>2, <2>3
<1>6. I2c!outcome = "error" => fault
  BY <1>2, <1>3, <1>5 DEF I2c!outcome
<1>7. I2c!outcome \in {"ok", "error"}
  BY DEF I2c!outcome
<1>8. ASSUME I2c!outcome = "ok"
      PROVE  fifo = << >> /\ (IF job.rd THEN got ELSE wire) = Run(n, job.from, job.len)
  <2>1. dlen = 0 /\ remain = 0
    BY <1>2, <1>4, <1>8
  <2>2. CASE pc = "write"
    BY <2>1, <2>2, I2cWritten DEF I2cInv, I2cWriting
  <2>3. CASE pc = "read"
    BY <2>1, <2>3, I2cRead DEF I2cInv, I2cReading
  <2>. QED
    BY <1>1, <2>2, <2>3
<1>9. pc # "idle"
  BY <1>1
<1>10. I2c!outcome = "ok" => /\ fifo = << >> /\ ~ active /\ ~ fault
                             /\ (IF job.rd THEN got ELSE wire) = Run(n, job.from, job.len)
  BY <1>2, <1>4, <1>8
<1>11. I2c!outcome = "error" => slow \/ fault \/ held
  BY <1>6
<1> DEFINE r == I2c!outcome
<1> HIDE DEF r
<1>12. r \in {"ok", "error"} /\ I2c!Return(r)
  BY <1>1, <1>7 DEF r
<1>13. r = "ok" => /\ fifo = << >> /\ ~ active /\ ~ fault
                   /\ (IF job.rd THEN got ELSE wire) = Run(n, job.from, job.len)
  BY <1>10 DEF r
<1>14. r = "error" => slow \/ fault \/ held
  BY <1>11 DEF r
<1>. QED
  BY <1>9, <1>12, <1>13, <1>14, I2cReturn

LEMMA I2cGiveUpStep == I2cInv /\ I2c!give_up => I2cInv'
<1> SUFFICES ASSUME I2cInv, I2c!give_up PROVE I2cInv'
  OBVIOUS
<1>1. /\ pc = "write" /\ "done" \notin flags /\ I2c!Return("error")
      /\ slow \/ (~ I2c!CanClock /\ ~ (remain > 0 /\ ~ rd /\ Len(fifo) < BSC_FIFO_SIZE))
  BY DEF I2c!give_up, I2c!DONE, I2c!fail_safe_runs_out, I2c!may_fill, I2c!TXD
<1>2. active /\ ~ rd /\ dlen > 0
  BY <1>1 DEF I2cInv, I2cFlags, I2cWriting, I2cTypes
<1>3. slow \/ held
  <2> SUFFICES ASSUME ~ slow, ~ held PROVE FALSE
    OBVIOUS
  <2>1. fifo = << >>
    BY <1>1, <1>2 DEF I2c!CanClock
  <2>2. Len(fifo) < BSC_FIFO_SIZE
    BY <2>1, EmptySeq, I2cConstants DEF I2c!I2cAssumption
  <2>3. n \in Nat /\ job.len \in Nat /\ job.from \in Nat /\ sent \in Nat /\ remain \in Nat /\ dlen \in Nat
    BY DEF I2cInv, I2cTypes, I2cJob
  <2>4. remain = 0
    BY <1>1, <1>2, <2>2, <2>3
  <2>5. /\ job.len - dlen <= sent /\ sent + remain = job.len /\ dlen <= job.len
        /\ fifo = Run(n, job.from + (job.len - dlen), sent - (job.len - dlen))
    BY <1>1 DEF I2cInv, I2cWriting, I2cMoved, I2cTypes
  <2>6. PICK a \in Nat : a = job.from + (job.len - dlen)
    BY <2>3, <2>5
  <2>7. PICK len \in Nat : len = sent - (job.len - dlen)
    BY <2>3, <2>5
  <2>8. len # 0
    BY <1>2, <2>3, <2>4, <2>5, <2>7
  <2>9. fifo = Run(n, a, len)
    BY <2>5, <2>6, <2>7, Zenon
  <2>. QED
    BY <2>1, <2>3, <2>8, <2>9, RunNotEmpty
<1>4. pc # "idle"
  BY <1>1
<1>. QED
  BY <1>1, <1>3, <1>4, I2cReturn

\* The inductive invariant of the I2C part.
LEMMA I2cStep == I2cInv /\ I2c!Next => I2cInv'
<1> SUFFICES ASSUME I2cInv, I2c!Next PROVE I2cInv'
  OBVIOUS
<1>1. CASE I2c!Clock
  BY <1>1, I2cClockStep
<1>2. CASE I2c!Refuse("nack", "err") \/ I2c!Refuse("stretch", "clkt") \/ I2c!Hold
  BY <1>2, I2cDeviceStep
<1>3. CASE I2c!Driver
  BY <1>3, I2cStartStep, I2cFillStep, I2cDrainStep, I2cFinishStep, I2cGiveUpStep DEF I2c!Driver
<1>4. CASE \E s \in I2cSessions : I2c!i2c_acquire(s)
  BY <1>4, I2cAcquireStep
<1>. QED
  BY <1>1, <1>2, <1>3, <1>4 DEF I2c!Next

LEMMA I2cSafe ==
  ASSUME I2cInv
  PROVE  /\ I2c!NoOverrun /\ I2c!WireOwn /\ I2c!ReadOwn /\ I2c!FaultReported
         /\ I2c!NoFalseError
<1>1. I2c!OwnData = Run(n, job.from, job.len)
  BY DEF I2c!OwnData, I2c!Byte, Run
<1>2. I2c!NoOverrun
  BY DEF I2cInv, I2cTypes, I2c!NoOverrun
<1>3. I2c!WireOwn /\ I2c!ReadOwn /\ I2c!FaultReported
  BY <1>1 DEF I2cInv, I2cResult, I2c!WireOwn, I2c!ReadOwn, I2c!FaultReported, I2c!Succeeded
<1>4. I2c!NoFalseError
  BY DEF I2cInv, I2cResult, I2cFlags, I2c!NoFalseError
<1>. QED
  BY <1>2, <1>3, <1>4

-----------------------------------------------------------------------------
(* SPI *)

LEMMA SpiDepths == TxDepth \in Nat /\ TxDepth > 0 /\ RxDepth \in Nat /\ RxDepth > 0
BY SpiConstants DEF Spi!SpiAssumption

LEMMA SpiJobs ==
  ASSUME NEW j \in Spi!Jobs
  PROVE  SpiJob(j)
<1>1. /\ j.fn \in {"byte", "bytes", "regs"} /\ j.out \in Nat /\ j.in \in Nat
      /\ j.wr \in BOOLEAN /\ j.rd \in BOOLEAN /\ j.cont \in BOOLEAN
      /\ ~ j.wr => j.out = 0
      /\ ~ j.rd => j.in = 0
      /\ j.fn = "byte" => j.wr /\ j.out = 1 /\ (j.rd => j.in = 1)
  BY SpiConstants DEF Spi!SpiAssumption
<1>. QED
  BY <1>1 DEF SpiJob

\* The numbers of a transfer.
LEMMA SpiNumbers ==
  ASSUME SpiInv
  PROVE  /\ Register \in Nat /\ First \in Nat /\ First + Register = 1
         /\ job.out \in Nat /\ job.in \in Nat /\ FrameLen \in Nat /\ FrameLen = job.out + Register
         /\ n \in Nat /\ sent \in Nat /\ old \in Nat
<1>1. Register \in {0, 1}
  BY DEF Register
<1>2. First \in Nat /\ First + Register = 1
  BY <1>1 DEF First
<1>3. job.out \in Nat /\ job.in \in Nat /\ n \in Nat /\ sent \in Nat /\ old \in Nat
  BY DEF SpiInv, SpiTypes, SpiJob
<1>. QED
  BY <1>1, <1>2, <1>3 DEF FrameLen

LEMMA SpiSameJob ==
  ASSUME job' = job
  PROVE  /\ Register' = Register /\ First' = First /\ FrameLen' = FrameLen
         /\ Spi!NoTime' = Spi!NoTime
BY DEF Register, First, FrameLen, Spi!NoTime

LEMMA SpiInit == Spi!Init => SpiInv
<1> SUFFICES ASSUME Spi!Init PROVE SpiInv
  OBVIOUS
<1>1. /\ ta = FALSE /\ tx = << >> /\ rx = << >> /\ old = 0 /\ session = << >> /\ pc = "idle" /\ n = 0
      /\ sent = 0 /\ slow = FALSE /\ ret = "none"
  BY DEF Spi!Init
<1>2. tx \in Seq(Bytes) /\ rx \in Seq(Bytes) /\ session \in Seq(Spi!Jobs) /\ Len(tx) = 0 /\ Len(rx) = 0
      /\ Len(session) = 0
  BY <1>1, EmptySeq
<1>3. SpiJob(job)
  BY DEF Spi!Init, SpiJob, Spi!NoJob, Spi!Job
<1>4. Len(tx) <= TxDepth /\ Len(rx) <= RxDepth
  BY <1>2, SpiDepths
<1>5. SpiTypes
  BY <1>1, <1>2, <1>3, <1>4 DEF SpiTypes, SpiPlaces
<1>6. SpiChain
  BY <1>1, <1>2 DEF SpiChain
<1>. QED
  BY <1>1, <1>5, <1>6 DEF SpiInv, SpiBetween, SpiMoving, SpiPlace, SpiResult

\* A byte goes out and the answer to it comes in.
LEMMA SpiClockStep == SpiInv /\ Spi!Clock => SpiInv'
<1> SUFFICES ASSUME SpiInv, Spi!Clock PROVE SpiInv'
  OBVIOUS
<1>1. /\ ta /\ tx # << >> /\ Len(rx) < RxDepth
      /\ tx' = Tail(tx) /\ rx' = Append(rx, Head(tx)) /\ wire' = Append(wire, Head(tx))
      /\ UNCHANGED <<ta, session, pc, job, n, sent, got, slow, old, ret>>
  BY DEF Spi!Clock, Spi!Runs
<1>2. pc # "idle"
  BY <1>1 DEF SpiInv, SpiBetween
<1>3. ret = "none" /\ sent <= job.out /\ \E w, g \in Nat : SpiAt(w, g)
  BY <1>2 DEF SpiInv, SpiMoving
<1>4. PICK w \in Nat, g \in Nat : SpiAt(w, g)
  BY <1>3
<1>5. /\ Register \in Nat /\ First \in Nat /\ job.in \in Nat /\ n \in Nat /\ sent \in Nat /\ old \in Nat
  BY SpiNumbers
<1>6. tx \in Seq(Bytes) /\ rx \in Seq(Bytes) /\ Len(tx) <= TxDepth
  BY DEF SpiInv, SpiTypes
<1>7. PICK len \in Nat : len = (sent + Register) - w
  BY <1>4, <1>5 DEF SpiAt
<1>8. tx = Run(n, First + w, len) /\ First + w \in Nat
  BY <1>4, <1>5, <1>7 DEF SpiAt
<1>9. len # 0
  BY <1>1, <1>5, <1>8, RunEmpty
<1>10. Head(tx) = <<n, First + w>> /\ tx' = Run(n, First + w + 1, len - 1)
  <2>1. /\ Head(Run(n, First + w, len)) = <<n, First + w>>
        /\ Tail(Run(n, First + w, len)) = Run(n, First + w + 1, len - 1)
    BY <1>5, <1>8, <1>9, RunTail
  <2>2. tx' = Tail(tx)
    BY <1>1
  <2>. QED
    BY <1>8, <2>1, <2>2, Zenon
<1>11. wire' = Run(n, First, w + 1)
  <2>1. wire = Run(n, First, w) /\ wire' = Append(wire, Head(tx))
    BY <1>1, <1>4 DEF SpiAt
  <2>2. Append(Run(n, First, w), <<n, First + w>>) = Run(n, First, w + 1)
    BY <1>5, RunAppend
  <2>. QED
    BY <1>10, <2>1, <2>2, Zenon
<1>12. tx' = Run(n, First + (w + 1), (sent + Register) - (w + 1))
  <2>1. First + w + 1 = First + (w + 1) /\ len - 1 = (sent + Register) - (w + 1)
    BY <1>5, <1>7
  <2>. QED
    BY <1>10, <2>1, Zenon
<1>13. Head(tx) \in Bytes
  BY <1>1, <1>6, HeadTailProperties
<1>14. rx' \in Seq(Bytes) /\ Len(rx') = Len(rx) + 1 /\ Len(rx) \in Nat
  BY <1>1, <1>6, <1>13, AppendProperties, LenProperties
<1>15. tx' \in Seq(Bytes) /\ Len(tx') = Len(tx) - 1 /\ Len(tx) \in Nat
  BY <1>1, <1>6, HeadTailProperties, LenProperties
<1>16. job.in > 0 => old = 0 /\ rx' = Run(n, First + g, (w + 1) - g)
  <2> SUFFICES ASSUME job.in > 0 PROVE old = 0 /\ rx' = Run(n, First + g, (w + 1) - g)
    OBVIOUS
  <2>1. old = 0 /\ rx = Run(n, First + g, w - g) /\ g <= w
    BY <1>4 DEF SpiAt
  <2>2. PICK a \in Nat, k \in Nat : a = First + g /\ k = w - g
    BY <1>5, <2>1
  <2>3. First + w = a + k /\ (w + 1) - g = k + 1
    BY <1>5, <2>2
  <2>4. Append(Run(n, a, k), <<n, a + k>>) = Run(n, a, k + 1)
    BY <1>5, RunAppend
  <2>5. rx' = Append(rx, Head(tx))
    BY <1>1
  <2>6. rx' = Append(Run(n, a, k), <<n, a + k>>)
    BY <1>10, <2>1, <2>2, <2>3, <2>5, Zenon
  <2>. QED
    BY <2>1, <2>2, <2>3, <2>4, <2>6, Zenon
<1>17. w + 1 \in Nat /\ w + 1 <= sent + Register /\ g <= w + 1 /\ g <= job.in
  BY <1>4, <1>5, <1>7, <1>9 DEF SpiAt
<1>18. Len(rx') = old + ((w + 1) - g)
  <2>1. Len(rx) = old + (w - g)
    BY <1>4 DEF SpiAt
  <2>. QED
    BY <1>5, <1>14, <2>1
<1>19. /\ got = Run(n, First, g) /\ (job.fn = "byte" => g = 0)
       /\ pc = "done" => sent = job.out /\ (job.fn # "byte" => g = job.in)
  BY <1>4 DEF SpiAt
<1>20. Register' = Register /\ First' = First /\ Spi!NoTime' = Spi!NoTime /\ FrameLen' = FrameLen
  BY <1>1, SpiSameJob
<1>21. SpiAt(w + 1, g)'
  BY <1>1, <1>11, <1>12, <1>16, <1>17, <1>18, <1>19, <1>20 DEF SpiAt
<1>22. SpiMoving'
  BY <1>1, <1>2, <1>3, <1>17, <1>21 DEF SpiInv, SpiMoving
<1>23. SpiTypes'
  <2>1. Len(tx') <= TxDepth /\ Len(rx') <= RxDepth
    BY <1>1, <1>6, <1>14, <1>15, SpiDepths
  <2>. QED
    BY <1>1, <1>14, <1>15, <2>1 DEF SpiInv, SpiTypes
<1>24. SpiChain' /\ SpiBetween'
  BY <1>1, <1>2 DEF SpiInv, SpiChain, SpiBetween
<1>25. SpiPlace' /\ SpiResult'
  BY <1>1, <1>2, <1>3, <1>20 DEF SpiInv, SpiPlace, SpiResult
<1>. QED
  BY <1>22, <1>23, <1>24, <1>25 DEF SpiInv

LEMMA SpiAcquireStep ==
  ASSUME SpiInv, NEW s \in SpiSessions, Spi!spi_acquire(s)
  PROVE  SpiInv'
<1>1. /\ session' = s /\ pc = "idle" /\ ta' = FALSE /\ tx' = << >> /\ rx' = << >>
      /\ UNCHANGED <<wire, pc, job, n, sent, got, slow, old, ret>>
  BY DEF Spi!spi_acquire
<1>2. s \in Seq(Spi!Jobs) /\ \A i \in 1 .. Len(s) : i < Len(s) => Spi!Continues(s[i], s[i + 1])
  BY SpiConstants DEF Spi!SpiAssumption, Spi!IsSession
<1>3. tx' \in Seq(Bytes) /\ rx' \in Seq(Bytes) /\ Len(tx') = 0 /\ Len(rx') = 0
  BY <1>1, EmptySeq
<1>4. Len(tx') <= TxDepth /\ Len(rx') <= RxDepth
  BY <1>3, SpiDepths
<1>5. SpiTypes'
  BY <1>1, <1>2, <1>3, <1>4 DEF SpiInv, SpiTypes
<1>6. SpiChain'
  BY <1>1, <1>2 DEF SpiChain
<1>7. SpiPlace' /\ SpiResult'
  BY <1>1, SpiSameJob DEF SpiInv, SpiPlace, SpiResult
<1>. QED
  BY <1>1, <1>5, <1>6, <1>7 DEF SpiInv, SpiBetween, SpiMoving

\* A transfer starts with its register alone in the TX FIFO, and with an empty RX
\* FIFO when it returns answers.
LEMMA SpiStartStep == SpiInv /\ Spi!Start => SpiInv'
<1> SUFFICES ASSUME SpiInv, Spi!Start PROVE SpiInv'
  OBVIOUS
<1> DEFINE j == Head(session)
           kept == IF Spi!clears(j) THEN << >> ELSE tx
<1>1. session \in Seq(Spi!Jobs) /\ session # << >> /\ pc = "idle" /\ n \in Nat /\ ~ ta
  BY DEF SpiInv, SpiTypes, SpiBetween, Spi!Start
<1>2. j = session[1] /\ j \in Spi!Jobs /\ Tail(session) \in Seq(Spi!Jobs)
  BY <1>1, HeadTailProperties
<1>3. SpiJob(j)
  BY <1>2, SpiJobs
<1>4. kept = << >>
  BY <1>1, <1>2 DEF SpiInv, SpiBetween
<1>5. /\ job' = j /\ tx' = (IF j.fn = "regs" THEN Append(kept, <<n + 1, 0>>) ELSE kept)
      /\ rx' = (IF Spi!clears(j) THEN << >> ELSE rx)
      /\ old' = (IF Spi!clears(j) THEN 0 ELSE Len(rx))
      /\ pc' = Spi!FirstPlace(j) /\ session' = Tail(session)
      /\ n' = n + 1 /\ sent' = 0 /\ got' = << >> /\ ret' = "none" /\ slow' \in BOOLEAN
      /\ ta' = TRUE /\ wire' = (IF ta THEN wire ELSE << >>)
  BY Zenon DEF Spi!Start
<1>6. j.in > 0 => rx' = << >>
  BY <1>1, <1>2, <1>5 DEF SpiInv, SpiBetween
<1>7. rx' \in Seq(Bytes) /\ old' = Len(rx') /\ old' \in Nat /\ Len(rx') <= RxDepth
  <2>1. CASE Spi!clears(j)
    BY <1>5, <2>1, EmptySeq, SpiDepths
  <2>2. CASE ~ Spi!clears(j)
    BY <1>5, <2>2, LenProperties DEF SpiInv, SpiTypes
  <2>. QED
    BY <2>1, <2>2
<1>8. n' \in Nat /\ wire' = << >>
  BY <1>1, <1>5
<1>9. /\ j.fn \in {"byte", "bytes", "regs"} /\ j.out \in Nat /\ j.in \in Nat
      /\ j.wr \in BOOLEAN /\ j.rd \in BOOLEAN /\ (j.fn = "byte" => j.wr)
  BY <1>3 DEF SpiJob
<1>10. Register' = (IF j.fn = "regs" THEN 1 ELSE 0) /\ First' = 1 - Register'
  BY <1>5 DEF Register, First
<1>11. Register' \in Nat /\ First' \in Nat
  BY <1>10
<1>12. tx' = Run(n', First', Register')
  <2>1. CASE j.fn = "regs"
    <3>1. tx' = Append(<< >>, <<n', 0>>)
      BY <1>4, <1>5, <2>1
    <3>2. Append(Run(n', 0, 0), <<n', 0 + 0>>) = Run(n', 0, 0 + 1)
      BY <1>8, RunAppend
    <3>3. Run(n', 0, 0) = << >>
      BY <1>8, RunEmpty
    <3>4. 0 + 0 = 0 /\ 0 + 1 = 1 /\ First' = 0 /\ Register' = 1
      BY <1>10, <2>1
    <3>. QED
      BY <3>1, <3>2, <3>3, <3>4
  <2>2. CASE j.fn # "regs"
    <3>1. tx' = << >> /\ Register' = 0
      BY <1>4, <1>5, <1>10, <2>2
    <3>. QED
      BY <1>8, <1>11, <3>1, RunEmpty
  <2>. QED
    BY <2>1, <2>2
<1>13. tx' \in Seq(Bytes) /\ Len(tx') = Register'
  BY <1>8, <1>11, <1>12, RunSeq
<1>14. Len(tx') <= TxDepth
  BY <1>10, <1>13, SpiDepths
<1>15. pc' \in {"tx", "rx", "end"} /\ (pc' = "tx" => j.wr) /\ (pc' = "rx" => j.rd) /\ (j.wr => pc' = "tx")
  BY <1>5 DEF Spi!FirstPlace
<1>16. SpiTypes'
  BY <1>2, <1>3, <1>5, <1>7, <1>8, <1>13, <1>14, <1>15 DEF SpiTypes, SpiPlaces
<1> HIDE DEF j, kept
<1>17. SpiAt(0, 0)'
  <2>1. wire' = Run(n', First', 0) /\ got' = Run(n', First', 0)
    BY <1>5, <1>8, <1>11, RunEmpty
  <2>2. /\ First' + 0 = First' /\ (0 + Register') - 0 = Register' /\ 0 <= 0 + Register' /\ 0 - 0 = 0
        /\ old' + (0 - 0) = old' /\ 0 <= j.in
    <3>1. First' + 0 = First' /\ (0 + Register') - 0 = Register' /\ 0 <= 0 + Register' /\ 0 - 0 = 0
      <4>1. PICK a \in Nat, k \in Nat : a = First' /\ k = Register'
        BY <1>11
      <4>2. a + 0 = a /\ (0 + k) - 0 = k /\ 0 <= 0 + k /\ 0 - 0 = 0
        OBVIOUS
      <4>. QED
        BY <4>1, <4>2
    <3>2. old' + (0 - 0) = old'
      BY <1>7
    <3>3. 0 <= j.in
      BY <1>9
    <3>. QED
      BY <3>1, <3>2, <3>3
  <2>3. tx' = Run(n', First' + 0, (sent' + Register') - 0)
    BY <1>5, <1>12, <2>2
  <2>4. Len(rx') = old' + (0 - 0)
    BY <1>7, <2>2
  <2>5. j.in > 0 => old' = 0 /\ rx' = Run(n', First' + 0, 0 - 0)
    <3> SUFFICES ASSUME j.in > 0 PROVE old' = 0 /\ rx' = Run(n', First' + 0, 0 - 0)
      OBVIOUS
    <3>1. rx' = << >> /\ old' = 0
      BY <1>6, <1>7, EmptySeq
    <3>. QED
      BY <1>8, <1>11, <2>2, <3>1, RunEmpty
  <2>6. 0 <= sent' + Register' /\ 0 <= 0 /\ 0 <= job'.in
    BY <1>5, <2>2
  <2>. QED
    BY <1>5, <1>15, <2>1, <2>3, <2>4, <2>5, <2>6 DEF SpiAt
<1>18. SpiMoving'
  <2>1. sent' <= job'.out
    BY <1>5, <1>9
  <2>. QED
    BY <1>5, <1>15, <1>17, <2>1 DEF SpiMoving
<1>19. SpiChain'
  <2>1. /\ Len(session') = Len(session) - 1 /\ Len(session) \in Nat
        /\ \A i \in 1 .. Len(session) - 1 : session'[i] = session[i + 1]
    BY <1>1, <1>5, HeadTailProperties, LenProperties
  <2>2. \A i \in 1 .. Len(session) : i < Len(session) => Spi!Continues(session[i], session[i + 1])
    BY DEF SpiInv, SpiChain
  <2>3. ASSUME NEW i \in 1 .. Len(session'), i < Len(session')
        PROVE  Spi!Continues(session'[i], session'[i + 1])
    <3>1. /\ i \in 1 .. Len(session) - 1 /\ i + 1 \in 1 .. Len(session) - 1
          /\ i + 1 \in 1 .. Len(session) /\ i + 1 < Len(session)
      BY <2>1, <2>3
    <3>. QED
      BY <2>1, <2>2, <3>1
  <2>4. ASSUME session' # << >> PROVE Spi!Continues(job', session'[1])
    <3>1. Len(session') # 0
      BY <1>2, <1>5, <2>4, EmptySeq
    <3>2. 1 \in 1 .. Len(session) - 1 /\ 1 \in 1 .. Len(session) /\ 1 < Len(session)
      BY <2>1, <3>1
    <3>3. session'[1] = session[1 + 1] /\ Spi!Continues(session[1], session[1 + 1])
      BY <2>1, <2>2, <3>2
    <3>. QED
      BY <1>2, <1>5, <3>3
  <2>. QED
    BY <2>3, <2>4 DEF SpiChain
<1>20. SpiPlace'
  BY <1>5, <1>9, <1>15 DEF SpiPlace
<1>21. SpiBetween' /\ SpiResult'
  BY <1>5, <1>15 DEF SpiBetween, SpiResult
<1>. QED
  BY <1>16, <1>18, <1>19, <1>20, <1>21 DEF SpiInv

\* What every return leaves, and what its result must mean.
LEMMA SpiReturn ==
  ASSUME SpiInv, pc # "idle", NEW r \in {"ok", "timeout"}, Spi!Return(r),
         rx' \in Seq(Bytes), Len(rx') <= RxDepth,
         r = "ok" =>
             /\ tx = << >> \/ (job.fn = "regs" /\ Spi!FirstPlace(job) = "end")
             /\ job.in <= FrameLen /\ got' = Run(n, First, job.in)
             /\ Spi!FirstPlace(job) # "end" => wire = Run(n, First, FrameLen),
         r = "timeout" =>
             slow \/ Spi!NoTime \/ FrameLen < job.in \/ (FrameLen - job.in) + old > RxDepth
  PROVE  SpiInv'
<1>1. /\ ret' = r /\ pc' = "idle" /\ ta' = FALSE /\ session' = (IF r = "ok" THEN session ELSE << >>)
      /\ UNCHANGED <<tx, wire, job, n, sent, slow, old>>
  BY DEF Spi!Return
<1>2. session' \in Seq(Spi!Jobs)
  BY <1>1, EmptySeq DEF SpiInv, SpiTypes
<1>3. SpiTypes'
  BY <1>1, <1>2 DEF SpiInv, SpiTypes, SpiPlaces
<1>4. SpiChain'
  <2>1. CASE r = "ok"
    BY <1>1, <2>1 DEF SpiInv, SpiChain
  <2>2. CASE r # "ok"
    <3>1. Len(session') = 0
      BY <1>1, <2>2, EmptySeq
    <3>. QED
      BY <1>1, <3>1 DEF SpiChain
  <2>. QED
    BY <2>1, <2>2
<1>5. SpiBetween'
  <2> SUFFICES ASSUME session' # << >>, ~ Spi!clears(session'[1])
               PROVE  tx' = << >> /\ ~ (session'[1].in > 0)
    BY <1>1 DEF SpiBetween
  <2>1. r = "ok" /\ session' = session
    BY <1>1
  <2>2. Spi!Continues(job, session[1])
    BY <2>1 DEF SpiInv, SpiChain
  <2>3. session[1].in = 0 /\ ~ (job.fn = "regs" /\ Spi!FirstPlace(job) = "end")
    BY <2>1, <2>2 DEF Spi!Continues
  <2>. QED
    BY <1>1, <2>1, <2>3
<1>6. FrameLen' = FrameLen /\ First' = First /\ Spi!NoTime' = Spi!NoTime
  BY <1>1, SpiSameJob
<1>7. SpiResult'
  BY <1>1, <1>6 DEF SpiResult
<1>8. SpiPlace' /\ SpiMoving'
  BY <1>1 DEF SpiPlace, SpiMoving
<1>. QED
  BY <1>3, <1>4, <1>5, <1>7, <1>8 DEF SpiInv

\* A step of the driver that only changes its place.
LEMMA SpiMove ==
  ASSUME SpiInv, pc # "idle", job.fn # "byte", pc' \in {"tx", "rx", "test", "done"}, pc # "end",
         UNCHANGED <<ta, tx, rx, wire, session, job, n, sent, got, slow, old, ret>>,
         pc' = "tx" => job.wr, pc' = "rx" => job.rd,
         pc' = "done" => sent >= job.out /\ Len(got) >= job.in
  PROVE  SpiInv'
<1>1. ret = "none" /\ sent <= job.out /\ ta /\ \E w, g \in Nat : SpiAt(w, g)
  BY DEF SpiInv, SpiMoving
<1>2. PICK w \in Nat, g \in Nat : SpiAt(w, g)
  BY <1>1
<1>3. /\ First \in Nat /\ job.in \in Nat /\ job.out \in Nat /\ n \in Nat /\ sent \in Nat
  BY SpiNumbers
<1>4. got = Run(n, First, g) /\ g <= job.in
  BY <1>2 DEF SpiAt
<1>5. Len(got) = g
  BY <1>3, <1>4, RunSeq
<1>6. pc' = "done" => sent = job.out /\ g = job.in
  BY <1>1, <1>3, <1>4, <1>5
<1>7. Register' = Register /\ First' = First /\ Spi!NoTime' = Spi!NoTime /\ FrameLen' = FrameLen
  BY SpiSameJob
<1>8. SpiAt(w, g)'
  BY <1>2, <1>6, <1>7 DEF SpiAt
<1>9. SpiMoving'
  BY <1>1, <1>8 DEF SpiMoving
<1>10. SpiTypes' /\ SpiBetween' /\ SpiResult'
  BY <1>1 DEF SpiInv, SpiTypes, SpiPlaces, SpiBetween, SpiResult
<1>11. SpiChain'
  BY DEF SpiInv, SpiChain
<1>12. SpiPlace'
  BY DEF SpiInv, SpiPlace
<1>. QED
  BY <1>9, <1>10, <1>11, <1>12 DEF SpiInv

\* A byte is written to the TX FIFO.
LEMMA SpiWriteFifo ==
  ASSUME SpiInv, pc = "tx", Spi!WriteFifo,
         IF job.fn = "byte" THEN pc' = "done" ELSE pc' = "tx"
  PROVE  SpiInv'
<1>1. /\ Len(tx) < TxDepth /\ sent < job.out /\ tx' = Append(tx, <<n, sent + 1>>) /\ sent' = sent + 1
      /\ UNCHANGED <<ta, rx, wire, session, job, n, got, slow, old, ret>>
  BY DEF Spi!WriteFifo, Spi!TXD, Spi!Byte
<1>2. ret = "none" /\ ta /\ \E w, g \in Nat : SpiAt(w, g)
  BY DEF SpiInv, SpiMoving
<1>3. PICK w \in Nat, g \in Nat : SpiAt(w, g)
  BY <1>2
<1>4. /\ First \in Nat /\ Register \in Nat /\ First + Register = 1 /\ job.out \in Nat
      /\ n \in Nat /\ sent \in Nat
  BY SpiNumbers
<1>5. tx = Run(n, First + w, (sent + Register) - w) /\ w <= sent + Register
  BY <1>3 DEF SpiAt
<1>6. PICK a \in Nat : a = First + w
  BY <1>4
<1>7. PICK len \in Nat : len = (sent + Register) - w
  BY <1>4, <1>5
<1>8. sent + 1 = a + len
  BY <1>4, <1>6, <1>7
<1>9. ((sent + 1) + Register) - w = len + 1 /\ w <= (sent + 1) + Register
  BY <1>4, <1>5, <1>7
<1>10. tx' = Run(n, First + w, ((sent + 1) + Register) - w)
  <2>1. Append(Run(n, a, len), <<n, a + len>>) = Run(n, a, len + 1)
    BY <1>4, RunAppend
  <2>2. tx = Run(n, a, len) /\ tx' = Append(tx, <<n, sent + 1>>)
    BY <1>1, <1>5, <1>6, <1>7
  <2>. QED
    BY <1>6, <1>8, <1>9, <2>1, <2>2, Zenon
<1>11. tx' \in Seq(Bytes) /\ Len(tx') <= TxDepth
  <2>1. tx \in Seq(Bytes) /\ <<n, sent + 1>> \in Bytes
    BY <1>4 DEF SpiInv, SpiTypes, Bytes
  <2>2. tx' \in Seq(Bytes) /\ Len(tx') = Len(tx) + 1 /\ Len(tx) \in Nat
    BY <1>1, <2>1, AppendProperties, LenProperties
  <2>. QED
    BY <1>1, <2>2, SpiDepths
<1>12. sent' \in Nat /\ sent' <= job.out
  BY <1>1, <1>4
<1>13. job.fn = "byte" => sent' = job.out
  <2>1. job.fn = "byte" => sent = 0 /\ job.out = 1
    BY DEF SpiInv, SpiPlace, SpiTypes, SpiJob
  <2>. QED
    BY <1>1, <2>1
<1>14. Register' = Register /\ First' = First
  BY <1>1, SpiSameJob
<1>15. SpiAt(w, g)'
  BY <1>1, <1>3, <1>9, <1>10, <1>13, <1>14 DEF SpiAt
<1>16. pc' \in {"tx", "done"}
  OBVIOUS
<1>17. SpiMoving'
  BY <1>1, <1>2, <1>12, <1>15 DEF SpiMoving
<1>18. SpiTypes' /\ SpiBetween' /\ SpiResult'
  BY <1>1, <1>2, <1>11, <1>12, <1>16 DEF SpiInv, SpiTypes, SpiPlaces, SpiBetween, SpiResult
<1>19. SpiChain'
  BY <1>1, <1>16 DEF SpiInv, SpiChain
<1>20. SpiPlace'
  BY <1>1, <1>16 DEF SpiInv, SpiPlace
<1>. QED
  BY <1>17, <1>18, <1>19, <1>20 DEF SpiInv

\* The TX FIFO is empty when all that was written has been clocked out.
LEMMA SpiTx ==
  ASSUME SpiInv, NEW w \in Nat, NEW g \in Nat, SpiAt(w, g)
  PROVE  /\ tx = << >> <=> w = sent + Register
         /\ tx = << >> => Len(tx) < TxDepth
         /\ Len(got) = g
<1>1. /\ First \in Nat /\ Register \in Nat /\ n \in Nat /\ sent \in Nat
  BY SpiNumbers
<1>2. /\ tx = Run(n, First + w, (sent + Register) - w) /\ w <= sent + Register
      /\ got = Run(n, First, g)
  BY DEF SpiAt
<1>3. PICK a \in Nat : a = First + w
  BY <1>1
<1>4. PICK len \in Nat : len = (sent + Register) - w
  BY <1>1, <1>2
<1>5. tx = Run(n, a, len)
  BY <1>2, <1>3, <1>4
<1>6. tx = << >> <=> len = 0
  BY <1>1, <1>5, RunEmpty, RunNotEmpty
<1>7. len = 0 <=> w = sent + Register
  BY <1>1, <1>4
<1>8. tx = << >> => Len(tx) < TxDepth
  BY EmptySeq, SpiDepths
<1>9. Len(got) = g
  BY <1>1, <1>2, RunSeq
<1>. QED
  BY <1>6, <1>7, <1>8, <1>9

\* Nothing is clocked although there is something to send: then the RX FIFO is
\* full, with more answers than anyone takes out.
LEMMA SpiStuck ==
  ASSUME SpiInv, pc # "idle", NEW w \in Nat, NEW g \in Nat, SpiAt(w, g),
         tx # << >>, ~ Spi!Runs, g = job.in
  PROVE  (FrameLen - job.in) + old > RxDepth
<1>1. /\ Register \in Nat /\ job.out \in Nat /\ job.in \in Nat /\ FrameLen \in Nat
      /\ FrameLen = job.out + Register /\ sent \in Nat /\ old \in Nat
  BY SpiNumbers
<1>2. ta /\ sent <= job.out
  BY DEF SpiInv, SpiMoving
<1>3. Len(rx) = old + (w - g) /\ w <= sent + Register /\ g <= w
  BY DEF SpiAt
<1>4. w # sent + Register
  BY SpiTx
<1>5. RxDepth \in Nat /\ Len(rx) \in Nat
  BY SpiDepths, LenProperties DEF SpiInv, SpiTypes
<1>6. Len(rx) >= RxDepth
  BY <1>2, <1>5 DEF Spi!Runs
<1>7. old + (w - g) >= RxDepth
  BY <1>3, <1>6
<1>8. w + 1 <= FrameLen
  BY <1>1, <1>2, <1>3, <1>4
<1>9. (FrameLen - g) + old > RxDepth
  <2>1. FrameLen \in Nat /\ old \in Nat /\ RxDepth \in Nat
    BY <1>1, <1>5
  <2>. QED
    BY <2>1, <1>7, <1>8
<1>. QED
  BY <1>9

LEMMA SpiByteTxStep == SpiInv /\ Spi!byte_tx => SpiInv'
<1> SUFFICES ASSUME SpiInv, Spi!byte_tx PROVE SpiInv'
  OBVIOUS
<1>1. pc = "tx" /\ job.fn = "byte"
  BY DEF Spi!byte_tx
<1>2. CASE Spi!WriteFifo /\ pc' = "done"
  BY <1>1, <1>2, SpiWriteFifo
<1>3. CASE (slow \/ (~ Spi!TXD /\ ~ Spi!Runs)) /\ Spi!Return("timeout") /\ UNCHANGED <<rx, got>>
  <2>1. \E w, g \in Nat : SpiAt(w, g)
    BY <1>1 DEF SpiInv, SpiMoving
  <2>2. PICK w \in Nat, g \in Nat : SpiAt(w, g)
    BY <2>1
  <2>3. sent = 0 /\ Register = 0 /\ w <= sent + Register
    BY <1>1, <2>2 DEF SpiInv, SpiPlace, SpiAt, Register
  <2>4. w = sent + Register
    BY <2>3
  <2>5. Spi!TXD
    BY <2>2, <2>4, SpiTx DEF Spi!TXD
  <2>6. slow
    BY <1>3, <2>5
  <2>7. rx' \in Seq(Bytes) /\ Len(rx') <= RxDepth
    BY <1>3 DEF SpiInv, SpiTypes
  <2>. QED
    BY <1>1, <1>3, <2>6, <2>7, SpiReturn
<1>. QED
  BY <1>2, <1>3 DEF Spi!byte_tx

LEMMA SpiFillStep == SpiInv /\ Spi!fill_tx => SpiInv'
<1> SUFFICES ASSUME SpiInv, Spi!fill_tx PROVE SpiInv'
  OBVIOUS
<1>1. pc = "tx" /\ job.fn # "byte"
  BY DEF Spi!fill_tx
<1>2. CASE Spi!WriteFifo /\ pc' = pc
  BY <1>1, <1>2, SpiWriteFifo
<1>3. CASE /\ pc' = IF job.rd THEN "rx" ELSE "test"
           /\ UNCHANGED <<ta, tx, rx, wire, session, job, n, sent, got, slow, old, ret>>
  <2>1. pc' \in {"tx", "rx", "test", "done"} /\ pc' # "tx" /\ pc' # "done" /\ (pc' = "rx" => job.rd)
    BY <1>3
  <2>. QED
    BY <1>1, <1>3, <2>1, SpiMove
<1>. QED
  BY <1>2, <1>3 DEF Spi!fill_tx, Spi!hardware

LEMMA SpiDrainStep == SpiInv /\ Spi!drain_rx => SpiInv'
<1> SUFFICES ASSUME SpiInv, Spi!drain_rx PROVE SpiInv'
  OBVIOUS
<1>1. pc = "rx" /\ job.fn # "byte"
  BY DEF Spi!drain_rx, SpiInv, SpiPlace
<1>2. CASE /\ rx # << >> /\ Len(got) < job.in
           /\ got' = Append(got, Head(rx)) /\ rx' = Tail(rx)
           /\ UNCHANGED <<ta, tx, wire, session, pc, job, n, sent, slow, old, ret>>
  <2>1. ret = "none" /\ sent <= job.out /\ ta /\ \E w, g \in Nat : SpiAt(w, g)
    BY <1>1 DEF SpiInv, SpiMoving
  <2>2. PICK w \in Nat, g \in Nat : SpiAt(w, g)
    BY <2>1
  <2>3. /\ First \in Nat /\ job.in \in Nat /\ n \in Nat /\ old \in Nat
    BY SpiNumbers
  <2>4. g < job.in
    BY <1>2, <2>2, SpiTx
  <2>5. old = 0 /\ rx = Run(n, First + g, w - g) /\ g <= w /\ got = Run(n, First, g) /\ Len(rx) = old + (w - g)
    BY <2>2, <2>3, <2>4 DEF SpiAt
  <2>6. PICK a \in Nat : a = First + g
    BY <2>3
  <2>7. PICK len \in Nat : len = w - g
    BY <2>5
  <2>8. rx = Run(n, a, len)
    BY <2>5, <2>6, <2>7
  <2>9. len # 0
    BY <1>2, <2>3, <2>8, RunEmpty
  <2>10. Head(rx) = <<n, a>> /\ Tail(rx) = Run(n, a + 1, len - 1)
    BY <2>3, <2>8, <2>9, RunTail
  <2>11. Append(Run(n, First, g), <<n, First + g>>) = Run(n, First, g + 1)
    BY <2>3, RunAppend
  <2>12. got' = Run(n, First, g + 1)
    <3>1. got' = Append(got, Head(rx))
      BY <1>2
    <3>. QED
      BY <2>5, <2>6, <2>10, <2>11, <3>1, Zenon
  <2>13. a + 1 = First + (g + 1) /\ len - 1 = w - (g + 1) /\ g + 1 <= w /\ g + 1 <= job.in
    BY <2>3, <2>4, <2>6, <2>7, <2>9
  <2>14. rx' = Run(n, First + (g + 1), w - (g + 1))
    BY <1>2, <2>10, <2>13
  <2>15. rx' \in Seq(Bytes) /\ Len(rx') = Len(rx) - 1 /\ Len(rx) \in Nat /\ Len(rx) <= RxDepth
    BY <1>2, HeadTailProperties, LenProperties DEF SpiInv, SpiTypes
  <2>16. Len(rx') = old + (w - (g + 1)) /\ Len(rx') <= RxDepth
    BY <2>3, <2>5, <2>15, SpiDepths
  <2>17. Register' = Register /\ First' = First
    BY <1>2, SpiSameJob
  <2>18. /\ w <= sent + Register /\ wire = Run(n, First, w) /\ tx = Run(n, First + w, (sent + Register) - w)
    BY <2>2 DEF SpiAt
  <2>19. SpiAt(w, g + 1)'
    BY <1>1, <1>2, <2>5, <2>12, <2>13, <2>14, <2>16, <2>17, <2>18 DEF SpiAt
  <2>20. SpiMoving'
    BY <1>2, <2>1, <2>19 DEF SpiMoving
  <2>21. SpiTypes' /\ SpiBetween' /\ SpiResult'
    BY <1>1, <1>2, <2>1, <2>15, <2>16 DEF SpiInv, SpiTypes, SpiBetween, SpiResult
  <2>22. SpiChain' /\ SpiPlace'
    BY <1>1, <1>2 DEF SpiInv, SpiChain, SpiPlace
  <2>. QED
    BY <2>20, <2>21, <2>22 DEF SpiInv
<1>3. CASE /\ pc' = "test"
           /\ UNCHANGED <<ta, tx, rx, wire, session, job, n, sent, got, slow, old, ret>>
  BY <1>1, <1>3, SpiMove
<1>. QED
  BY <1>2, <1>3 DEF Spi!drain_rx, Spi!hardware, Spi!RXD

\* Neither side can make a move in a transfer that has not moved all its bytes:
\* then it asks for more answers than it sends bytes, or leaves more than fit.
LEMMA SpiBlocked ==
  ASSUME SpiInv, pc # "idle", Spi!gives_up
  PROVE  FrameLen < job.in \/ (FrameLen - job.in) + old > RxDepth
<1>1. \E w, g \in Nat : SpiAt(w, g)
  BY DEF SpiInv, SpiMoving
<1>2. PICK w \in Nat, g \in Nat : SpiAt(w, g)
  BY <1>1
<1>3. /\ Register \in Nat /\ First \in Nat /\ job.out \in Nat /\ job.in \in Nat /\ FrameLen \in Nat
      /\ FrameLen = job.out + Register /\ sent \in Nat /\ old \in Nat /\ n \in Nat
  BY SpiNumbers
<1>4. sent <= job.out /\ g <= job.in /\ g <= w /\ Len(rx) = old + (w - g)
  BY <1>2 DEF SpiInv, SpiMoving, SpiAt
<1>5. /\ (tx = << >> <=> w = sent + Register) /\ (tx = << >> => Len(tx) < TxDepth) /\ Len(got) = g
  BY <1>2, SpiTx
<1>6. /\ ~ (sent >= job.out /\ Len(got) >= job.in) /\ ~ Spi!Runs
      /\ ~ (Len(tx) < TxDepth /\ sent < job.out) /\ ~ (rx # << >> /\ Len(got) < job.in)
  BY DEF Spi!gives_up, Spi!moved_all, Spi!Blocked, Spi!TXD, Spi!RXD
<1>7. CASE tx = << >>
  <2>1. sent = job.out /\ w = FrameLen
    BY <1>3, <1>4, <1>5, <1>6, <1>7
  <2>2. g < job.in
    BY <1>3, <1>4, <1>5, <1>6, <2>1
  <2>3. rx = << >>
    BY <1>5, <1>6, <2>2
  <2>4. old = 0 /\ Len(rx) = 0
    BY <1>2, <1>3, <2>2, <2>3, EmptySeq DEF SpiAt
  <2>5. w = g
    BY <1>4, <2>4
  <2>. QED
    BY <2>1, <2>2, <2>5
<1>8. CASE tx # << >>
  <2>1. rx # << >>
    <3>1. ta
      BY DEF SpiInv, SpiMoving
    <3>2. ~ (Len(rx) < RxDepth)
      BY <1>6, <1>8, <3>1 DEF Spi!Runs
    <3>. QED
      BY <3>2, EmptySeq, SpiDepths
  <2>2. g = job.in
    BY <1>3, <1>4, <1>5, <1>6, <2>1
  <2>. QED
    BY <1>2, <1>6, <1>8, <2>2, SpiStuck
<1>. QED
  BY <1>7, <1>8

LEMMA SpiTestStep == SpiInv /\ Spi!test => SpiInv'
<1> SUFFICES ASSUME SpiInv, Spi!test PROVE SpiInv'
  OBVIOUS
<1>1. pc = "test" /\ job.fn # "byte" /\ Spi!FirstPlace(job) # "end"
  BY DEF Spi!test, SpiInv, SpiPlace
<1>2. CASE /\ Spi!moved_all /\ pc' = "done"
           /\ UNCHANGED <<ta, tx, rx, wire, session, job, n, sent, got, slow, old, ret>>
  <2>1. sent >= job.out /\ Len(got) >= job.in
    BY <1>2 DEF Spi!moved_all
  <2>. QED
    BY <1>1, <1>2, <2>1, SpiMove
<1>3. CASE /\ pc' = Spi!FirstPlace(job)
           /\ UNCHANGED <<ta, tx, rx, wire, session, job, n, sent, got, slow, old, ret>>
  <2>1. pc' \in {"tx", "rx"} /\ (pc' = "tx" => job.wr) /\ (pc' = "rx" => job.rd)
    BY <1>1, <1>3 DEF Spi!FirstPlace
  <2>. QED
    BY <1>1, <1>3, <2>1, SpiMove
<1>4. CASE (slow \/ Spi!gives_up) /\ Spi!Return("timeout") /\ UNCHANGED <<rx, got>>
  <2>1. rx' \in Seq(Bytes) /\ Len(rx') <= RxDepth
    BY <1>4 DEF SpiInv, SpiTypes
  <2>2. slow \/ FrameLen < job.in \/ (FrameLen - job.in) + old > RxDepth
    BY <1>1, <1>4, SpiBlocked
  <2>. QED
    BY <1>1, <1>4, <2>1, <2>2, SpiReturn
<1>. QED
  BY <1>2, <1>3, <1>4 DEF Spi!test, Spi!hardware

\* DONE with all bytes written: they have been clocked out.
LEMMA SpiDoneStep == SpiInv /\ Spi!wait_done => SpiInv'
<1> SUFFICES ASSUME SpiInv, Spi!wait_done PROVE SpiInv'
  OBVIOUS
<1>1. pc = "done"
  BY DEF Spi!wait_done
<1>2. \E w, g \in Nat : SpiAt(w, g)
  BY <1>1 DEF SpiInv, SpiMoving
<1>3. PICK w \in Nat, g \in Nat : SpiAt(w, g)
  BY <1>2
<1>4. /\ Register \in Nat /\ First \in Nat /\ job.out \in Nat /\ job.in \in Nat /\ FrameLen \in Nat
      /\ FrameLen = job.out + Register /\ n \in Nat /\ old \in Nat
  BY SpiNumbers
<1>5. /\ sent = job.out /\ (job.fn # "byte" => g = job.in) /\ (job.fn = "byte" => g = 0) /\ g <= w
      /\ wire = Run(n, First, w) /\ got = Run(n, First, g) /\ Len(rx) = old + (w - g)
      /\ job.in > 0 => old = 0 /\ rx = Run(n, First + g, w - g)
  BY <1>1, <1>3 DEF SpiAt
<1>6. tx = << >> <=> w = FrameLen
  BY <1>3, <1>4, <1>5, SpiTx
<1>7. job.fn = "byte" => job.wr /\ job.out = 1 /\ (job.rd => job.in = 1) /\ (~ job.rd => job.in = 0) /\ FrameLen = 1
  BY DEF SpiInv, SpiTypes, SpiJob, FrameLen, Register
<1>8. rx \in Seq(Bytes) /\ Len(rx) \in Nat /\ Len(rx) <= RxDepth
  BY LenProperties DEF SpiInv, SpiTypes
<1>9. CASE /\ tx = << >> /\ Spi!Return("ok") /\ job.fn = "byte" /\ job.rd
           /\ got' = <<IF Spi!RXD THEN Head(rx) ELSE Spi!Garbage>>
           /\ rx' = IF Spi!RXD THEN Tail(rx) ELSE rx
  <2>1. w = 1 /\ g = 0 /\ job.in = 1 /\ FrameLen = 1
    BY <1>5, <1>6, <1>7, <1>9
  <2>2. First + 0 = First /\ 1 - 0 = 1
    BY <1>4
  <2>3. rx = Run(n, First, 1)
    BY <1>5, <2>1, <2>2
  <2>4. rx # << >> /\ Head(rx) = <<n, First>>
    <3>1. 1 \in Nat /\ 1 # 0
      OBVIOUS
    <3>2. Run(n, First, 1) # << >>
      BY <1>4, <3>1, RunNotEmpty
    <3>3. Head(Run(n, First, 1)) = <<n, First>>
      BY <1>4, <3>1, RunTail
    <3>. QED
      BY <2>3, <3>2, <3>3
  <2>5. got' = << <<n, First>> >>
    BY <1>9, <2>4 DEF Spi!RXD
  <2>6. << <<n, First>> >> = Run(n, First, 1)
    <3>1. Append(Run(n, First, 0), <<n, First + 0>>) = Run(n, First, 0 + 1)
      BY <1>4, RunAppend
    <3>2. Run(n, First, 0) = << >>
      BY <1>4, RunEmpty
    <3>3. Append(<< >>, <<n, First>>) = << <<n, First>> >>
      OBVIOUS
    <3>4. 0 + 1 = 1
      OBVIOUS
    <3>. QED
      BY <2>2, <3>1, <3>2, <3>3, <3>4, Zenon
  <2>7. rx' \in Seq(Bytes) /\ Len(rx') <= RxDepth
    <3>1. rx' = Tail(rx)
      BY <1>9, <2>4 DEF Spi!RXD
    <3>2. rx' \in Seq(Bytes) /\ Len(rx') = Len(rx) - 1
      BY <1>8, <2>4, <3>1, HeadTailProperties
    <3>. QED
      BY <1>8, <3>2, SpiDepths
  <2>8. job.in <= FrameLen /\ got' = Run(n, First, job.in) /\ wire = Run(n, First, FrameLen)
    BY <1>5, <2>1, <2>5, <2>6
  <2>. QED
    BY <1>1, <1>9, <2>7, <2>8, SpiReturn
<1>10. CASE /\ tx = << >> /\ Spi!Return("ok") /\ ~ (job.fn = "byte" /\ job.rd)
            /\ UNCHANGED <<rx, got>>
  <2>1. g = job.in
    BY <1>5, <1>7, <1>10
  <2>2. job.in <= FrameLen /\ got' = Run(n, First, job.in) /\ wire = Run(n, First, FrameLen)
    BY <1>5, <1>6, <1>10, <2>1
  <2>3. rx' \in Seq(Bytes) /\ Len(rx') <= RxDepth
    BY <1>8, <1>10
  <2>. QED
    BY <1>1, <1>10, <2>2, <2>3, SpiReturn
<1>11. CASE /\ slow \/ Spi!NoTime \/ (tx # << >> /\ ~ Spi!Runs)
            /\ Spi!Return("timeout") /\ UNCHANGED <<rx, got>>
  <2>1. ASSUME tx # << >>, ~ Spi!Runs PROVE (FrameLen - job.in) + old > RxDepth
    <3>1. CASE g = job.in
      BY <1>1, <1>3, <2>1, <3>1, SpiStuck
    <3>2. CASE g # job.in
      <4>1. job.fn = "byte" /\ g = 0 /\ job.in = 1 /\ old = 0 /\ FrameLen = 1
        BY <1>5, <1>7, <3>2
      <4>2. w <= sent + Register /\ w # FrameLen
        BY <1>3, <1>6, <2>1 DEF SpiAt
      <4>3. w = 0
        BY <1>4, <1>5, <4>1, <4>2
      <4>4. Len(rx) = 0
        BY <1>5, <4>1, <4>3
      <4>5. ta
        BY <1>1 DEF SpiInv, SpiMoving
      <4>. QED
        BY <2>1, <4>4, <4>5, SpiDepths DEF Spi!Runs
    <3>. QED
      BY <3>1, <3>2
  <2>2. rx' \in Seq(Bytes) /\ Len(rx') <= RxDepth
    BY <1>8, <1>11
  <2>. QED
    BY <1>1, <1>11, <2>1, <2>2, SpiReturn
<1>. QED
  BY <1>9, <1>10, <1>11 DEF Spi!wait_done, Spi!sees_done, Spi!DONE

LEMMA SpiEndStep == SpiInv /\ Spi!no_buffers => SpiInv'
<1> SUFFICES ASSUME SpiInv, Spi!no_buffers PROVE SpiInv'
  OBVIOUS
<1>1. pc = "end" /\ Spi!Return("ok") /\ rx' = rx /\ got' = got
  BY DEF Spi!no_buffers
<1>2. Spi!FirstPlace(job) = "end"
  BY <1>1 DEF SpiInv, SpiPlace
<1>3. ~ job.wr /\ ~ job.rd
  BY <1>2 DEF Spi!FirstPlace
<1>4. job.out = 0 /\ job.in = 0
  BY <1>3 DEF SpiInv, SpiTypes, SpiJob
<1>5. \E w, g \in Nat : SpiAt(w, g)
  BY <1>1 DEF SpiInv, SpiMoving
<1>6. PICK w \in Nat, g \in Nat : SpiAt(w, g)
  BY <1>5
<1>7. Register \in Nat /\ FrameLen \in Nat /\ FrameLen = job.out + Register /\ sent \in Nat
  BY SpiNumbers
<1>8. g <= job.in /\ got = Run(n, First, g) /\ w <= sent + Register /\ sent <= job.out
  BY <1>1, <1>6 DEF SpiAt, SpiInv, SpiMoving
<1>9. g = 0 /\ sent = 0
  BY <1>4, <1>7, <1>8
<1>10. job.in <= FrameLen /\ got' = Run(n, First, job.in)
  BY <1>1, <1>4, <1>7, <1>8, <1>9
<1>11. job.fn # "regs" => tx = << >>
  <2> SUFFICES ASSUME job.fn # "regs" PROVE tx = << >>
    OBVIOUS
  <2>1. Register = 0
    BY DEF Register
  <2>2. w = sent + Register
    BY <1>8, <1>9, <2>1
  <2>. QED
    BY <1>6, <2>2, SpiTx
<1>12. rx' \in Seq(Bytes) /\ Len(rx') <= RxDepth
  BY <1>1 DEF SpiInv, SpiTypes
<1>. QED
  BY <1>1, <1>2, <1>10, <1>11, <1>12, SpiReturn

\* The inductive invariant of the SPI part.
LEMMA SpiStep == SpiInv /\ Spi!Next => SpiInv'
<1> SUFFICES ASSUME SpiInv, Spi!Next PROVE SpiInv'
  OBVIOUS
<1>1. CASE Spi!Clock
  BY <1>1, SpiClockStep
<1>2. CASE Spi!Driver
  BY <1>2, SpiStartStep, SpiByteTxStep, SpiFillStep, SpiDrainStep, SpiTestStep, SpiDoneStep, SpiEndStep
  DEF Spi!Driver
<1>3. CASE \E s \in SpiSessions : Spi!spi_acquire(s)
  BY <1>3, SpiAcquireStep
<1>. QED
  BY <1>1, <1>2, <1>3 DEF Spi!Next

\* The frame of a transfer as a run of bytes.
LEMMA SpiFrame ==
  ASSUME SpiInv
  PROVE  Spi!OwnFrame = Run(n, First, FrameLen)
<1>1. n \in Nat /\ job.out \in Nat
  BY SpiNumbers
<1>2. Spi!OwnBytes = Run(n, 1, job.out)
  <2>1. \A i \in 1 .. job.out : <<n, i>> = <<n, 1 + i - 1>>
    BY <1>1
  <2>. QED
    BY <2>1 DEF Spi!OwnBytes, Spi!Byte, Run
<1>3. Run(n, 1, job.out) \in Seq(Bytes)
  BY <1>1, RunSeq
<1>4. CASE job.fn = "regs"
  <2>1. Spi!OwnFrame = << <<n, 0>> >> \o Run(n, 1, job.out)
    BY <1>2, <1>4 DEF Spi!OwnFrame, Spi!Byte
  <2>2. First = 0 /\ FrameLen = job.out + 1
    BY <1>4 DEF First, FrameLen, Register
  <2>. QED
    BY <1>1, <2>1, <2>2, RunCons
<1>5. CASE job.fn # "regs"
  <2>1. Spi!OwnFrame = << >> \o Run(n, 1, job.out)
    BY <1>2, <1>5 DEF Spi!OwnFrame
  <2>2. First = 1 /\ FrameLen = job.out
    BY <1>1, <1>5 DEF First, FrameLen, Register
  <2>. QED
    BY <1>3, <2>1, <2>2, ConcatEmptySeq
<1>. QED
  BY <1>4, <1>5

LEMMA SpiSafe ==
  ASSUME SpiInv
  PROVE  Spi!FrameIsOwn /\ Spi!AnswersOwn /\ Spi!NoOverrun /\ Spi!NoStall
<1>1. Spi!OwnFrame = Run(n, First, FrameLen)
  BY SpiFrame
<1>2. First \in Nat /\ FrameLen \in Nat /\ job.in \in Nat /\ n \in Nat /\ old \in Nat
  BY SpiNumbers
<1>3. Spi!FrameIsOwn
  BY <1>1 DEF SpiInv, SpiResult, Spi!FrameIsOwn, Spi!Succeeded
<1>4. Spi!AnswersOwn
  <2> SUFFICES ASSUME pc = "idle", ret = "ok" PROVE got = SubSeq(Spi!OwnFrame, 1, job.in)
    BY DEF Spi!AnswersOwn, Spi!Succeeded
  <2>1. job.in <= FrameLen /\ got = Run(n, First, job.in)
    BY DEF SpiInv, SpiResult
  <2>. QED
    BY <1>1, <1>2, <2>1, RunSub
<1>5. Spi!NoOverrun
  BY DEF SpiInv, SpiTypes, Spi!NoOverrun
<1>6. Spi!NoStall
  <2> SUFFICES ASSUME ~ slow, Spi!Fits, ret = "timeout" PROVE FALSE
    BY DEF Spi!NoStall
  <2>1. FrameLen < job.in \/ (FrameLen - job.in) + old > RxDepth
    BY DEF SpiInv, SpiResult, Spi!Fits
  <2>2. Len(Spi!OwnFrame) = FrameLen
    BY <1>1, <1>2, RunSeq
  <2>3. FrameLen - job.in \in 0 .. RxDepth - old
    BY <2>2 DEF Spi!Fits
  <2>. QED
    BY <1>2, <2>1, <2>3, SpiDepths
<1>. QED
  BY <1>3, <1>4, <1>5, <1>6

-----------------------------------------------------------------------------
(* One wire *)

LEMMA DhtNumbers ==
  /\ BITS \in Nat /\ BITS > 0 /\ SPIN_TIMEOUT \in Nat /\ SPIN_TIMEOUT > 0
  /\ READ_THRESHOLD \in Nat /\ READ_THRESHOLD > 0 /\ SYNC \in Nat /\ SYNC > 0
  /\ RESPONSE \in Nat /\ RESPONSE > 0 /\ Zero \in Nat /\ Zero > 0 /\ One \in Nat /\ MaxStall \in Nat
  /\ \A r \in Reactions : r \in Nat /\ r > 0
  /\ \A l \in Lows : l \in Nat /\ l > 0
<1>1. /\ BITS \in Nat \ {0} /\ SPIN_TIMEOUT \in Nat \ {0} /\ READ_THRESHOLD \in Nat \ {0} /\ SYNC \in Nat \ {0}
      /\ RESPONSE \in Nat \ {0} /\ Zero \in Nat \ {0} /\ One \in Nat \ {0} /\ MaxStall \in Nat
      /\ \A x \in Reactions : x \in Nat \ {0}
      /\ \A x \in Lows : x \in Nat \ {0}
  BY DhtConstants DEF OneWire!DhtAssumption
<1>. QED
  BY <1>1

LEMMA DhtTimes ==
  /\ \A r \in Reactions : /\ r <= SYNC /\ SYNC + MaxStall < r + RESPONSE
                          /\ r + RESPONSE <= SYNC + SPIN_TIMEOUT
  /\ MaxStall < RESPONSE /\ Zero <= READ_THRESHOLD + 1 /\ READ_THRESHOLD + 1 + MaxStall < One /\ MaxStall < Zero
  /\ \A l \in Lows : /\ 2 + MaxStall < l /\ READ_THRESHOLD + 2 + 2 * MaxStall < l + Zero
                     /\ l + One <= SPIN_TIMEOUT + READ_THRESHOLD + 1
BY DhtConstants DEF OneWire!TimingAssumption

\* A unit of time in the middle of a pulse, and the last one of each pulse.
LEMMA SensorStep ==
  ASSUME DhtTypes, OneWire!SensorTick, ~ dead, phase \notin {"off", "idle"}, left >= 1
  PROVE  /\ bits' = bits /\ dead' = dead
         /\ left > 1 => left' = left - 1 /\ phase' = phase /\ sent' = sent
         /\ left = 1 =>
              /\ phase = "reaction" => phase' = "resp_low" /\ left' = RESPONSE /\ sent' = sent
              /\ phase = "resp_low" => phase' = "resp_high" /\ left' = RESPONSE /\ sent' = sent
              /\ phase \in {"resp_high", "high"} /\ sent < BITS =>
                   phase' = "low" /\ left' \in Lows /\ sent' = sent + 1
              /\ phase = "high" /\ sent = BITS => phase' = "end" /\ left' \in Lows /\ sent' = sent
              /\ phase = "low" => phase' = "high" /\ left' = HighLen(sent) /\ sent' = sent
              /\ phase = "end" => phase' = "idle" /\ left' = 0 /\ sent' = sent
<1>1. bits' = bits /\ dead' = dead
  BY DEF OneWire!SensorTick
<1>2. left \in Nat /\ sent \in Nat /\ BITS \in Nat
  BY DhtNumbers DEF DhtTypes
<1>3. ASSUME left > 1 PROVE left' = left - 1 /\ phase' = phase /\ sent' = sent
  BY <1>3 DEF OneWire!SensorTick
<1>4. ASSUME left = 1 PROVE OneWire!AfterPulse
  BY <1>2, <1>4 DEF OneWire!SensorTick
<1>5. ASSUME left = 1, phase = "reaction" PROVE phase' = "resp_low" /\ left' = RESPONSE /\ sent' = sent
  BY <1>4, <1>5 DEF OneWire!AfterPulse, OneWire!NextPulse
<1>6. ASSUME left = 1, phase = "resp_low" PROVE phase' = "resp_high" /\ left' = RESPONSE /\ sent' = sent
  BY <1>4, <1>6 DEF OneWire!AfterPulse, OneWire!NextPulse
<1>7. ASSUME left = 1, phase \in {"resp_high", "high"}, sent < BITS
      PROVE  phase' = "low" /\ left' \in Lows /\ sent' = sent + 1
  <2>1. sent # BITS
    BY <1>2, <1>7
  <2>2. \E l \in Lows : OneWire!NextPulse("low", l)
    BY <1>4, <1>7, <2>1 DEF OneWire!AfterPulse
  <2>. QED
    BY <2>2 DEF OneWire!NextPulse
<1>8. ASSUME left = 1, phase = "high", sent = BITS
      PROVE  phase' = "end" /\ left' \in Lows /\ sent' = sent
  <2>1. ~ (sent < BITS)
    BY <1>2, <1>8
  <2>2. \E l \in Lows : OneWire!NextPulse("end", l)
    BY <1>4, <1>8, <2>1 DEF OneWire!AfterPulse
  <2>. QED
    BY <2>2 DEF OneWire!NextPulse
<1>9. ASSUME left = 1, phase = "low" PROVE phase' = "high" /\ left' = HighLen(sent) /\ sent' = sent
  <2>1. OneWire!NextPulse("high", IF bits[sent] = 1 THEN One ELSE Zero)
    BY <1>4, <1>9 DEF OneWire!AfterPulse
  <2>. QED
    BY <2>1 DEF OneWire!NextPulse, HighLen
<1>10. ASSUME left = 1, phase = "end" PROVE phase' = "idle" /\ left' = 0 /\ sent' = sent
  <2>1. OneWire!NextPulse("idle", 0)
    BY <1>4, <1>10 DEF OneWire!AfterPulse
  <2>. QED
    BY <2>1 DEF OneWire!NextPulse
<1>. QED
  BY <1>1, <1>3, <1>5, <1>6, <1>7, <1>8, <1>9, <1>10

LEMMA SensorTypes ==
  ASSUME DhtTypes, OneWire!SensorTick
  PROVE  /\ phase' \in Pulses /\ left' \in Nat /\ sent' \in Nat /\ dead' \in BOOLEAN
         /\ bits' \in [1 .. BITS -> {0, 1}] /\ sent' <= BITS
         /\ phase' \in {"reaction", "resp_low", "resp_high"} => sent' = 0
         /\ phase' = "off" <=> phase = "off"
         /\ dead' = dead
<1>1. bits' = bits /\ dead' = dead
  BY DEF OneWire!SensorTick
<1>2. left \in Nat /\ sent \in Nat /\ BITS \in Nat /\ BITS > 0 /\ sent <= BITS /\ phase \in Pulses
  BY DhtNumbers DEF DhtTypes
<1>3. CASE dead \/ phase \in {"off", "idle"}
  BY <1>1, <1>3 DEF OneWire!SensorTick, DhtTypes
<1>4. CASE ~ (dead \/ phase \in {"off", "idle"}) /\ left > 1
  BY <1>1, <1>2, <1>4 DEF OneWire!SensorTick, DhtTypes
<1>5. CASE ~ (dead \/ phase \in {"off", "idle"}) /\ ~ (left > 1)
  <2>1. OneWire!AfterPulse
    BY <1>5 DEF OneWire!SensorTick
  <2>2. phase \in {"reaction", "resp_low", "resp_high"} => sent = 0
    BY DEF DhtTypes
  <2>3. ASSUME NEW ph \in {"resp_low", "resp_high", "high", "idle"}, NEW len \in Nat, OneWire!NextPulse(ph, len),
               ph \in {"resp_low", "resp_high"} => sent = 0
        PROVE  /\ phase' \in Pulses \ {"off"} /\ left' \in Nat /\ sent' \in Nat /\ sent' <= BITS
               /\ phase' \in {"reaction", "resp_low", "resp_high"} => sent' = 0
    BY <1>2, <2>3 DEF OneWire!NextPulse, Pulses
  <2>4. ASSUME NEW ph \in {"low", "end"}, NEW l \in Lows, OneWire!NextPulse(ph, l), ph = "low" => sent < BITS
        PROVE  /\ phase' \in Pulses \ {"off"} /\ left' \in Nat /\ sent' \in Nat /\ sent' <= BITS
               /\ phase' \in {"reaction", "resp_low", "resp_high"} => sent' = 0
    <3>1. l \in Nat
      BY DhtNumbers
    <3>2. phase' = ph /\ left' = l /\ sent' = IF ph = "low" THEN sent + 1 ELSE sent
      BY <2>4 DEF OneWire!NextPulse
    <3>3. sent' \in Nat /\ sent' <= BITS
      BY <1>2, <2>4, <3>2
    <3>. QED
      BY <3>1, <3>2, <3>3 DEF Pulses
  <2> SUFFICES /\ phase' \in Pulses \ {"off"} /\ left' \in Nat /\ sent' \in Nat /\ sent' <= BITS
               /\ phase' \in {"reaction", "resp_low", "resp_high"} => sent' = 0
    BY <1>1, <1>5 DEF DhtTypes
  <2>5. CASE phase = "reaction"
    <3>1. OneWire!NextPulse("resp_low", RESPONSE) /\ RESPONSE \in Nat
      BY <2>1, <2>5, DhtNumbers DEF OneWire!AfterPulse
    <3>. QED
      BY <2>2, <2>3, <2>5, <3>1
  <2>6. CASE phase = "resp_low"
    <3>1. OneWire!NextPulse("resp_high", RESPONSE) /\ RESPONSE \in Nat
      BY <2>1, <2>6, DhtNumbers DEF OneWire!AfterPulse
    <3>. QED
      BY <2>2, <2>3, <2>6, <3>1
  <2>7. CASE phase = "resp_high"
    <3>1. sent < BITS
      BY <1>2, <2>2, <2>7
    <3>2. \E l \in Lows : OneWire!NextPulse("low", l)
      BY <2>1, <2>7, <3>1 DEF OneWire!AfterPulse
    <3>. QED
      BY <2>4, <3>1, <3>2, <2>7
  <2>8. CASE phase = "high" /\ sent < BITS
    <3>1. \E l \in Lows : OneWire!NextPulse("low", l)
      <4>1. sent # BITS
        BY <1>2, <2>8
      <4>. QED
        BY <2>1, <2>8, <4>1 DEF OneWire!AfterPulse
    <3>. QED
      BY <2>4, <2>8, <3>1
  <2>9. CASE phase = "high" /\ sent = BITS
    <3>1. ~ (sent < BITS)
      BY <1>2, <2>9
    <3>2. \E l \in Lows : OneWire!NextPulse("end", l)
      BY <2>1, <2>9, <3>1 DEF OneWire!AfterPulse
    <3>. QED
      BY <2>4, <3>2, <2>9
  <2>10. CASE phase = "low"
    <3>1. OneWire!NextPulse("high", IF bits[sent] = 1 THEN One ELSE Zero)
      BY <2>1, <2>10 DEF OneWire!AfterPulse
    <3>2. (IF bits[sent] = 1 THEN One ELSE Zero) \in Nat
      BY DhtNumbers
    <3>. QED
      BY <2>3, <3>1, <3>2, <2>10
  <2>11. CASE phase = "end"
    <3>1. OneWire!NextPulse("idle", 0)
      BY <2>1, <2>11 DEF OneWire!AfterPulse
    <3>. QED
      BY <2>3, <3>1, <2>11
  <2>12. sent < BITS \/ sent = BITS
    BY <1>2
  <2>. QED
    BY <1>2, <1>5, <2>5, <2>6, <2>7, <2>8, <2>9, <2>10, <2>11, <2>12 DEF Pulses
<1>. QED
  BY <1>3, <1>4, <1>5

LEMMA SyncTime ==
  ASSUME DhtTypes, AtSync
  PROVE  /\ left \in Nat /\ left >= 1 /\ delay \in Nat /\ stalled \in Nat /\ stalled <= MaxStall
         /\ phase \in {"reaction", "resp_low"} /\ sent = 0 /\ got = << >> /\ time_out = SPIN_TIMEOUT
         /\ \E r \in Reactions :
              /\ r \in Nat /\ r <= SYNC /\ SYNC + MaxStall < r + RESPONSE
              /\ phase = "reaction" => left + (SYNC - delay) + stalled = r
              /\ phase = "resp_low" => left + (SYNC - delay) + stalled = r + RESPONSE
BY DhtNumbers, DhtTimes DEF DhtTypes, AtSync

\* While the driver waits for the response the sensor gets into it.
LEMMA SyncStall ==
  ASSUME DhtTypes, ~ dead, AtSync, OneWire!Stall
  PROVE  AtSync'
<1>1. OneWire!SensorTick /\ stalled' = stalled + 1 /\ stalled < MaxStall /\ UNCHANGED <<delay, got, time_out>>
  BY DEF OneWire!Stall, OneWire!host
<1>2. /\ left \in Nat /\ left >= 1 /\ delay \in Nat /\ stalled \in Nat
      /\ phase \in {"reaction", "resp_low"} /\ sent = 0 /\ got = << >> /\ time_out = SPIN_TIMEOUT
  BY SyncTime
<1>3. PICK r \in Reactions :
              /\ r \in Nat /\ r <= SYNC /\ SYNC + MaxStall < r + RESPONSE
              /\ phase = "reaction" => left + (SYNC - delay) + stalled = r
              /\ phase = "resp_low" => left + (SYNC - delay) + stalled = r + RESPONSE
  BY SyncTime
<1>4. /\ left > 1 => left' = left - 1 /\ phase' = phase /\ sent' = sent
      /\ left = 1 /\ phase = "reaction" => phase' = "resp_low" /\ left' = RESPONSE /\ sent' = sent
  BY <1>1, <1>2, SensorStep
<1>5. SYNC \in Nat /\ RESPONSE \in Nat /\ RESPONSE > 0 /\ MaxStall \in Nat
  BY DhtNumbers
<1>6. CASE left > 1
  <2>1. left' = left - 1 /\ left' >= 1 /\ left' + (SYNC - delay') + stalled' = left + (SYNC - delay) + stalled
    BY <1>1, <1>2, <1>4, <1>5, <1>6
  <2>. QED
    BY <1>1, <1>2, <1>3, <1>4, <1>6, <2>1 DEF AtSync
<1>7. CASE left = 1 /\ phase = "reaction"
  <2>1. left' >= 1 /\ left' + (SYNC - delay') + stalled' = r + RESPONSE
    BY <1>1, <1>2, <1>3, <1>4, <1>5, <1>7
  <2>. QED
    BY <1>1, <1>2, <1>4, <1>7, <2>1 DEF AtSync
<1>8. CASE left = 1 /\ phase = "resp_low"
  BY <1>1, <1>2, <1>3, <1>5, <1>8
<1>. QED
  BY <1>2, <1>6, <1>7, <1>8

LEMMA SyncTick ==
  ASSUME DhtTypes, ~ dead, pc = "sync", AtSync, OneWire!Tick
  PROVE  ret' = ret /\ ((pc' = "sync" /\ AtSync') \/ (pc' = "resp" /\ AtResponse'))
<1>1. /\ OneWire!SensorTick /\ stalled' = stalled /\ UNCHANGED <<got, time_out>>
      /\ \/ delay > 0 /\ delay' = delay - 1 /\ UNCHANGED <<pc, ret>>
         \/ /\ delay = 0 /\ delay' = delay
            /\ IF OneWire!High THEN OneWire!StartFailed ELSE pc' = "resp" /\ ret' = ret
  BY DEF OneWire!Tick, OneWire!Delay, OneWire!Sync, OneWire!WaitResponse, OneWire!Gap, OneWire!wait_low,
         OneWire!wait_high, OneWire!sample
<1>2. /\ left \in Nat /\ left >= 1 /\ delay \in Nat /\ stalled \in Nat /\ stalled <= MaxStall
      /\ phase \in {"reaction", "resp_low"} /\ sent = 0 /\ got = << >> /\ time_out = SPIN_TIMEOUT
  BY SyncTime
<1>3. PICK r \in Reactions :
              /\ r \in Nat /\ r <= SYNC /\ SYNC + MaxStall < r + RESPONSE
              /\ phase = "reaction" => left + (SYNC - delay) + stalled = r
              /\ phase = "resp_low" => left + (SYNC - delay) + stalled = r + RESPONSE
  BY SyncTime
<1>4. /\ left > 1 => left' = left - 1 /\ phase' = phase /\ sent' = sent
      /\ left = 1 /\ phase = "reaction" => phase' = "resp_low" /\ left' = RESPONSE /\ sent' = sent
      /\ left = 1 /\ phase = "resp_low" => phase' = "resp_high" /\ left' = RESPONSE /\ sent' = sent
  BY <1>1, <1>2, SensorStep
<1>5. SYNC \in Nat /\ RESPONSE \in Nat /\ RESPONSE > 0 /\ MaxStall \in Nat /\ SPIN_TIMEOUT \in Nat /\ SPIN_TIMEOUT > 0
  BY DhtNumbers
<1>6. CASE delay > 0
  <2>0. delay' = delay - 1 /\ UNCHANGED <<pc, ret>>
    BY <1>1, <1>2, <1>6
  <2>1. CASE left > 1
    <3>1. left' >= 1 /\ left' + (SYNC - delay') + stalled' = left + (SYNC - delay) + stalled
      BY <1>1, <1>2, <1>4, <1>5, <2>0, <2>1
    <3>. QED
      BY <1>1, <1>2, <1>3, <1>4, <2>0, <2>1, <3>1 DEF AtSync
  <2>2. CASE left = 1 /\ phase = "reaction"
    <3>1. left' >= 1 /\ left' + (SYNC - delay') + stalled' = r + RESPONSE
      BY <1>1, <1>2, <1>3, <1>4, <1>5, <2>0, <2>2
    <3>. QED
      BY <1>1, <1>2, <1>4, <2>0, <2>2, <3>1 DEF AtSync
  <2>3. CASE left = 1 /\ phase = "resp_low"
    BY <1>2, <1>3, <1>5, <1>6, <2>3
  <2>. QED
    BY <1>2, <2>1, <2>2, <2>3
<1>7. CASE delay = 0
  <2>1. phase = "resp_low"
    BY <1>2, <1>3, <1>5, <1>7
  <2>2. pc' = "resp" /\ ret' = ret /\ delay' = 0
    BY <1>1, <1>2, <1>7, <2>1 DEF OneWire!High
  <2>3. CASE left > 1
    <3>1. /\ left' >= 1 /\ time_out' >= 1
          /\ left' + (SYNC + 1) + (SPIN_TIMEOUT - time_out') + stalled' = r + RESPONSE
      BY <1>1, <1>2, <1>3, <1>4, <1>5, <1>7, <2>1, <2>3
    <3>. QED
      BY <1>1, <1>2, <1>4, <2>1, <2>2, <2>3, <3>1 DEF AtResponse
  <2>4. CASE left = 1
    <3>1. left' >= 1 /\ time_out' >= 1 /\ RESPONSE - left' \in 0 .. stalled'
      BY <1>1, <1>2, <1>4, <1>5, <2>1, <2>4
    <3>. QED
      BY <1>1, <1>2, <1>4, <2>1, <2>2, <2>4, <3>1 DEF AtResponse
  <2>. QED
    BY <1>2, <2>3, <2>4
<1>. QED
  BY <1>2, <1>6, <1>7

LEMMA ResponseTime ==
  ASSUME DhtTypes, AtResponse
  PROVE  /\ left \in Nat /\ left >= 1 /\ stalled \in Nat /\ stalled <= MaxStall
         /\ time_out \in Nat /\ time_out >= 1
         /\ phase \in {"resp_low", "resp_high"} /\ sent = 0 /\ got = << >> /\ delay = 0
         /\ phase = "resp_low" =>
              \E r \in Reactions :
                 /\ r \in Nat /\ r + RESPONSE <= SYNC + SPIN_TIMEOUT
                 /\ left + (SYNC + 1) + (SPIN_TIMEOUT - time_out) + stalled = r + RESPONSE
         /\ phase = "resp_high" => RESPONSE - left >= 0 /\ RESPONSE - left <= stalled
BY DhtNumbers, DhtTimes DEF DhtTypes, AtResponse

LEMMA ResponseStall ==
  ASSUME DhtTypes, ~ dead, AtResponse, OneWire!Stall
  PROVE  AtResponse'
<1>1. OneWire!SensorTick /\ stalled' = stalled + 1 /\ stalled < MaxStall /\ UNCHANGED <<delay, got, time_out>>
  BY DEF OneWire!Stall, OneWire!host
<1>2. /\ left \in Nat /\ left >= 1 /\ stalled \in Nat /\ time_out \in Nat /\ time_out >= 1
      /\ phase \in {"resp_low", "resp_high"} /\ sent = 0 /\ got = << >> /\ delay = 0
      /\ phase = "resp_high" => RESPONSE - left >= 0 /\ RESPONSE - left <= stalled
  BY ResponseTime
<1>3. /\ left > 1 => left' = left - 1 /\ phase' = phase /\ sent' = sent
      /\ left = 1 /\ phase = "resp_low" => phase' = "resp_high" /\ left' = RESPONSE /\ sent' = sent
  BY <1>1, <1>2, SensorStep
<1>4. SYNC \in Nat /\ RESPONSE \in Nat /\ RESPONSE > 0 /\ MaxStall \in Nat /\ SPIN_TIMEOUT \in Nat /\ MaxStall < RESPONSE
  BY DhtNumbers, DhtTimes
<1>5. CASE phase = "resp_low" /\ left > 1
  <2>1. PICK r \in Reactions :
          /\ r \in Nat /\ left + (SYNC + 1) + (SPIN_TIMEOUT - time_out) + stalled = r + RESPONSE
    BY <1>5, ResponseTime
  <2>2. left' >= 1 /\ left' + (SYNC + 1) + (SPIN_TIMEOUT - time_out') + stalled' = r + RESPONSE
    BY <1>1, <1>2, <1>3, <1>4, <1>5, <2>1
  <2>. QED
    BY <1>1, <1>2, <1>3, <1>5, <2>2 DEF AtResponse
<1>6. CASE phase = "resp_low" /\ left = 1
  <2>1. left' >= 1 /\ RESPONSE - left' \in 0 .. stalled'
    BY <1>1, <1>2, <1>3, <1>4, <1>6
  <2>. QED
    BY <1>1, <1>2, <1>3, <1>6, <2>1 DEF AtResponse
<1>7. CASE phase = "resp_high" /\ left > 1
  <2>1. left' >= 1 /\ RESPONSE - left' \in 0 .. stalled'
    BY <1>1, <1>2, <1>3, <1>4, <1>7
  <2>. QED
    BY <1>1, <1>2, <1>3, <1>7, <2>1 DEF AtResponse
<1>8. CASE phase = "resp_high" /\ left = 1
  BY <1>1, <1>2, <1>4, <1>8
<1>. QED
  BY <1>2, <1>5, <1>6, <1>7, <1>8

LEMMA ResponseTick ==
  ASSUME DhtTypes, ~ dead, pc = "resp", AtResponse, OneWire!Tick
  PROVE  ret' = ret /\ ((pc' = "resp" /\ AtResponse') \/ (pc' = "gap" /\ AtGap'))
<1>2. /\ left \in Nat /\ left >= 1 /\ stalled \in Nat /\ stalled <= MaxStall /\ time_out \in Nat /\ time_out >= 1
      /\ phase \in {"resp_low", "resp_high"} /\ sent = 0 /\ got = << >> /\ delay = 0
      /\ phase = "resp_high" => RESPONSE - left >= 0 /\ RESPONSE - left <= stalled
  BY ResponseTime
<1>1. /\ OneWire!SensorTick /\ stalled' = stalled /\ got' = got
      /\ \/ /\ OneWire!High /\ delay' = RESPONSE /\ pc' = "gap" /\ ret' = ret
         \/ /\ ~ OneWire!High /\ time_out = 1
         \/ /\ ~ OneWire!High /\ time_out # 1
            /\ time_out' = (IF time_out > 1 THEN time_out - 1 ELSE time_out)
            /\ UNCHANGED <<pc, delay, ret>>
  BY <1>2 DEF OneWire!Tick, OneWire!Delay, OneWire!Sync, OneWire!WaitResponse, OneWire!Gap, OneWire!wait_low,
         OneWire!wait_high, OneWire!sample, OneWire!spun_out
<1>3. /\ left > 1 => left' = left - 1 /\ phase' = phase /\ sent' = sent
      /\ left = 1 /\ phase = "resp_low" => phase' = "resp_high" /\ left' = RESPONSE /\ sent' = sent
      /\ left = 1 /\ phase = "resp_high" /\ sent < BITS => phase' = "low" /\ left' \in Lows /\ sent' = sent + 1
  BY <1>1, <1>2, SensorStep
<1>4. /\ SYNC \in Nat /\ RESPONSE \in Nat /\ RESPONSE > 0 /\ MaxStall \in Nat /\ SPIN_TIMEOUT \in Nat
      /\ MaxStall < RESPONSE /\ BITS \in Nat /\ BITS > 0
  BY DhtNumbers, DhtTimes
<1>5. CASE phase = "resp_low"
  <2>1. PICK r \in Reactions :
          /\ r \in Nat /\ r + RESPONSE <= SYNC + SPIN_TIMEOUT
          /\ left + (SYNC + 1) + (SPIN_TIMEOUT - time_out) + stalled = r + RESPONSE
    BY <1>5, ResponseTime
  <2>2. ~ OneWire!High
    BY <1>5 DEF OneWire!High
  <2>3. time_out > 1
    BY <1>2, <1>4, <2>1
  <2>4. time_out' = time_out - 1 /\ UNCHANGED <<pc, delay, ret>>
    BY <1>1, <1>2, <2>2, <2>3
  <2>5. CASE left > 1
    <3>1. /\ left' >= 1 /\ time_out' >= 1
          /\ left' + (SYNC + 1) + (SPIN_TIMEOUT - time_out') + stalled' = r + RESPONSE
      BY <1>1, <1>2, <1>3, <1>4, <2>1, <2>3, <2>4, <2>5
    <3>. QED
      BY <1>1, <1>2, <1>3, <1>5, <2>4, <2>5, <3>1 DEF AtResponse
  <2>6. CASE left = 1
    <3>1. left' >= 1 /\ time_out' >= 1 /\ RESPONSE - left' \in 0 .. stalled'
      BY <1>1, <1>2, <1>3, <1>4, <1>5, <2>3, <2>4, <2>6
    <3>. QED
      BY <1>1, <1>2, <1>3, <1>5, <2>4, <2>6, <3>1 DEF AtResponse
  <2>. QED
    BY <1>2, <2>5, <2>6
<1>6. CASE phase = "resp_high"
  <2>1. OneWire!High
    BY <1>6 DEF OneWire!High
  <2>2. delay' = RESPONSE /\ pc' = "gap" /\ ret' = ret
    BY <1>1, <2>1
  <2>3. CASE left > 1
    <3>1. left' >= 1 /\ delay' - 1 - left' \in 0 .. stalled'
      BY <1>1, <1>2, <1>3, <1>4, <1>6, <2>2, <2>3
    <3>. QED
      BY <1>1, <1>2, <1>3, <1>6, <2>2, <2>3, <3>1 DEF AtGap
  <2>4. CASE left = 1
    <3>1. phase' = "low" /\ left' \in Lows /\ sent' = 1
      BY <1>2, <1>3, <1>4, <1>6, <2>4
    <3>2. left' \in Nat /\ left' >= 1 /\ left' <= left' /\ left' - left' + delay' - 1 \in 0 .. stalled'
      BY <1>1, <1>2, <1>4, <1>6, <2>2, <2>4, <3>1, DhtNumbers
    <3>. QED
      BY <1>1, <1>2, <2>2, <3>1, <3>2 DEF AtGap
  <2>. QED
    BY <1>2, <2>3, <2>4
<1>. QED
  BY <1>2, <1>5, <1>6

LEMMA GapTime ==
  ASSUME DhtTypes, AtGap
  PROVE  /\ left \in Nat /\ left >= 1 /\ stalled \in Nat /\ stalled <= MaxStall /\ delay \in Nat
         /\ phase \in {"resp_high", "low"} /\ got = << >>
         /\ phase = "resp_high" => sent = 0 /\ delay - 1 - left >= 0 /\ delay - 1 - left <= stalled
         /\ phase = "low" =>
              /\ sent = 1
              /\ \E l \in Lows : /\ l \in Nat /\ left <= l /\ 2 + MaxStall < l
                                 /\ (l - left) + (delay - 1) >= 0 /\ (l - left) + (delay - 1) <= stalled
BY DhtNumbers, DhtTimes DEF DhtTypes, AtGap

LEMMA GapStall ==
  ASSUME DhtTypes, ~ dead, AtGap, OneWire!Stall
  PROVE  AtGap'
<1>1. OneWire!SensorTick /\ stalled' = stalled + 1 /\ stalled < MaxStall /\ UNCHANGED <<delay, got>>
  BY DEF OneWire!Stall, OneWire!host
<1>2. /\ left \in Nat /\ left >= 1 /\ stalled \in Nat /\ delay \in Nat /\ phase \in {"resp_high", "low"} /\ got = << >>
      /\ phase = "resp_high" => sent = 0 /\ delay - 1 - left >= 0 /\ delay - 1 - left <= stalled
      /\ phase = "low" => sent = 1
  BY GapTime
<1>3. /\ left > 1 => left' = left - 1 /\ phase' = phase /\ sent' = sent
      /\ left = 1 /\ phase = "resp_high" /\ sent < BITS => phase' = "low" /\ left' \in Lows /\ sent' = sent + 1
  BY <1>1, <1>2, SensorStep
<1>4. MaxStall \in Nat /\ BITS \in Nat /\ BITS > 0
  BY DhtNumbers
<1>5. CASE phase = "resp_high" /\ left > 1
  <2>1. left' >= 1 /\ delay' - 1 - left' \in 0 .. stalled'
    BY <1>1, <1>2, <1>3, <1>5
  <2>. QED
    BY <1>1, <1>2, <1>3, <1>5, <2>1 DEF AtGap
<1>6. CASE phase = "resp_high" /\ left = 1
  <2>1. phase' = "low" /\ left' \in Lows /\ sent' = 1
    BY <1>2, <1>3, <1>4, <1>6
  <2>2. left' \in Nat /\ left' >= 1 /\ left' <= left' /\ left' - left' + delay' - 1 \in 0 .. stalled'
    BY <1>1, <1>2, <1>6, <2>1, DhtNumbers
  <2>. QED
    BY <1>1, <1>2, <2>1, <2>2 DEF AtGap
<1>7. CASE phase = "low"
  <2>1. PICK l \in Lows : /\ l \in Nat /\ left <= l /\ 2 + MaxStall < l
                          /\ (l - left) + (delay - 1) >= 0 /\ (l - left) + (delay - 1) <= stalled
    BY <1>7, GapTime
  <2>2. left > 1
    BY <1>1, <1>2, <1>4, <2>1
  <2>3. left' >= 1 /\ left' <= l /\ l - left' + delay' - 1 \in 0 .. stalled'
    BY <1>1, <1>2, <1>3, <2>1, <2>2
  <2>. QED
    BY <1>1, <1>2, <1>3, <1>7, <2>2, <2>3 DEF AtGap
<1>. QED
  BY <1>2, <1>5, <1>6, <1>7

LEMMA LateBound == Late \in Nat /\ Late >= 2
BY DhtNumbers DEF Late

LEMMA GapTick ==
  ASSUME DhtTypes, ~ dead, fn = "dht_read", pc = "gap", AtGap, OneWire!Tick
  PROVE  ret' = ret /\ got' = << >> /\ ((pc' = "gap" /\ AtGap') \/ (pc' = "wait_low" /\ AtWaitLow(0)'))
<1>1. /\ OneWire!SensorTick /\ stalled' = stalled /\ got' = got
      /\ \/ delay > 0 /\ delay' = delay - 1 /\ UNCHANGED <<pc, ret>>
         \/ delay = 0 /\ delay' = delay /\ pc' = "wait_low" /\ ret' = ret /\ time_out' = SPIN_TIMEOUT
  BY DEF OneWire!Tick, OneWire!Delay, OneWire!Sync, OneWire!WaitResponse, OneWire!Gap, OneWire!wait_low,
         OneWire!wait_high, OneWire!sample
<1>2. /\ left \in Nat /\ left >= 1 /\ stalled \in Nat /\ stalled <= MaxStall /\ delay \in Nat
      /\ phase \in {"resp_high", "low"} /\ got = << >>
      /\ phase = "resp_high" => sent = 0 /\ delay - 1 - left >= 0 /\ delay - 1 - left <= stalled
      /\ phase = "low" => sent = 1
  BY GapTime
<1>3. /\ left > 1 => left' = left - 1 /\ phase' = phase /\ sent' = sent
      /\ left = 1 /\ phase = "resp_high" /\ sent < BITS => phase' = "low" /\ left' \in Lows /\ sent' = sent + 1
  BY <1>1, <1>2, SensorStep
<1>4. MaxStall \in Nat /\ BITS \in Nat /\ BITS > 0 /\ SPIN_TIMEOUT \in Nat /\ SPIN_TIMEOUT > 0
  BY DhtNumbers
<1>5. CASE phase = "resp_high" /\ left > 1
  <2>1. delay > 0
    BY <1>2, <1>5
  <2>2. delay' = delay - 1 /\ UNCHANGED <<pc, ret>>
    BY <1>1, <2>1
  <2>3. left' >= 1 /\ delay' - 1 - left' \in 0 .. stalled'
    BY <1>1, <1>2, <1>3, <1>5, <2>2
  <2>. QED
    BY <1>1, <1>2, <1>3, <1>5, <2>2, <2>3 DEF AtGap
<1>6. CASE phase = "resp_high" /\ left = 1
  <2>1. phase' = "low" /\ left' \in Lows /\ sent' = 1
    BY <1>2, <1>3, <1>4, <1>6
  <2>2. delay > 0
    BY <1>2, <1>6
  <2>3. delay' = delay - 1 /\ UNCHANGED <<pc, ret>>
    BY <1>1, <2>2
  <2>4. left' \in Nat /\ left' >= 1 /\ left' <= left' /\ left' - left' + delay' - 1 \in 0 .. stalled'
    BY <1>1, <1>2, <1>6, <2>1, <2>3, DhtNumbers
  <2>. QED
    BY <1>1, <1>2, <2>1, <2>3, <2>4 DEF AtGap
<1>7. CASE phase = "low"
  <2>1. PICK l \in Lows : /\ l \in Nat /\ left <= l /\ 2 + MaxStall < l
                          /\ (l - left) + (delay - 1) >= 0 /\ (l - left) + (delay - 1) <= stalled
    BY <1>7, GapTime
  <2>2. left > 1
    BY <1>2, <1>4, <2>1
  <2>3. left' = left - 1 /\ phase' = "low" /\ sent' = 1
    BY <1>2, <1>3, <1>7, <2>2
  <2>4. CASE delay > 0
    <3>1. delay' = delay - 1 /\ UNCHANGED <<pc, ret>>
      BY <1>1, <2>4
    <3>2. left' >= 1 /\ left' <= l /\ l - left' + delay' - 1 \in 0 .. stalled'
      BY <1>1, <1>2, <2>1, <2>2, <2>3, <3>1
    <3>. QED
      BY <1>1, <1>2, <2>3, <3>1, <3>2 DEF AtGap
  <2>5. CASE delay = 0
    <3>1. delay' = 0 /\ pc' = "wait_low" /\ ret' = ret /\ time_out' = SPIN_TIMEOUT
      BY <1>1, <1>2, <2>5
    <3>2. left' >= 1 /\ time_out' >= 1 /\ left' <= l /\ l - left' <= Late + stalled' /\ sent' = 0 + 1
      BY <1>1, <1>2, <1>4, <2>1, <2>2, <2>3, <2>5, <3>1, LateBound
    <3>3. Late' = Late
      BY DEF Late
    <3>. QED
      BY <1>1, <1>2, <2>3, <3>1, <3>2, <3>3 DEF AtWaitLow
  <2>. QED
    BY <1>2, <2>4, <2>5
<1>. QED
  BY <1>2, <1>5, <1>6, <1>7

LEMMA WaitLowTime ==
  ASSUME DhtTypes, NEW k \in 0 .. BITS - 1, AtWaitLow(k)
  PROVE  /\ left \in Nat /\ left >= 1 /\ stalled \in Nat /\ stalled <= MaxStall /\ delay = 0
         /\ time_out \in Nat /\ time_out >= 1 /\ phase \in {"low", "high"}
         /\ phase = "low" =>
              /\ sent = k + 1
              /\ \E l \in Lows : /\ l \in Nat /\ left <= l /\ l - left <= Late + stalled
                                 /\ 2 + MaxStall < l /\ READ_THRESHOLD + 2 + 2 * MaxStall < l + Zero
                                 /\ l + One <= SPIN_TIMEOUT + READ_THRESHOLD + 1
         /\ phase = "high" => sent = k /\ left <= One - READ_THRESHOLD - 2 /\ left + 1 <= time_out
BY DhtNumbers, DhtTimes DEF DhtTypes, AtWaitLow

\* No low pulse is over while the driver still waits for it, when its thread loses
\* no more time.
LEMMA LowLasts ==
  ASSUME NEW l \in Nat, NEW k \in Nat, k < MaxStall, l - 1 <= Late + k,
         2 + MaxStall < l, READ_THRESHOLD + 2 + 2 * MaxStall < l + Zero
  PROVE  FALSE
<1>1. READ_THRESHOLD \in Nat /\ Zero \in Nat /\ MaxStall \in Nat
  BY DhtNumbers
<1>2. CASE Zero <= READ_THRESHOLD + MaxStall
  <2>1. Late = READ_THRESHOLD + 2 + MaxStall - Zero
    BY <1>2 DEF Late
  <2>. QED
    BY <1>1, <2>1
<1>3. CASE ~ (Zero <= READ_THRESHOLD + MaxStall)
  <2>1. Late = 2
    BY <1>3 DEF Late
  <2>. QED
    BY <1>1, <2>1
<1>. QED
  BY <1>2, <1>3

LEMMA WaitLowStall ==
  ASSUME DhtTypes, ~ dead, NEW k \in 0 .. BITS - 1, AtWaitLow(k), OneWire!Stall
  PROVE  AtWaitLow(k)'
<1>1. OneWire!SensorTick /\ stalled' = stalled + 1 /\ stalled < MaxStall /\ UNCHANGED <<delay, time_out>>
  BY DEF OneWire!Stall, OneWire!host
<1>2. /\ left \in Nat /\ left >= 1 /\ stalled \in Nat /\ delay = 0 /\ time_out \in Nat /\ time_out >= 1
      /\ phase \in {"low", "high"} /\ (phase = "low" => sent = k + 1)
      /\ phase = "high" => sent = k /\ left <= One - READ_THRESHOLD - 2 /\ left + 1 <= time_out
  BY WaitLowTime
<1>3. /\ left > 1 => left' = left - 1 /\ phase' = phase /\ sent' = sent
      /\ left = 1 /\ phase = "high" /\ sent < BITS => phase' = "low" /\ left' \in Lows /\ sent' = sent + 1
  BY <1>1, <1>2, SensorStep
<1>4. /\ MaxStall \in Nat /\ BITS \in Nat /\ One \in Nat /\ READ_THRESHOLD \in Nat
      /\ Late \in Nat /\ Late' = Late
  BY DhtNumbers, LateBound DEF Late
<1>5. CASE phase = "high" /\ left > 1
  <2>1. left' >= 1 /\ left' <= One - READ_THRESHOLD - 2 /\ left' + 1 <= time_out'
    BY <1>1, <1>2, <1>3, <1>4, <1>5
  <2>. QED
    BY <1>1, <1>2, <1>3, <1>5, <2>1 DEF AtWaitLow
<1>6. CASE phase = "high" /\ left = 1
  <2>1. phase' = "low" /\ left' \in Lows /\ sent' = k + 1
    BY <1>2, <1>3, <1>4, <1>6
  <2>2. left' \in Nat /\ left' >= 1 /\ left' <= left' /\ left' - left' <= Late + stalled'
    BY <1>1, <1>2, <1>4, <2>1, DhtNumbers
  <2>. QED
    BY <1>1, <1>2, <1>4, <2>1, <2>2 DEF AtWaitLow
<1>7. CASE phase = "low"
  <2>1. PICK l \in Lows : /\ l \in Nat /\ left <= l /\ l - left <= Late + stalled
                          /\ 2 + MaxStall < l /\ READ_THRESHOLD + 2 + 2 * MaxStall < l + Zero
    BY <1>7, WaitLowTime
  <2>2. left > 1
    BY <1>1, <1>2, <2>1, LowLasts
  <2>3. left' = left - 1 /\ phase' = "low" /\ sent' = k + 1
    BY <1>2, <1>3, <1>7, <2>2
  <2>4. left' >= 1 /\ left' <= l /\ l - left' <= Late + stalled'
    BY <1>1, <1>2, <1>4, <2>1, <2>2, <2>3
  <2>. QED
    BY <1>1, <1>2, <1>4, <2>3, <2>4 DEF AtWaitLow
<1>. QED
  BY <1>2, <1>5, <1>6, <1>7

LEMMA HighLenNat == \A k : HighLen(k) \in Nat /\ HighLen(k) >= 1 /\ HighLen(k) <= One
BY DhtNumbers, DhtConstants DEF HighLen, OneWire!DhtAssumption

LEMMA WaitLowTick ==
  ASSUME DhtTypes, ~ dead, NEW k \in 0 .. BITS - 1, pc = "wait_low", AtWaitLow(k), OneWire!Tick
  PROVE  /\ ret' = ret /\ got' = got /\ bits' = bits
         /\ (pc' = "wait_low" /\ AtWaitLow(k)') \/ (pc' = "wait_high" /\ AtWaitHigh(k)')
<1>2. /\ left \in Nat /\ left >= 1 /\ stalled \in Nat /\ delay = 0 /\ time_out \in Nat /\ time_out >= 1
      /\ phase \in {"low", "high"} /\ (phase = "low" => sent = k + 1)
      /\ phase = "high" => sent = k /\ left <= One - READ_THRESHOLD - 2 /\ left + 1 <= time_out
  BY WaitLowTime
<1>1. /\ OneWire!SensorTick /\ stalled' = stalled /\ got' = got
      /\ \/ ~ OneWire!High /\ pc' = "wait_high" /\ time_out' = SPIN_TIMEOUT /\ UNCHANGED <<delay, ret>>
         \/ /\ OneWire!High /\ time_out = 1
         \/ /\ OneWire!High /\ time_out # 1
            /\ time_out' = (IF time_out > 1 THEN time_out - 1 ELSE time_out)
            /\ UNCHANGED <<pc, delay, ret>>
  BY <1>2 DEF OneWire!Tick, OneWire!Delay, OneWire!Sync, OneWire!WaitResponse, OneWire!Gap, OneWire!wait_low,
         OneWire!wait_high, OneWire!sample, OneWire!spun_out, OneWire!Spin, OneWire!counter_for_high
<1>3. /\ bits' = bits
      /\ left > 1 => left' = left - 1 /\ phase' = phase /\ sent' = sent
      /\ left = 1 /\ phase = "high" /\ sent < BITS => phase' = "low" /\ left' \in Lows /\ sent' = sent + 1
      /\ left = 1 /\ phase = "low" => phase' = "high" /\ left' = HighLen(sent) /\ sent' = sent
  BY <1>1, <1>2, SensorStep
<1>4. /\ MaxStall \in Nat /\ BITS \in Nat /\ One \in Nat /\ READ_THRESHOLD \in Nat /\ SPIN_TIMEOUT \in Nat /\ SPIN_TIMEOUT > 0
      /\ Late \in Nat /\ Late' = Late
  BY DhtNumbers, LateBound DEF Late
<1>5. CASE phase = "high"
  <2>1. OneWire!High
    BY <1>5 DEF OneWire!High
  <2>2. time_out > 1
    BY <1>2, <1>5
  <2>3. time_out' = time_out - 1 /\ UNCHANGED <<pc, delay, ret>>
    BY <1>1, <1>2, <2>1, <2>2
  <2>4. CASE left > 1
    <3>1. left' >= 1 /\ left' <= One - READ_THRESHOLD - 2 /\ left' + 1 <= time_out' /\ time_out' >= 1
      BY <1>1, <1>2, <1>3, <1>4, <1>5, <2>2, <2>3, <2>4
    <3>. QED
      BY <1>1, <1>2, <1>3, <1>5, <2>3, <2>4, <3>1 DEF AtWaitLow
  <2>5. CASE left = 1
    <3>1. phase' = "low" /\ left' \in Lows /\ sent' = k + 1
      BY <1>2, <1>3, <1>4, <1>5, <2>5
    <3>2. left' \in Nat /\ left' >= 1 /\ left' <= left' /\ left' - left' <= Late + stalled' /\ time_out' >= 1
      BY <1>1, <1>2, <1>4, <2>2, <2>3, <3>1, DhtNumbers
    <3>. QED
      BY <1>1, <1>2, <1>3, <1>4, <2>3, <3>1, <3>2 DEF AtWaitLow
  <2>. QED
    BY <1>2, <2>4, <2>5
<1>6. CASE phase = "low"
  <2>1. ~ OneWire!High
    BY <1>6 DEF OneWire!High
  <2>2. pc' = "wait_high" /\ time_out' = SPIN_TIMEOUT /\ UNCHANGED <<delay, ret>>
    BY <1>1, <2>1
  <2>3. PICK l \in Lows : /\ l \in Nat /\ left <= l /\ l + One <= SPIN_TIMEOUT + READ_THRESHOLD + 1
    BY <1>6, WaitLowTime
  <2>4. CASE left > 1
    <3>1. left' = left - 1 /\ phase' = "low" /\ sent' = k + 1
      BY <1>2, <1>3, <1>6, <2>4
    <3>2. left' >= 1 /\ time_out' >= 1 /\ left' <= l /\ SPIN_TIMEOUT - (l - left') <= time_out'
      BY <1>2, <1>4, <2>2, <2>3, <2>4, <3>1
    <3>. QED
      BY <1>1, <1>2, <1>3, <2>2, <3>1, <3>2 DEF AtWaitHigh
  <2>5. CASE left = 1
    <3>1. left' = HighLen(k + 1) /\ phase' = "high" /\ sent' = k + 1
      BY <1>2, <1>3, <1>6, <2>5
    <3>2. left' \in Nat /\ left' >= 1 /\ left' - left' \in 0 .. stalled'
      BY <1>1, <1>2, <3>1, HighLenNat
    <3>3. time_out' >= 1 /\ One - READ_THRESHOLD - 1 <= time_out'
      BY <1>4, <2>2, <2>3
    <3>4. HighLen(k + 1)' = left'
      BY <1>3, <3>1 DEF HighLen
    <3>. QED
      BY <1>1, <1>2, <1>3, <2>2, <3>1, <3>2, <3>3, <3>4 DEF AtWaitHigh
  <2>. QED
    BY <1>2, <2>4, <2>5
<1>. QED
  BY <1>2, <1>5, <1>6

LEMMA WaitHighTime ==
  ASSUME DhtTypes, NEW k \in 0 .. BITS - 1, AtWaitHigh(k)
  PROVE  /\ left \in Nat /\ left >= 1 /\ stalled \in Nat /\ stalled <= MaxStall /\ delay = 0
         /\ time_out \in Nat /\ time_out >= 1 /\ phase \in {"low", "high"} /\ sent = k + 1
         /\ phase = "low" =>
              \E l \in Lows : /\ l \in Nat /\ left <= l /\ SPIN_TIMEOUT - (l - left) <= time_out
                              /\ l + One <= SPIN_TIMEOUT + READ_THRESHOLD + 1
         /\ phase = "high" => /\ HighLen(k + 1) - left >= 0 /\ HighLen(k + 1) - left <= stalled
                              /\ One - READ_THRESHOLD - 1 <= time_out
<1>1. HighLen(k + 1) \in Nat
  BY HighLenNat
<1>. QED
  BY <1>1, DhtNumbers, DhtTimes DEF DhtTypes, AtWaitHigh

\* A pulse of bit b of which not one unit more than MaxStall has passed is over
\* only if it is that of a zero, and with all the time lost.
LEMMA ShortPulse ==
  ASSUME DhtTypes, NEW b \in 1 .. BITS, NEW k \in Nat, k <= MaxStall, HighLen(b) - 1 <= k
  PROVE  bits[b] = 0 /\ HighLen(b) = Zero /\ k = MaxStall
<1>1. bits[b] \in {0, 1}
  BY DEF DhtTypes
<1>2. MaxStall < Zero /\ READ_THRESHOLD + 1 + MaxStall < One /\ MaxStall \in Nat /\ READ_THRESHOLD \in Nat
      /\ Zero \in Nat /\ One \in Nat
  BY DhtNumbers, DhtTimes
<1>3. bits[b] # 1
  <2> SUFFICES ASSUME bits[b] = 1 PROVE FALSE
    OBVIOUS
  <2>1. HighLen(b) = One
    BY DEF HighLen
  <2>. QED
    BY <1>2, <2>1
<1>4. HighLen(b) = Zero
  BY <1>3 DEF HighLen
<1>. QED
  BY <1>1, <1>2, <1>3, <1>4

LEMMA WaitHighStall ==
  ASSUME DhtTypes, ~ dead, NEW k \in 0 .. BITS - 1, AtWaitHigh(k), OneWire!Stall
  PROVE  AtWaitHigh(k)'
<1>1. OneWire!SensorTick /\ stalled' = stalled + 1 /\ stalled < MaxStall /\ UNCHANGED <<delay, time_out>>
  BY DEF OneWire!Stall, OneWire!host
<1>2. /\ left \in Nat /\ left >= 1 /\ stalled \in Nat /\ delay = 0 /\ time_out \in Nat /\ time_out >= 1
      /\ phase \in {"low", "high"} /\ sent = k + 1
      /\ phase = "high" => /\ HighLen(k + 1) - left >= 0 /\ HighLen(k + 1) - left <= stalled
                           /\ One - READ_THRESHOLD - 1 <= time_out
  BY WaitHighTime
<1>3. /\ bits' = bits
      /\ left > 1 => left' = left - 1 /\ phase' = phase /\ sent' = sent
      /\ left = 1 /\ phase = "low" => phase' = "high" /\ left' = HighLen(sent) /\ sent' = sent
  BY <1>1, <1>2, SensorStep
<1>4. /\ MaxStall \in Nat /\ BITS \in Nat /\ One \in Nat /\ READ_THRESHOLD \in Nat /\ SPIN_TIMEOUT \in Nat
      /\ HighLen(k + 1) \in Nat /\ HighLen(k + 1) >= 1
  BY DhtNumbers, HighLenNat
<1>5. HighLen(k + 1)' = HighLen(k + 1)
  BY <1>3 DEF HighLen
<1>6. CASE phase = "low"
  <2>1. PICK l \in Lows : /\ l \in Nat /\ left <= l /\ SPIN_TIMEOUT - (l - left) <= time_out
                          /\ l + One <= SPIN_TIMEOUT + READ_THRESHOLD + 1
    BY <1>6, WaitHighTime
  <2>2. CASE left > 1
    <3>1. left' >= 1 /\ left' <= l /\ SPIN_TIMEOUT - (l - left') <= time_out'
      BY <1>1, <1>2, <1>3, <1>4, <2>1, <2>2
    <3>. QED
      BY <1>1, <1>2, <1>3, <1>6, <2>2, <3>1 DEF AtWaitHigh
  <2>3. CASE left = 1
    <3>1. left' = HighLen(k + 1) /\ phase' = "high" /\ sent' = k + 1
      BY <1>2, <1>3, <1>6, <2>3
    <3>2. HighLen(k + 1) - left' \in 0 .. stalled' /\ left' >= 1
      BY <1>1, <1>2, <1>4, <3>1
    <3>3. One - READ_THRESHOLD - 1 <= time_out'
      BY <1>1, <1>2, <1>4, <2>1, <2>3
    <3>. QED
      BY <1>1, <1>2, <1>5, <3>1, <3>2, <3>3 DEF AtWaitHigh
  <2>. QED
    BY <1>2, <2>2, <2>3
<1>7. CASE phase = "high"
  <2>1. left > 1
    <3> SUFFICES ASSUME left = 1 PROVE FALSE
      BY <1>2
    <3>1. HighLen(k + 1) - 1 <= stalled /\ k + 1 \in 1 .. BITS /\ stalled <= MaxStall
      BY <1>1, <1>2, <1>4, <1>7
    <3>2. stalled = MaxStall
      BY <1>2, <3>1, ShortPulse
    <3>. QED
      BY <1>1, <1>2, <1>4, <3>2
  <2>2. left' = left - 1 /\ phase' = "high" /\ sent' = k + 1
    BY <1>2, <1>3, <1>7, <2>1
  <2>3. left' >= 1 /\ HighLen(k + 1) - left' \in 0 .. stalled' /\ One - READ_THRESHOLD - 1 <= time_out'
    BY <1>1, <1>2, <1>4, <1>7, <2>1, <2>2
  <2>. QED
    BY <1>1, <1>2, <1>5, <2>2, <2>3 DEF AtWaitHigh
<1>. QED
  BY <1>2, <1>6, <1>7

LEMMA WaitHighTick ==
  ASSUME DhtTypes, ~ dead, NEW k \in 0 .. BITS - 1, pc = "wait_high", AtWaitHigh(k), OneWire!Tick
  PROVE  /\ ret' = ret /\ got' = got /\ bits' = bits
         /\ (pc' = "wait_high" /\ AtWaitHigh(k)') \/ (pc' = "sample" /\ AtSample(k)')
<1>2. /\ left \in Nat /\ left >= 1 /\ stalled \in Nat /\ stalled <= MaxStall /\ delay = 0
      /\ time_out \in Nat /\ time_out >= 1
      /\ phase \in {"low", "high"} /\ sent = k + 1
      /\ phase = "high" => /\ HighLen(k + 1) - left >= 0 /\ HighLen(k + 1) - left <= stalled
                           /\ One - READ_THRESHOLD - 1 <= time_out
  BY WaitHighTime
<1>1. /\ OneWire!SensorTick /\ stalled' = stalled /\ got' = got
      /\ \/ OneWire!High /\ pc' = "sample" /\ delay' = READ_THRESHOLD /\ UNCHANGED <<time_out, ret>>
         \/ /\ ~ OneWire!High /\ time_out = 1
         \/ /\ ~ OneWire!High /\ time_out # 1
            /\ time_out' = (IF time_out > 1 THEN time_out - 1 ELSE time_out)
            /\ UNCHANGED <<pc, delay, ret>>
  BY <1>2 DEF OneWire!Tick, OneWire!Delay, OneWire!Sync, OneWire!WaitResponse, OneWire!Gap, OneWire!wait_low,
         OneWire!wait_high, OneWire!sample, OneWire!spun_out, OneWire!Spin, OneWire!sample_after
<1>3. /\ bits' = bits
      /\ left > 1 => left' = left - 1 /\ phase' = phase /\ sent' = sent
      /\ left = 1 /\ phase = "low" => phase' = "high" /\ left' = HighLen(sent) /\ sent' = sent
      /\ left = 1 /\ phase = "high" /\ sent < BITS => phase' = "low" /\ left' \in Lows /\ sent' = sent + 1
      /\ left = 1 /\ phase = "high" /\ sent = BITS => phase' = "end" /\ left' \in Lows /\ sent' = sent
  BY <1>1, <1>2, SensorStep
<1>4. /\ MaxStall \in Nat /\ BITS \in Nat /\ One \in Nat /\ READ_THRESHOLD \in Nat /\ SPIN_TIMEOUT \in Nat
      /\ Zero \in Nat /\ Zero > 0 /\ READ_THRESHOLD + 1 + MaxStall < One
      /\ HighLen(k + 1) \in Nat /\ HighLen(k + 1) >= 1
  BY DhtNumbers, DhtTimes, HighLenNat
<1>5. HighLen(k + 1)' = HighLen(k + 1)
  BY <1>3 DEF HighLen
<1>6. CASE phase = "low"
  <2>1. PICK l \in Lows : /\ l \in Nat /\ left <= l /\ SPIN_TIMEOUT - (l - left) <= time_out
                          /\ l + One <= SPIN_TIMEOUT + READ_THRESHOLD + 1
    BY <1>6, WaitHighTime
  <2>2. ~ OneWire!High
    BY <1>6 DEF OneWire!High
  <2>3. time_out > 1
    BY <1>2, <1>4, <2>1
  <2>4. time_out' = time_out - 1 /\ UNCHANGED <<pc, delay, ret>>
    BY <1>1, <1>2, <2>2, <2>3
  <2>5. CASE left > 1
    <3>1. left' >= 1 /\ left' <= l /\ SPIN_TIMEOUT - (l - left') <= time_out' /\ time_out' >= 1
      BY <1>2, <1>3, <1>4, <2>1, <2>3, <2>4, <2>5
    <3>. QED
      BY <1>1, <1>2, <1>3, <1>6, <2>4, <2>5, <3>1 DEF AtWaitHigh
  <2>6. CASE left = 1
    <3>1. left' = HighLen(k + 1) /\ phase' = "high" /\ sent' = k + 1
      BY <1>2, <1>3, <1>6, <2>6
    <3>2. HighLen(k + 1) - left' \in 0 .. stalled' /\ left' >= 1
      BY <1>1, <1>2, <1>4, <3>1
    <3>3. One - READ_THRESHOLD - 1 <= time_out' /\ time_out' >= 1
      BY <1>2, <1>4, <2>1, <2>3, <2>4, <2>6
    <3>. QED
      BY <1>1, <1>2, <1>3, <1>5, <2>4, <3>1, <3>2, <3>3 DEF AtWaitHigh
  <2>. QED
    BY <1>2, <2>5, <2>6
<1>7. CASE phase = "high"
  <2>1. OneWire!High
    BY <1>7 DEF OneWire!High
  <2>2. pc' = "sample" /\ delay' = READ_THRESHOLD /\ UNCHANGED <<time_out, ret>>
    BY <1>1, <2>1
  <2>3. One - READ_THRESHOLD - 1 <= time_out'
    BY <1>2, <1>7, <2>2
  <2>4. CASE left > 1
    <3>1. left' = left - 1 /\ phase' = "high" /\ sent' = k + 1
      BY <1>2, <1>3, <1>7, <2>4
    <3>2. left' >= 1 /\ HighLen(k + 1) - left' - (READ_THRESHOLD - delay' + 1) \in 0 .. stalled'
      BY <1>1, <1>2, <1>4, <1>7, <2>2, <2>4, <3>1
    <3>. QED
      BY <1>1, <1>3, <1>5, <2>2, <2>3, <3>1, <3>2 DEF AtSample
  <2>5. CASE left = 1
    <3>1. HighLen(k + 1) - 1 <= stalled /\ k + 1 \in 1 .. BITS
      BY <1>2, <1>4, <1>7, <2>5
    <3>2. bits[k + 1] = 0 /\ HighLen(k + 1) = Zero
      BY <1>2, <3>1, ShortPulse
    <3>3. left' \in Lows /\ (\/ phase' = "low" /\ sent' = k + 2 /\ sent' <= BITS
                             \/ phase' = "end" /\ sent' = k + 1 /\ sent' = BITS)
      BY <1>2, <1>3, <1>4, <1>7, <2>5
    <3>4. left' \in Nat /\ left' >= 1 /\ left' <= left'
      BY <3>3, DhtNumbers
    <3>5. Zero + (left' - left') - (READ_THRESHOLD - delay' + 1) \in 0 .. stalled'
      <4>1. Zero - 1 >= 0 /\ Zero - 1 <= stalled' /\ stalled' \in Nat
        BY <1>1, <1>2, <1>4, <3>1, <3>2
      <4>2. READ_THRESHOLD - delay' + 1 = 1
        BY <1>4, <2>2
      <4>3. ASSUME NEW x \in Nat PROVE Zero + (x - x) - 1 \in 0 .. stalled'
        BY <1>4, <4>1
      <4>. QED
        BY <3>4, <4>2, <4>3
    <3>6. bits'[k + 1] = 0
      BY <1>3, <3>2
    <3>. QED
      BY <1>1, <1>3, <2>2, <2>3, <3>3, <3>4, <3>5, <3>6 DEF AtSample
  <2>. QED
    BY <1>2, <2>4, <2>5
<1>. QED
  BY <1>2, <1>6, <1>7

LEMMA SampleTime ==
  ASSUME DhtTypes, NEW k \in 0 .. BITS - 1, AtSample(k)
  PROVE  /\ left \in Nat /\ left >= 1 /\ stalled \in Nat /\ stalled <= MaxStall /\ delay \in Nat
         /\ time_out \in Nat /\ One - READ_THRESHOLD - 1 <= time_out
         /\ phase \in {"low", "high", "end"} /\ k + 1 \in 1 .. BITS /\ bits[k + 1] \in {0, 1}
         /\ phase = "high" =>
              /\ sent = k + 1 /\ HighLen(k + 1) + delay >= left + READ_THRESHOLD + 1
              /\ HighLen(k + 1) + delay <= left + READ_THRESHOLD + 1 + stalled
         /\ phase # "high" =>
              /\ bits[k + 1] = 0
              /\ (phase = "low" /\ sent = k + 2 /\ sent <= BITS) \/ (phase = "end" /\ sent = k + 1 /\ sent = BITS)
              /\ \E l \in Lows : /\ l \in Nat /\ left <= l
                                 /\ Zero + l + delay >= left + READ_THRESHOLD + 1
                                 /\ Zero + l + delay <= left + READ_THRESHOLD + 1 + stalled
                                 /\ READ_THRESHOLD + 2 + 2 * MaxStall < l + Zero
<1>1. HighLen(k + 1) \in Nat
  BY HighLenNat
<1>2. /\ left \in Nat /\ left >= 1 /\ stalled \in Nat /\ stalled <= MaxStall /\ delay \in Nat
      /\ time_out \in Nat /\ One - READ_THRESHOLD - 1 <= time_out
      /\ k + 1 \in 1 .. BITS /\ bits[k + 1] \in {0, 1}
  <2>1. k + 1 \in 1 .. BITS
    BY DhtNumbers
  <2>. QED
    BY <2>1, DhtNumbers DEF DhtTypes, AtSample
<1>3. READ_THRESHOLD \in Nat /\ Zero \in Nat /\ MaxStall \in Nat
  BY DhtNumbers
<1>4. CASE /\ phase = "high" /\ sent = k + 1
           /\ HighLen(k + 1) - left - (READ_THRESHOLD - delay + 1) \in 0 .. stalled
  <2>1. /\ HighLen(k + 1) + delay >= left + READ_THRESHOLD + 1
        /\ HighLen(k + 1) + delay <= left + READ_THRESHOLD + 1 + stalled
    BY <1>1, <1>2, <1>3, <1>4
  <2>. QED
    BY <1>2, <1>4, <2>1
<1>5. CASE /\ \/ phase = "low" /\ sent = k + 2 /\ sent <= BITS
              \/ phase = "end" /\ sent = k + 1 /\ sent = BITS
           /\ bits[k + 1] = 0
           /\ \E l \in Lows : left <= l /\ Zero + (l - left) - (READ_THRESHOLD - delay + 1) \in 0 .. stalled
  <2>1. PICK l \in Lows : left <= l /\ Zero + (l - left) - (READ_THRESHOLD - delay + 1) \in 0 .. stalled
    BY <1>5
  <2>2. l \in Nat /\ READ_THRESHOLD + 2 + 2 * MaxStall < l + Zero
    BY DhtNumbers, DhtTimes
  <2>3. /\ Zero + l + delay >= left + READ_THRESHOLD + 1
        /\ Zero + l + delay <= left + READ_THRESHOLD + 1 + stalled
    BY <1>2, <1>3, <2>1, <2>2
  <2>. QED
    BY <1>2, <1>5, <2>1, <2>2, <2>3
<1>. QED
  BY <1>4, <1>5 DEF AtSample

\* The next place in the pulses when not all of them is over at once.
LEMMA SampleGoesOn ==
  ASSUME DhtTypes, ~ dead, NEW k \in 0 .. BITS - 1, AtSample(k), OneWire!SensorTick, time_out' = time_out,
         \/ stalled < MaxStall /\ stalled' = stalled + 1 /\ delay' = delay
         \/ delay > 0 /\ delay' = delay - 1 /\ stalled' = stalled
  PROVE  AtSample(k)' /\ bits' = bits
<1>1. /\ left \in Nat /\ left >= 1 /\ stalled \in Nat /\ stalled <= MaxStall /\ delay \in Nat
      /\ time_out \in Nat /\ One - READ_THRESHOLD - 1 <= time_out
      /\ phase \in {"low", "high", "end"} /\ k + 1 \in 1 .. BITS /\ bits[k + 1] \in {0, 1}
      /\ phase = "high" =>
           /\ sent = k + 1 /\ HighLen(k + 1) + delay >= left + READ_THRESHOLD + 1
           /\ HighLen(k + 1) + delay <= left + READ_THRESHOLD + 1 + stalled
      /\ phase # "high" =>
           /\ bits[k + 1] = 0
           /\ (phase = "low" /\ sent = k + 2 /\ sent <= BITS) \/ (phase = "end" /\ sent = k + 1 /\ sent = BITS)
  BY SampleTime
<1>2. /\ bits' = bits
      /\ left > 1 => left' = left - 1 /\ phase' = phase /\ sent' = sent
      /\ left = 1 /\ phase = "high" /\ sent < BITS => phase' = "low" /\ left' \in Lows /\ sent' = sent + 1
      /\ left = 1 /\ phase = "high" /\ sent = BITS => phase' = "end" /\ left' \in Lows /\ sent' = sent
  BY <1>1, SensorStep
<1>3. /\ MaxStall \in Nat /\ BITS \in Nat /\ One \in Nat /\ READ_THRESHOLD \in Nat /\ Zero \in Nat
      /\ READ_THRESHOLD + 1 + MaxStall < One /\ HighLen(k + 1) \in Nat
  BY DhtNumbers, DhtTimes, HighLenNat
<1>4. HighLen(k + 1)' = HighLen(k + 1) /\ bits'[k + 1] = bits[k + 1]
  BY <1>2 DEF HighLen
<1>5. delay' \in Nat /\ stalled' \in Nat /\ stalled' <= MaxStall
  BY <1>1, <1>3
<1>6. One - READ_THRESHOLD - 1 <= time_out'
  BY <1>1
<1>7. CASE phase = "high" /\ left > 1
  <2>1. left' = left - 1 /\ phase' = "high" /\ sent' = k + 1
    BY <1>1, <1>2, <1>7
  <2>2. left' >= 1 /\ HighLen(k + 1) - left' - (READ_THRESHOLD - delay' + 1) \in 0 .. stalled'
    BY <1>1, <1>3, <1>5, <1>7, <2>1
  <2>. QED
    BY <1>2, <1>4, <1>6, <2>1, <2>2 DEF AtSample
<1>8. CASE phase = "high" /\ left = 1
  <2>1. bits[k + 1] = 0
    <3> SUFFICES ASSUME bits[k + 1] = 1 PROVE FALSE
      BY <1>1
    <3>1. HighLen(k + 1) = One
      BY DEF HighLen
    <3>2. One + delay <= READ_THRESHOLD + 2 + stalled
      BY <1>1, <1>3, <1>8, <3>1
    <3>. QED
      BY <1>1, <1>3, <3>2
  <2>2. HighLen(k + 1) = Zero
    BY <2>1 DEF HighLen
  <2>3. left' \in Lows /\ (\/ phase' = "low" /\ sent' = k + 2 /\ sent' <= BITS
                           \/ phase' = "end" /\ sent' = k + 1 /\ sent' = BITS)
    BY <1>1, <1>2, <1>3, <1>8
  <2>4. left' \in Nat /\ left' >= 1 /\ left' <= left'
    BY <2>3, DhtNumbers
  <2>5. Zero + (left' - left') - (READ_THRESHOLD - delay' + 1) \in 0 .. stalled'
    <3>2. /\ Zero + delay >= READ_THRESHOLD + 2 /\ Zero + delay <= READ_THRESHOLD + 2 + stalled
      BY <1>1, <1>3, <1>8, <2>2
    <3>3. Zero - (READ_THRESHOLD - delay' + 1) >= 0 /\ Zero - (READ_THRESHOLD - delay' + 1) <= stalled'
      BY <1>1, <1>3, <3>2
    <3>4. ASSUME NEW d \in Nat, NEW t \in Nat, NEW x \in Nat, Zero - (READ_THRESHOLD - d + 1) >= 0,
                 Zero - (READ_THRESHOLD - d + 1) <= t
          PROVE  Zero + (x - x) - (READ_THRESHOLD - d + 1) \in 0 .. t
      BY <1>3, <3>4
    <3>. QED
      BY <1>5, <2>4, <3>3, <3>4
  <2>6. bits'[k + 1] = 0
    BY <1>4, <2>1
  <2>. QED
    BY <1>2, <1>6, <2>3, <2>4, <2>5, <2>6 DEF AtSample
<1>9. CASE phase # "high"
  <2>1. PICK l \in Lows : /\ l \in Nat /\ left <= l
                          /\ Zero + l + delay >= left + READ_THRESHOLD + 1
                          /\ Zero + l + delay <= left + READ_THRESHOLD + 1 + stalled
                          /\ READ_THRESHOLD + 2 + 2 * MaxStall < l + Zero
    BY <1>9, SampleTime
  <2>2. left > 1
    BY <1>1, <1>3, <2>1
  <2>3. left' = left - 1 /\ phase' = phase /\ sent' = sent
    BY <1>2, <2>2
  <2>4. left' >= 1 /\ left' <= l /\ Zero + (l - left') - (READ_THRESHOLD - delay' + 1) \in 0 .. stalled'
    <3>1. left' \in Nat /\ left' >= 1 /\ left' <= l
      BY <1>1, <2>1, <2>2, <2>3
    <3>2. /\ Zero + l + delay' >= left' + READ_THRESHOLD + 1
          /\ Zero + l + delay' <= left' + READ_THRESHOLD + 1 + stalled'
      BY <1>1, <1>3, <2>1, <2>2, <2>3
    <3>3. ASSUME NEW d \in Nat, NEW t \in Nat, NEW x \in Nat,
                 Zero + l + d >= x + READ_THRESHOLD + 1, Zero + l + d <= x + READ_THRESHOLD + 1 + t
          PROVE  Zero + (l - x) - (READ_THRESHOLD - d + 1) \in 0 .. t
      BY <1>3, <2>1, <3>3
    <3>. QED
      BY <1>5, <3>1, <3>2, <3>3
  <2>. QED
    BY <1>1, <1>2, <1>4, <1>6, <1>9, <2>3, <2>4 DEF AtSample
<1>. QED
  BY <1>1, <1>7, <1>8, <1>9

LEMMA FirstBitsSeq ==
  ASSUME DhtTypes
  PROVE  /\ FirstBits(0) = << >> /\ FirstBits(BITS) = bits
         /\ \A k \in 0 .. BITS - 1 : /\ Len(FirstBits(k)) = k
                                     /\ Append(FirstBits(k), bits[k + 1]) = FirstBits(k + 1)
<1>1. BITS \in Nat /\ bits \in [1 .. BITS -> {0, 1}]
  BY DhtNumbers DEF DhtTypes
<1>2. FirstBits(0) = << >>
  BY DEF FirstBits
<1>3. FirstBits(BITS) = bits
  BY <1>1 DEF FirstBits
<1>4. ASSUME NEW k \in 0 .. BITS - 1
      PROVE  Len(FirstBits(k)) = k /\ Append(FirstBits(k), bits[k + 1]) = FirstBits(k + 1)
  <2>1. \A i \in 1 .. k + 1 : bits[i] \in {0, 1}
    BY <1>1
  <2>2. k \in Nat /\ k + 1 \in 1 .. k + 1
    BY <1>1
  <2> DEFINE u == FirstBits(k)
             t == Append(u, bits[k + 1])
             v == FirstBits(k + 1)
  <2>3. u \in Seq({0, 1}) /\ Len(u) = k /\ \A i \in 1 .. k : u[i] = bits[i]
    BY <2>1, <2>2 DEF FirstBits
  <2>4. v \in Seq({0, 1}) /\ Len(v) = k + 1 /\ \A i \in 1 .. k + 1 : v[i] = bits[i]
    BY <2>1, <2>2 DEF FirstBits
  <2> HIDE DEF u, v
  <2>5. /\ t \in Seq({0, 1}) /\ Len(t) = k + 1 /\ t[k + 1] = bits[k + 1]
        /\ \A i \in 1 .. k : t[i] = u[i]
    BY <2>1, <2>2, <2>3, AppendProperties
  <2> HIDE DEF t
  <2>6. ASSUME NEW i \in 1 .. k + 1 PROVE t[i] = v[i]
    <3>1. i \in 1 .. k \/ i = k + 1
      BY <2>2
    <3>. QED
      BY <3>1, <2>3, <2>4, <2>5
  <2>7. t = v
    BY <2>4, <2>5, <2>6, SeqEqual
  <2>. QED
    BY <2>3, <2>7 DEF t, u, v
<1>. QED
  BY <1>2, <1>3, <1>4

LEMMA SampleTick ==
  ASSUME DhtTypes, ~ dead, NEW k \in 0 .. BITS - 1, pc = "sample", got = FirstBits(k), AtSample(k), OneWire!Tick
  PROVE  /\ bits' = bits
         /\ \/ pc' = "sample" /\ ret' = ret /\ got' = got /\ AtSample(k)'
            \/ /\ pc' = "wait_low" /\ ret' = ret /\ k + 1 \in 0 .. BITS - 1 /\ got' = FirstBits(k + 1)
               /\ AtWaitLow(k + 1)'
            \/ pc' = "done" /\ ret' = "ok" /\ got' = bits
<1>1. /\ OneWire!SensorTick /\ time_out' = time_out
      /\ \/ delay > 0 /\ delay' = delay - 1 /\ UNCHANGED <<pc, got, ret>>
         \/ /\ delay = 0 /\ delay' = delay
            /\ got' = Append(got, IF OneWire!High THEN 1 ELSE 0)
            /\ IF Len(got) + 1 = BITS THEN pc' = "done" /\ ret' = "ok" ELSE pc' = "wait_low" /\ ret' = ret
      /\ stalled' = IF delay = 0 THEN 0 ELSE stalled
  BY DEF OneWire!Tick, OneWire!Delay, OneWire!Sync, OneWire!WaitResponse, OneWire!Gap, OneWire!wait_low,
         OneWire!wait_high, OneWire!sample, OneWire!last_bit, OneWire!Finish
<1>2. /\ left \in Nat /\ left >= 1 /\ stalled \in Nat /\ stalled <= MaxStall /\ delay \in Nat
      /\ time_out \in Nat /\ One - READ_THRESHOLD - 1 <= time_out
      /\ phase \in {"low", "high", "end"} /\ k + 1 \in 1 .. BITS /\ bits[k + 1] \in {0, 1}
      /\ phase = "high" =>
           /\ sent = k + 1 /\ HighLen(k + 1) + delay >= left + READ_THRESHOLD + 1
           /\ HighLen(k + 1) + delay <= left + READ_THRESHOLD + 1 + stalled
      /\ phase # "high" =>
           /\ bits[k + 1] = 0
           /\ (phase = "low" /\ sent = k + 2 /\ sent <= BITS) \/ (phase = "end" /\ sent = k + 1 /\ sent = BITS)
  BY SampleTime
<1>3. CASE delay > 0
  <2>1. delay' = delay - 1 /\ UNCHANGED <<pc, got, ret, time_out, stalled>>
    BY <1>1, <1>2, <1>3
  <2>2. AtSample(k)' /\ bits' = bits
    BY <1>1, <1>3, <2>1, SampleGoesOn
  <2>. QED
    BY <2>1, <2>2
<1>4. CASE delay = 0
  <2>1. /\ delay' = 0 /\ stalled' = 0 /\ got' = Append(got, IF OneWire!High THEN 1 ELSE 0)
        /\ IF Len(got) + 1 = BITS THEN pc' = "done" /\ ret' = "ok" ELSE pc' = "wait_low" /\ ret' = ret
    BY <1>1, <1>4
  <2>2. /\ bits' = bits
        /\ left > 1 => left' = left - 1 /\ phase' = phase /\ sent' = sent
        /\ left = 1 /\ phase = "high" /\ sent < BITS => phase' = "low" /\ left' \in Lows /\ sent' = sent + 1
    BY <1>1, <1>2, SensorStep
  <2>3. /\ MaxStall \in Nat /\ BITS \in Nat /\ One \in Nat /\ READ_THRESHOLD \in Nat /\ Zero \in Nat
        /\ READ_THRESHOLD + 1 + MaxStall < One /\ Zero <= READ_THRESHOLD + 1
        /\ HighLen(k + 1) \in Nat /\ Late \in Nat /\ Late >= 2 /\ Late' = Late
    BY DhtNumbers, DhtTimes, HighLenNat, LateBound DEF Late
  <2>4. phase = "high" => bits[k + 1] = 1
    <3> SUFFICES ASSUME phase = "high", bits[k + 1] = 0 PROVE FALSE
      BY <1>2
    <3>1. HighLen(k + 1) = Zero
      BY DEF HighLen
    <3>. QED
      BY <1>2, <1>4, <2>3, <3>1
  <2>5. (IF OneWire!High THEN 1 ELSE 0) = bits[k + 1]
    BY <1>2, <2>4 DEF OneWire!High
  <2>6. got' = FirstBits(k + 1) /\ Len(got) = k
    BY <2>1, <2>5, FirstBitsSeq
  <2>7. CASE k + 1 = BITS
    BY <2>1, <2>2, <2>6, <2>7, FirstBitsSeq
  <2>8. CASE k + 1 # BITS
    <3>1. pc' = "wait_low" /\ ret' = ret
      BY <2>1, <2>6, <2>8
    <3>2. k + 1 \in 0 .. BITS - 1 /\ k + 1 < BITS /\ time_out' >= 1
      BY <1>1, <1>2, <2>3, <2>8
    <3>3. CASE phase = "high"
      <4>1. HighLen(k + 1) = One
        BY <2>4, <3>3 DEF HighLen
      <4>2. left <= One - READ_THRESHOLD - 1
        BY <1>2, <1>4, <2>3, <3>3, <4>1
      <4>3. CASE left > 1
        <5>1. left' = left - 1 /\ phase' = "high" /\ sent' = k + 1
          BY <1>2, <2>2, <3>3, <4>3
        <5>2. left' >= 1 /\ left' <= One - READ_THRESHOLD - 2 /\ left' + 1 <= time_out'
          BY <1>1, <1>2, <2>3, <4>2, <4>3, <5>1
        <5>3. AtWaitLow(k + 1)'
          BY <2>1, <3>2, <5>1, <5>2 DEF AtWaitLow
        <5>. QED
          BY <2>2, <2>6, <3>1, <3>2, <5>3
      <4>4. CASE left = 1
        <5>1. phase' = "low" /\ left' \in Lows /\ sent' = (k + 1) + 1
          BY <1>2, <2>2, <3>2, <3>3, <4>4
        <5>2. left' \in Nat /\ left' >= 1 /\ left' <= left' /\ left' - left' <= Late + stalled'
          BY <2>1, <2>3, <5>1, DhtNumbers
        <5>3. AtWaitLow(k + 1)'
          BY <2>1, <2>3, <3>2, <5>1, <5>2 DEF AtWaitLow
        <5>. QED
          BY <2>2, <2>6, <3>1, <3>2, <5>3
      <4>. QED
        BY <1>2, <4>3, <4>4
    <3>4. CASE phase # "high"
      <4>1. PICK l \in Lows : /\ l \in Nat /\ left <= l
                              /\ Zero + l + delay <= left + READ_THRESHOLD + 1 + stalled
                              /\ READ_THRESHOLD + 2 + 2 * MaxStall < l + Zero
        BY <3>4, SampleTime
      <4>2. left > 1
        BY <1>2, <1>4, <2>3, <4>1
      <4>3. phase = "low" /\ sent = k + 2
        BY <1>2, <2>8, <3>4
      <4>4. left' = left - 1 /\ phase' = "low" /\ sent' = (k + 1) + 1
        BY <2>2, <4>2, <4>3
      <4>5. l - (left - 1) <= Late
        <5>1. l - (left - 1) <= READ_THRESHOLD + 2 + MaxStall - Zero
          BY <1>2, <1>4, <2>3, <4>1
        <5>2. CASE Zero <= READ_THRESHOLD + MaxStall
          BY <5>1, <5>2 DEF Late
        <5>3. CASE ~ (Zero <= READ_THRESHOLD + MaxStall)
          <6>1. Late = 2
            BY <5>3 DEF Late
          <6>. QED
            BY <1>2, <2>3, <4>1, <5>1, <5>3, <6>1
        <5>. QED
          BY <5>2, <5>3
      <4>6. left' >= 1 /\ left' <= l /\ l - left' <= Late + stalled'
        BY <1>2, <2>1, <2>3, <4>1, <4>2, <4>4, <4>5
      <4>7. AtWaitLow(k + 1)'
        BY <2>1, <2>3, <3>2, <4>4, <4>6 DEF AtWaitLow
      <4>. QED
        BY <2>2, <2>6, <3>1, <3>2, <4>7
    <3>. QED
      BY <3>3, <3>4
  <2>. QED
    BY <2>7, <2>8
<1>. QED
  BY <1>2, <1>3, <1>4

LEMMA DhtInit == OneWire!Init => DhtInv
<1> SUFFICES ASSUME OneWire!Init PROVE DhtInv
  OBVIOUS
<1>1. /\ phase = "off" /\ left = 0 /\ sent = 0 /\ dead = FALSE /\ bits \in [1 .. BITS -> {0, 1}]
      /\ pc = "idle" /\ time_out = 0 /\ delay = 0 /\ got = << >> /\ fn = "none" /\ ret = "none" /\ stalled = 0
  BY DEF OneWire!Init
<1>2. 0 \in 0 .. MaxStall /\ 0 <= BITS
  BY DhtNumbers
<1>3. DhtTypes
  BY <1>1, <1>2 DEF DhtTypes, Pulses, DhtPlaces
<1>. QED
  BY <1>1, <1>3 DEF DhtInv, DhtCalls, DhtReading

\* The driver's loops keep their counters natural numbers.
LEMMA TickTypes ==
  ASSUME DhtTypes, OneWire!Tick
  PROVE  DhtTypes'
<1>1. OneWire!SensorTick
  BY DEF OneWire!Tick
<1>2. stalled' \in 0 .. MaxStall
  BY DhtNumbers DEF OneWire!Tick, DhtTypes
<1>3. /\ RESPONSE \in Nat /\ SPIN_TIMEOUT \in Nat /\ READ_THRESHOLD \in Nat /\ delay \in Nat /\ time_out \in Nat
      /\ pc \in DhtPlaces
  BY DhtNumbers DEF DhtTypes
<1>4. ASSUME OneWire!StartFailed PROVE pc' \in DhtPlaces
  BY <1>4 DEF OneWire!StartFailed, OneWire!Finish, DhtPlaces
<1>5. pc' \in DhtPlaces /\ delay' \in Nat /\ time_out' \in Nat
  <2>1. CASE OneWire!Delay
    BY <1>3, <2>1 DEF OneWire!Delay
  <2>2. CASE OneWire!Sync
    BY <1>3, <1>4, <2>2 DEF OneWire!Sync, DhtPlaces
  <2>3. CASE OneWire!WaitResponse
    BY <1>3, <1>4, <2>3 DEF OneWire!WaitResponse, DhtPlaces
  <2>4. CASE OneWire!Gap
    BY <1>3, <2>4 DEF OneWire!Gap, OneWire!Finish, DhtPlaces
  <2>5. CASE OneWire!wait_low
    BY <1>3, <2>5 DEF OneWire!wait_low, OneWire!Spin, OneWire!Finish, OneWire!counter_for_high, DhtPlaces
  <2>6. CASE OneWire!wait_high
    BY <1>3, <2>6 DEF OneWire!wait_high, OneWire!Spin, OneWire!Finish, OneWire!sample_after, DhtPlaces
  <2>7. CASE OneWire!sample
    BY <1>3, <2>7 DEF OneWire!sample, OneWire!Finish, DhtPlaces
  <2>. QED
    BY <2>1, <2>2, <2>3, <2>4, <2>5, <2>6, <2>7 DEF OneWire!Tick
<1>6. /\ phase' \in Pulses /\ left' \in Nat /\ sent' \in Nat /\ dead' \in BOOLEAN
      /\ bits' \in [1 .. BITS -> {0, 1}] /\ sent' <= BITS
      /\ phase' \in {"reaction", "resp_low", "resp_high"} => sent' = 0
  BY <1>1, SensorTypes
<1>. QED
  BY <1>2, <1>5, <1>6 DEF DhtTypes

\* A read of a sensor without power gets no further than the response.
LEMMA TickCalls ==
  ASSUME DhtTypes, DhtCalls, OneWire!Tick
  PROVE  DhtCalls'
<1>1. fn' = fn /\ OneWire!SensorTick /\ pc \notin {"idle", "power", "start", "done"}
  BY DEF OneWire!Tick, OneWire!Running
<1>2. fn # "none"
  BY <1>1 DEF DhtCalls
<1>3. phase' = "off" <=> phase = "off"
  BY <1>1, SensorTypes
<1>4. ASSUME fn = "dht_read", OneWire!StartFailed PROVE pc' = "done" /\ ret' = "not_found"
  BY <1>4 DEF OneWire!StartFailed, OneWire!Finish
<1>5. ASSUME fn = "dht_read" PROVE pc' \notin {"idle", "power"}
  <2>1. CASE OneWire!Delay
    BY <1>1, <2>1 DEF OneWire!Delay
  <2>2. CASE OneWire!Sync \/ OneWire!WaitResponse \/ OneWire!Gap
    BY <1>1, <1>4, <1>5, <2>2 DEF OneWire!Sync, OneWire!WaitResponse, OneWire!Gap, OneWire!Finish
  <2>3. CASE OneWire!wait_low \/ OneWire!wait_high \/ OneWire!sample
    BY <1>1, <2>3 DEF OneWire!wait_low, OneWire!wait_high, OneWire!sample, OneWire!Spin, OneWire!Finish
  <2>. QED
    BY <2>1, <2>2, <2>3 DEF OneWire!Tick
<1>6. ASSUME fn = "dht_read", phase = "off" PROVE pc' \in {"start", "sync", "resp", "done"} /\ ret' # "ok"
  <2>1. pc \in {"sync", "resp"} /\ ret # "ok" /\ ~ OneWire!High
    BY <1>1, <1>6 DEF DhtCalls, OneWire!High
  <2>2. CASE OneWire!Delay
    BY <2>1, <2>2 DEF OneWire!Delay
  <2>3. CASE OneWire!Sync \/ OneWire!WaitResponse
    BY <1>4, <1>6, <2>1, <2>3 DEF OneWire!Sync, OneWire!WaitResponse
  <2>4. ~ (OneWire!Gap \/ OneWire!wait_low \/ OneWire!wait_high \/ OneWire!sample)
    BY <2>1 DEF OneWire!Gap, OneWire!wait_low, OneWire!wait_high, OneWire!sample
  <2>. QED
    BY <2>2, <2>3, <2>4 DEF OneWire!Tick
<1>. QED
  BY <1>1, <1>2, <1>3, <1>5, <1>6 DEF DhtCalls

LEMMA TickReading ==
  ASSUME DhtInv, OneWire!Tick
  PROVE  DhtReading'
<1>1. fn' = fn /\ OneWire!SensorTick /\ pc \notin {"idle", "power", "start", "done"}
  BY DEF OneWire!Tick, OneWire!Running
<1>2. DhtTypes
  BY DEF DhtInv
<1>3. dead' = dead /\ (phase' = "off" <=> phase = "off")
  BY <1>1, <1>2, SensorTypes
<1>4. SUFFICES ASSUME fn = "dht_read", ~ dead, phase # "off" PROVE DhtReading'
  BY <1>1, <1>3 DEF DhtReading
<1>5. ret = "none"
  BY <1>1, <1>4 DEF DhtInv, DhtReading
<1>6. CASE pc = "sync"
  <2>1. AtSync
    BY <1>4, <1>6 DEF DhtInv, DhtReading
  <2>2. ret' = "none" /\ ((pc' = "sync" /\ AtSync') \/ (pc' = "resp" /\ AtResponse'))
    BY <1>2, <1>4, <1>5, <1>6, <2>1, SyncTick
  <2>. QED
    BY <2>2 DEF DhtReading
<1>7. CASE pc = "resp"
  <2>1. AtResponse
    BY <1>4, <1>7 DEF DhtInv, DhtReading
  <2>2. ret' = "none" /\ ((pc' = "resp" /\ AtResponse') \/ (pc' = "gap" /\ AtGap'))
    BY <1>2, <1>4, <1>5, <1>7, <2>1, ResponseTick
  <2>. QED
    BY <2>2 DEF DhtReading
<1>8. CASE pc = "gap"
  <2>1. AtGap
    BY <1>4, <1>8 DEF DhtInv, DhtReading
  <2>2. ret' = "none" /\ got' = << >> /\ ((pc' = "gap" /\ AtGap') \/ (pc' = "wait_low" /\ AtWaitLow(0)'))
    BY <1>2, <1>4, <1>5, <1>8, <2>1, GapTick
  <2>3. DhtTypes'
    BY <1>2, TickTypes
  <2>4. FirstBits(0)' = << >>
    BY DEF FirstBits
  <2>5. 0 \in 0 .. BITS - 1
    BY DhtNumbers
  <2>6. CASE pc' = "gap" /\ AtGap'
    BY <2>2, <2>6 DEF DhtReading
  <2>7. CASE pc' = "wait_low" /\ AtWaitLow(0)'
    <3>1. \E k \in 0 .. BITS - 1 : got' = FirstBits(k)' /\ AtWaitLow(k)'
      BY <2>2, <2>4, <2>5, <2>7
    <3>. QED
      BY <2>2, <2>7, <3>1 DEF DhtReading
  <2>. QED
    BY <2>2, <2>6, <2>7
<1>9. CASE pc \in {"wait_low", "wait_high", "sample"}
  <2>1. PICK k \in 0 .. BITS - 1 : /\ got = FirstBits(k)
                                   /\ pc = "wait_low" => AtWaitLow(k)
                                   /\ pc = "wait_high" => AtWaitHigh(k)
                                   /\ pc = "sample" => AtSample(k)
    BY <1>4, <1>9 DEF DhtInv, DhtReading
  <2>2. ASSUME NEW j \in 0 .. BITS - 1, bits' = bits, got' = FirstBits(j), ret' = "none",
               \/ pc' = "wait_low" /\ AtWaitLow(j)'
               \/ pc' = "wait_high" /\ AtWaitHigh(j)'
               \/ pc' = "sample" /\ AtSample(j)'
        PROVE  DhtReading'
    <3>1. FirstBits(j)' = FirstBits(j)
      BY <2>2 DEF FirstBits
    <3>2. \E i \in 0 .. BITS - 1 : /\ got' = FirstBits(i)'
                                   /\ pc' = "wait_low" => AtWaitLow(i)'
                                   /\ pc' = "wait_high" => AtWaitHigh(i)'
                                   /\ pc' = "sample" => AtSample(i)'
      BY <2>2, <3>1
    <3>. QED
      BY <2>2, <3>2 DEF DhtReading
  <2>3. CASE pc = "wait_low"
    BY <1>2, <1>4, <1>5, <2>1, <2>2, <2>3, WaitLowTick
  <2>4. CASE pc = "wait_high"
    BY <1>2, <1>4, <1>5, <2>1, <2>2, <2>4, WaitHighTick
  <2>5. CASE pc = "sample"
    <3>1. /\ bits' = bits
          /\ \/ pc' = "sample" /\ ret' = ret /\ got' = got /\ AtSample(k)'
             \/ /\ pc' = "wait_low" /\ ret' = ret /\ k + 1 \in 0 .. BITS - 1 /\ got' = FirstBits(k + 1)
                /\ AtWaitLow(k + 1)'
             \/ pc' = "done" /\ ret' = "ok" /\ got' = bits
      BY <1>2, <1>4, <2>1, <2>5, SampleTick
    <3>2. CASE pc' = "done" /\ ret' = "ok" /\ got' = bits
      BY <3>1, <3>2 DEF DhtReading
    <3>. QED
      BY <1>5, <2>1, <2>2, <3>1, <3>2
  <2>. QED
    BY <1>9, <2>3, <2>4, <2>5
<1>. QED
  BY <1>1, <1>2, <1>6, <1>7, <1>8, <1>9 DEF DhtTypes, DhtPlaces

LEMMA StallStep == DhtInv /\ OneWire!Stall => DhtInv'
<1> SUFFICES ASSUME DhtInv, OneWire!Stall PROVE DhtInv'
  OBVIOUS
<1>1. /\ OneWire!SensorTick /\ pc \notin {"idle", "power", "start", "done"}
      /\ stalled < MaxStall /\ stalled' = stalled + 1
      /\ UNCHANGED <<pc, time_out, delay, got, timeout, fn, ret>>
  BY DEF OneWire!Stall, OneWire!Running, OneWire!host
<1>2. DhtTypes
  BY DEF DhtInv
<1>3. /\ phase' \in Pulses /\ left' \in Nat /\ sent' \in Nat /\ dead' \in BOOLEAN
      /\ bits' \in [1 .. BITS -> {0, 1}] /\ sent' <= BITS
      /\ phase' \in {"reaction", "resp_low", "resp_high"} => sent' = 0
      /\ phase' = "off" <=> phase = "off"
      /\ dead' = dead
  BY <1>1, <1>2, SensorTypes
<1>4. stalled' \in 0 .. MaxStall
  BY <1>1, <1>2, DhtNumbers DEF DhtTypes
<1>5. DhtTypes'
  BY <1>1, <1>2, <1>3, <1>4 DEF DhtTypes
<1>6. DhtCalls'
  BY <1>1, <1>3 DEF DhtInv, DhtCalls
<1>7. DhtReading'
  <2> SUFFICES ASSUME fn = "dht_read", ~ dead, phase # "off" PROVE DhtReading'
    BY <1>1, <1>3 DEF DhtReading
  <2>1. ret' = "none"
    BY <1>1 DEF DhtInv, DhtReading
  <2>2. CASE pc = "sync"
    <3>1. AtSync'
      BY <1>2, <2>2, SyncStall DEF DhtInv, DhtReading
    <3>. QED
      BY <1>1, <2>1, <2>2, <3>1 DEF DhtReading
  <2>3. CASE pc = "resp"
    <3>1. AtResponse'
      BY <1>2, <2>3, ResponseStall DEF DhtInv, DhtReading
    <3>. QED
      BY <1>1, <2>1, <2>3, <3>1 DEF DhtReading
  <2>4. CASE pc = "gap"
    <3>1. AtGap'
      BY <1>2, <2>4, GapStall DEF DhtInv, DhtReading
    <3>. QED
      BY <1>1, <2>1, <2>4, <3>1 DEF DhtReading
  <2>5. CASE pc \in {"wait_low", "wait_high", "sample"}
    <3>1. PICK k \in 0 .. BITS - 1 : /\ got = FirstBits(k)
                                     /\ pc = "wait_low" => AtWaitLow(k)
                                     /\ pc = "wait_high" => AtWaitHigh(k)
                                     /\ pc = "sample" => AtSample(k)
      BY <2>5 DEF DhtInv, DhtReading
    <3>2. bits' = bits
      BY <1>1 DEF OneWire!SensorTick
    <3>3. got' = FirstBits(k)'
      BY <1>1, <3>1, <3>2 DEF FirstBits
    <3>4. pc = "wait_low" => AtWaitLow(k)'
      BY <1>2, <3>1, WaitLowStall
    <3>5. pc = "wait_high" => AtWaitHigh(k)'
      BY <1>2, <3>1, WaitHighStall
    <3>6. pc = "sample" => AtSample(k)'
      BY <1>1, <1>2, <3>1, SampleGoesOn
    <3>7. \E i \in 0 .. BITS - 1 : /\ got' = FirstBits(i)'
                                   /\ pc' = "wait_low" => AtWaitLow(i)'
                                   /\ pc' = "wait_high" => AtWaitHigh(i)'
                                   /\ pc' = "sample" => AtSample(i)'
      BY <1>1, <3>3, <3>4, <3>5, <3>6
    <3>. QED
      BY <1>1, <2>1, <2>5, <3>7 DEF DhtReading
  <2>. QED
    BY <1>1, <1>2, <2>2, <2>3, <2>4, <2>5 DEF DhtTypes, DhtPlaces
<1>. QED
  BY <1>5, <1>6, <1>7 DEF DhtInv

LEMMA StartPulseStep == DhtInv /\ OneWire!start_pulse => DhtInv'
<1> SUFFICES ASSUME DhtInv, OneWire!start_pulse PROVE DhtInv'
  OBVIOUS
<1>1. /\ pc = "start" /\ pc' = "sync" /\ delay' = SYNC /\ time_out' = SPIN_TIMEOUT /\ stalled' = 0 /\ sent' = 0
      /\ IF dead \/ phase = "off" THEN UNCHANGED <<phase, left>>
         ELSE phase' = "reaction" /\ left' \in Reactions
      /\ UNCHANGED <<dead, bits, got, fn, ret>>
  BY DEF OneWire!start_pulse
<1>2. DhtTypes
  BY DEF DhtInv
<1>3. phase' \in Pulses /\ left' \in Nat
  BY <1>1, <1>2, DhtNumbers DEF DhtTypes, Pulses
<1>4. delay' \in Nat /\ time_out' \in Nat /\ stalled' \in 0 .. MaxStall /\ sent' \in Nat /\ sent' <= BITS
  BY <1>1, DhtNumbers
<1>5. DhtTypes'
  BY <1>1, <1>2, <1>3, <1>4 DEF DhtTypes, DhtPlaces
<1>6. DhtCalls'
  BY <1>1 DEF DhtInv, DhtCalls
<1>7. DhtReading'
  <2> SUFFICES ASSUME fn = "dht_read", ~ dead, phase # "off" PROVE DhtReading'
    BY <1>1 DEF DhtReading
  <2>1. got = << >> /\ ret = "none"
    BY <1>1 DEF DhtInv, DhtReading
  <2>2. phase' = "reaction" /\ left' \in Reactions
    BY <1>1
  <2>3. left' \in Nat /\ left' >= 1 /\ left' + (SYNC - delay') + stalled' = left'
    BY <1>1, <2>2, DhtNumbers
  <2>4. AtSync'
    BY <1>1, <2>1, <2>2, <2>3 DEF AtSync
  <2>. QED
    BY <1>1, <2>1, <2>4 DEF DhtReading
<1>. QED
  BY <1>5, <1>6, <1>7 DEF DhtInv

LEMMA DhtOtherSteps ==
  ASSUME DhtInv, \/ \E f \in Functions : OneWire!Call(f)
                 \/ OneWire!PowerUp \/ OneWire!Die \/ OneWire!dht_init
  PROVE  DhtInv'
<1>1. CASE \E f \in Functions : OneWire!Call(f)
  <2>1. PICK f \in Functions : OneWire!Call(f)
    BY <1>1
  <2>2. /\ fn = "none" /\ fn' = f /\ ret' = "none" /\ pc' = (IF f = "dht_init" THEN "power" ELSE "start")
        /\ UNCHANGED <<phase, left, sent, dead, bits, time_out, delay, got, stalled>>
    BY <2>1 DEF OneWire!Call, OneWire!sensor
  <2>3. f \in {"dht_init", "dht_read"}
    BY DhtConstants DEF OneWire!DhtAssumption
  <2>4. DhtTypes'
    BY <2>2 DEF DhtInv, DhtTypes, DhtPlaces
  <2>. QED
    BY <2>2, <2>3, <2>4 DEF DhtInv, DhtCalls, DhtReading
<1>2. CASE OneWire!PowerUp
  <2>1. /\ phase' = "idle" /\ pc \in {"idle", "power"}
        /\ UNCHANGED <<left, sent, dead, bits, pc, time_out, delay, got, fn, ret, stalled>>
    BY <1>2 DEF OneWire!PowerUp, OneWire!host
  <2>2. DhtTypes'
    BY <2>1 DEF DhtInv, DhtTypes, Pulses
  <2>. QED
    BY <2>1, <2>2 DEF DhtInv, DhtCalls, DhtReading
<1>3. CASE OneWire!Die
  <2>1. /\ dead' = TRUE
        /\ UNCHANGED <<phase, left, sent, bits, pc, time_out, delay, got, fn, ret, stalled>>
    BY <1>3 DEF OneWire!Die, OneWire!host
  <2>2. DhtTypes'
    BY <2>1 DEF DhtInv, DhtTypes
  <2>. QED
    BY <2>1, <2>2 DEF DhtInv, DhtCalls, DhtReading
<1>4. CASE OneWire!dht_init
  <2>1. /\ pc = "power" /\ pc' \in {"power", "done", "start"}
        /\ UNCHANGED <<phase, left, sent, dead, bits, time_out, delay, got, fn, stalled>>
    BY <1>4 DEF OneWire!dht_init, OneWire!Finish, OneWire!sensor
  <2>2. fn # "none" /\ fn # "dht_read"
    BY <2>1 DEF DhtInv, DhtCalls
  <2>3. DhtTypes'
    BY <2>1 DEF DhtInv, DhtTypes, DhtPlaces
  <2>. QED
    BY <2>1, <2>2, <2>3 DEF DhtInv, DhtCalls, DhtReading
<1>. QED
  BY <1>1, <1>2, <1>3, <1>4

\* The inductive invariant of the one-wire part.
LEMMA DhtStep == DhtInv /\ OneWire!Next => DhtInv'
<1> SUFFICES ASSUME DhtInv, OneWire!Next PROVE DhtInv'
  OBVIOUS
<1>1. CASE OneWire!Tick
  BY <1>1, TickTypes, TickCalls, TickReading DEF DhtInv
<1>2. CASE OneWire!Stall
  BY <1>2, StallStep
<1>3. CASE OneWire!start_pulse
  BY <1>3, StartPulseStep
<1>. QED
  BY <1>1, <1>2, <1>3, DhtOtherSteps DEF OneWire!Next

LEMMA DhtSafe ==
  ASSUME DhtInv
  PROVE  OneWire!BitsOwn /\ OneWire!Answered
<1>1. OneWire!BitsOwn
  BY DEF DhtInv, DhtCalls, DhtReading, OneWire!BitsOwn
<1>2. OneWire!Answered
  BY DEF DhtInv, DhtReading, OneWire!Answered
<1>. QED
  BY <1>1, <1>2

-----------------------------------------------------------------------------
(* The three together *)

LEMMA IndInvInit == Init => IndInv
BY SpiInit, I2cInit, DhtInit DEF Init, IndInv

LEMMA SpiSame == SpiInv /\ UNCHANGED vars => SpiInv'
BY DEF vars, spiOnly, buses, SpiInv, SpiTypes, SpiChain, SpiBetween, SpiMoving, SpiAt, SpiPlace, SpiResult,
       Register, First, FrameLen, Spi!NoTime

LEMMA I2cSame == I2cInv /\ UNCHANGED vars => I2cInv'
BY DEF vars, i2cOnly, buses, I2cInv, I2cTypes, I2cBetween, I2cClean, I2cFlags, I2cWriting, I2cReading,
       I2cMoved, I2cResult

LEMMA DhtSame == DhtInv /\ UNCHANGED vars => DhtInv'
BY DEF vars, dhtOnly, DhtInv, DhtTypes, DhtCalls, DhtReading, AtSync, AtResponse, AtGap, AtWaitLow,
       AtWaitHigh, AtSample, HighLen, FirstBits, Late

LEMMA IndInvStep == IndInv /\ [Next]_vars => IndInv'
<1> SUFFICES ASSUME IndInv, [Next]_vars PROVE IndInv'
  OBVIOUS
<1>1. CASE InSpi(Spi!Next)
  BY <1>1, SpiStep DEF InSpi, IndInv
<1>2. CASE InI2c(I2c!Next)
  BY <1>2, I2cStep DEF InI2c, IndInv
<1>3. CASE InDht(OneWire!Next)
  BY <1>3, DhtStep DEF InDht, IndInv
<1>4. CASE UNCHANGED vars
  <2>1. part' = part
    BY <1>4 DEF vars
  <2>. QED
    BY <1>4, <2>1, SpiSame, I2cSame, DhtSame DEF IndInv
<1>. QED
  BY <1>1, <1>2, <1>3, <1>4 DEF Next

\* The inductive invariant of the three protocols is one.
THEOREM IndInvAlways == Spec => []IndInv
<1>1. Init => IndInv
  BY IndInvInit
<1>2. IndInv /\ [Next]_vars => IndInv'
  BY IndInvStep
<1>. QED
  BY <1>1, <1>2, PTL DEF Spec

\* What a transfer reports with success is its own, for FIFOs of any depth and
\* sessions of any length: the chip or the device has got exactly its bytes and a
\* read returns the answers to it (the loops of spi_transfer_* and i2c_*_bytes
\* over TXD, RXD and DONE), and the bits of a successful dht_read are the sensor's
\* for all pulses within the limits of TimingAssumption.
THEOREM OwnBytesAlways == Spec => []OwnBytes
<1>1. IndInv => OwnBytes
  BY SpiSafe, I2cSafe, DhtSafe DEF IndInv, OwnBytes
<1>. QED
  BY <1>1, IndInvAlways, PTL

\* A transfer the hardware can finish does not fail: the time-out of the SPI
\* loops, the fail_safe of i2c_write_bytes and the counters of _busy_wait_read run
\* out only with a late thread, a device that holds the clock, or a transfer that
\* cannot end.
THEOREM NoFalseFailureAlways == Spec => []NoFalseFailure
<1>1. IndInv => NoFalseFailure
  BY SpiSafe, I2cSafe, DhtSafe DEF IndInv, NoFalseFailure
<1>. QED
  BY <1>1, IndInvAlways, PTL

=============================================================================
