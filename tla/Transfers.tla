------------------------------ MODULE Transfers ------------------------------
(***************************************************************************)
(* The three wire protocols: the transfers of the SPI bus, those of the    *)
(* I2C bus and the reads of the one-wire sensor. They have no state in     *)
(* common; a behaviour is one of one of them, which part names, and the    *)
(* variables of the others stand still. A name two of the modules use is   *)
(* one variable here.                                                      *)
(***************************************************************************)
EXTENDS Integers, Sequences

CONSTANTS SpiSessions, TxDepth, RxDepth, MaxSpiSessions,
          I2cSessions, BSC_FIFO_SIZE, Faults, MaxI2cSessions,
          BITS, SPIN_TIMEOUT, READ_THRESHOLD, SYNC, RESPONSE, Reactions, Lows, Zero, One,
          MaxStall, Dies, POWER_WAIT, START_LOW, Functions

VARIABLES part,
          ta, tx, rx, old,                                              \* SPI
          active, rd, dlen, fifo, flags, held, remain, fault,           \* I2C
          phase, bits, time_out, delay, timeout, fn, stalled, dead,     \* one wire
          wire, session, job, n, slow,                                  \* SPI and I2C
          pc, sent, got, ret, left                                      \* all three

spiOnly == <<ta, tx, rx, old>>
i2cOnly == <<active, rd, dlen, fifo, flags, held, remain, fault>>
dhtOnly == <<phase, bits, time_out, delay, timeout, fn, stalled, dead>>
buses == <<wire, session, job, n, slow>>
vars == <<part, spiOnly, i2cOnly, dhtOnly, buses, pc, sent, got, ret, left>>

-----------------------------------------------------------------------------

Spi == INSTANCE SpiTransfer WITH Sessions <- SpiSessions, MaxSessions <- MaxSpiSessions
I2c == INSTANCE I2cTransfer WITH Sessions <- I2cSessions, MaxSessions <- MaxI2cSessions
OneWire == INSTANCE Dht

ASSUME SpiConstants == Spi!SpiAssumption
ASSUME I2cConstants == I2c!I2cAssumption
ASSUME DhtConstants == OneWire!DhtAssumption /\ OneWire!TimingAssumption

-----------------------------------------------------------------------------

None == "none"
SpiStill == ta = None /\ tx = None /\ rx = None /\ old = None
I2cStill ==
    /\ active = None /\ rd = None /\ dlen = None /\ fifo = None
    /\ flags = None /\ held = FALSE /\ remain = None /\ fault = None
DhtStill ==
    /\ phase = None /\ bits = None /\ time_out = None /\ delay = None
    /\ timeout = None /\ fn = None /\ stalled = None /\ dead = None
BusesStill == wire = None /\ session = None /\ job = None /\ n = None /\ slow = None

Init ==
    \/ part = "spi" /\ Spi!Init /\ I2cStill /\ DhtStill
    \/ part = "i2c" /\ I2c!Init /\ SpiStill /\ DhtStill
    \/ part = "dht" /\ OneWire!Init /\ SpiStill /\ I2cStill /\ BusesStill

InSpi(A) == part = "spi" /\ A /\ UNCHANGED <<part, i2cOnly, dhtOnly>>
InI2c(A) == part = "i2c" /\ A /\ UNCHANGED <<part, spiOnly, dhtOnly>>
InDht(A) == part = "dht" /\ A /\ UNCHANGED <<part, spiOnly, i2cOnly, buses>>

Next == InSpi(Spi!Next) \/ InI2c(I2c!Next) \/ InDht(OneWire!Next)

\* The fairness of the three specifications.
Fairness ==
    /\ WF_vars(InSpi(Spi!Driver)) /\ WF_vars(InSpi(Spi!Clock))
    /\ WF_vars(InI2c(I2c!Driver)) /\ WF_vars(InI2c(I2c!Clock))
    /\ WF_vars(InDht(OneWire!Tick)) /\ WF_vars(InDht(OneWire!dht_init))
    /\ WF_vars(InDht(OneWire!start_pulse))

Spec == Init /\ [][Next]_vars /\ Fairness

-----------------------------------------------------------------------------
(* The properties of the three modules. *)

\* What a transfer reports with success is its own: the chip or the device has
\* got exactly its bytes, a read returns what was sent in answer to it, and no
\* byte the I2C device refused goes unreported, whatever an earlier transfer
\* that timed out or was given up has left in the FIFOs and the flags, and no
\* byte is lost at a full FIFO. The bits of a successful dht_read are the sensor's.
OwnBytes ==
    CASE part = "spi" -> Spi!FrameIsOwn /\ Spi!AnswersOwn /\ Spi!NoOverrun
      [] part = "i2c" -> I2c!NoOverrun /\ I2c!WireOwn /\ I2c!ReadOwn /\ I2c!FaultReported
      [] part = "dht" -> OneWire!BitsOwn

\* A transfer that the hardware can finish does not fail: no wait ends early, no
\* FIFO is left to run full, no flag of one transfer ends the next, no sensor
\* that answers in time is missed.
NoFalseFailure ==
    CASE part = "spi" -> Spi!NoStall
      [] part = "i2c" -> I2c!NoFalseError
      [] part = "dht" -> OneWire!Answered

\* Every transfer returns, also one the hardware will never finish; only an I2C
\* read from a device that holds the clock for good does not.
TransfersReturn ==
    /\ part = "spi" => Spi!TransferReturns
    /\ part = "i2c" => I2c!TransferReturns
    /\ part = "dht" => OneWire!Returns

=============================================================================
