---------------------------- MODULE MCBusSharing ----------------------------
(***************************************************************************)
(* Small instances, for TLC, of the drivers that share a bus or its pins:  *)
(* the pin registers (PinMux), the devices on the I2C bus (SensorBus) and  *)
(* the flash chip on the SPI bus (W25qFlash). They have no state in        *)
(* common; a behaviour is one of one of them, which part names, and the    *)
(* variables of the others stand still. A name two of the modules use is   *)
(* one variable here.                                                      *)
(***************************************************************************)
EXTENDS Integers, Sequences, TLC

CONSTANTS Callers,      \* loops and callers of the driver PTAs
          GpioUsers,    \* threads that call gpio_init
          GpioPins,     \* the pins they initialise
          GpioModes, MaxUse,
          N_READS, MaxSensorCalls,
          MaxFlashCalls

VARIABLES part,
          fsel, pud, clk, pull, at, seen, clkseen, asked, lost, crossed, entangled,   \* pins
          last, conf,                                                     \* sensors
          state, panicked, fn, i, lastby, mixed, unheld,                  \* flash
          lock, job, res,       \* pins and sensors; res: sensors and flash
          pc, left              \* all three

pinsOnly == <<fsel, pud, clk, pull, at, seen, clkseen, asked, lost, crossed, entangled>>
sensorsOnly == <<last, conf>>
flashOnly == <<state, panicked, fn, i, lastby, mixed, unheld>>
vars == <<part, pinsOnly, sensorsOnly, flashOnly, lock, job, res, pc, left>>

-----------------------------------------------------------------------------
(* The pins: every caller uses all the buses, whose pins but two are in the  *)
(* first GPFSEL register, and every gpio user all the pins that are left for *)
(* gpio_init, in this register and in others.                                *)

PinNumbers == INSTANCE PinMux WITH
    Pins <- {}, BusUsers <- {}, UserBuses <- << >>, UserPins <- << >>, BusPins <- << >>
Board == INSTANCE PinMux WITH
    Pins <- (0 .. 3) \cup (7 .. 11) \cup GpioPins,
    BusUsers <- Callers,
    UserBuses <- [u \in Callers |-> {"i2c0", "i2c1", "spi0"}],
    UserPins <- [u \in GpioUsers |-> GpioPins],
    BusPins <- PinNumbers!rpi3_bus_pins

(* The devices on the I2C bus: every caller calls every function.            *)

Sensors == INSTANCE SensorBus WITH Threads <- Callers, MaxCalls <- MaxSensorCalls

(* The flash: so here.                                                       *)

Flash == INSTANCE W25qFlash WITH Threads <- Callers, MaxCalls <- MaxFlashCalls

\* The pins of a bus are not for gpio_init.
ASSUME PinsApart == GpioPins \subseteq (4 .. 6) \cup (12 .. 31)
ASSUME BoardAssumption == Board!PinMuxAssumption /\ Board!ModesAssumption
ASSUME SensorsAssumption == Sensors!SensorBusAssumption
ASSUME ChipAssumption == Flash!FlashAssumption

-----------------------------------------------------------------------------

None == "none"
PinsStill ==
    /\ fsel = None /\ pud = None /\ clk = None /\ pull = None
    /\ at = None /\ seen = None /\ clkseen = None /\ asked = None
    /\ lost = None /\ crossed = None /\ entangled = None
SensorsStill == last = None /\ conf = None
FlashStill ==
    /\ state = None /\ panicked = FALSE /\ fn = None /\ i = None
    /\ lastby = None /\ mixed = None /\ unheld = None

Init ==
    \/ part = "pins" /\ Board!Init /\ SensorsStill /\ FlashStill /\ res = None
    \/ part = "sensors" /\ Sensors!Init /\ PinsStill /\ FlashStill
    \/ part = "flash" /\ Flash!Init /\ PinsStill /\ SensorsStill /\ lock = None /\ job = None

OnPins(A) == part = "pins" /\ A /\ UNCHANGED <<part, sensorsOnly, flashOnly, res>>
OnSensors(A) == part = "sensors" /\ A /\ UNCHANGED <<part, pinsOnly, flashOnly>>
OnFlash(A) == part = "flash" /\ A /\ UNCHANGED <<part, pinsOnly, sensorsOnly, lock, job>>

Next == OnPins(Board!Next) \/ OnSensors(Sensors!Next) \/ OnFlash(Flash!Next)

\* A thread inside a call goes on, and a waiting caller gets its mutex: the
\* fairness of the three specifications (a behaviour belongs to one of them).
GoesOn(t) ==
    \/ OnPins(Board!Steps(t))
    \/ t \in Callers /\ (OnSensors(Sensors!Step(t)) \/ OnFlash(Flash!Work(t)))
GetsBus(t) == OnSensors(Sensors!i2c_acquire(t)) \/ OnFlash(Flash!mutex_lock(t))
Fairness ==
    /\ \A t \in Callers \cup GpioUsers : WF_vars(GoesOn(t))
    /\ \A t \in Callers : SF_vars(GetsBus(t))

Spec == Init /\ [][Next]_vars /\ Fairness

-----------------------------------------------------------------------------
(* The properties of the three modules. *)

\* i2c_acquire and spi_acquire keep every other thread out until the release, on
\* every way out of a driver function: nobody is on a bus without its mutex, and
\* nobody is left with the mutex outside one.
HolderOnly ==
    CASE part = "pins" -> Board!BusExclusion
      [] part = "sensors" -> Sensors!OneOnTheBus
      [] part = "flash" -> Flash!ExclusiveBus

\* A pin has the function and the pull its last user gave it: the bus function
\* while the bus is held, input while it is free, what gpio_init was asked for.
\* Each is set by reading a register of many pins and writing it back, without a
\* lock, and two users of one register do undo each other's changes; the property
\* is that nothing else does. A pin is as asked unless such a write has hit this
\* very pin since its user last set it, or, for its pull, the pull was once set
\* while another one was.
PinsAsAsked ==
    part = "pins" =>
        /\ Board!PinsSelected /\ Board!PinsParked
        /\ Board!GpioAsAsked /\ Board!PullAsAsked

\* A sensor function that succeeds has read the answer to its own command, unless
\* another caller's reached the device while the function had given the bus back
\* for it to work, and its sample comes from one configuration of the sensor; the
\* transfers of a flash function that succeeds followed each other on the bus.
OwnAnswer ==
    CASE part = "sensors" -> Sensors!OwnAnswer /\ Sensors!SampleCoherent
      [] part = "flash" -> Flash!OwnTransfers
      [] OTHER -> TRUE

Inside(t) == t \in DOMAIN pc /\ pc[t] # "out"

\* Every function returns: an acquire gets its bus although others want it too,
\* every way out of a driver function gives the bus back, and the flash driver's
\* waits end. Two things stop the system: the panic of a release without the bus,
\* after spi_acquire's refusal has been ignored, and an I2C device that holds the
\* clock in a read, which has no limit and keeps the bus.
CallsReturn ==
    \A t \in Callers \cup GpioUsers :
        Inside(t) ~> (panicked \/ (part = "sensors" /\ Sensors!Hung) \/ ~ Inside(t))

=============================================================================
