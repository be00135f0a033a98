------------------------------- MODULE PinMux -------------------------------
(***************************************************************************)
(* Who may use a bus, and which function its pins have meanwhile: the      *)
(* acquire and release of the I2C and SPI drivers, and gpio_init, over the *)
(* GPFSEL, GPPUD and GPPUDCLK registers that all of them share.            *)
(*                                                                         *)
(* Each bus has a mutex. The registers that select the pins' functions     *)
(* have none: a register holds ten pins, and changing one pin reads the    *)
(* register and writes all ten back (io_clrsetbits32), here in two steps.  *)
(*                                                                         *)
(*   lock       the holder of each bus's mutex (bsc_locks, spi_locks)      *)
(*   fsel       the function GPFSEL selects for each pin                   *)
(*   pud        GPPUD: the pull that the clock hands to a pin              *)
(*   clk        the pins whose bit is set in GPPUDCLK                      *)
(*   pull       the pull each pin ended up with                            *)
(*   pc, job    each thread's place; what it is working on: the bus, the   *)
(*              pins it configures, their function and the pull            *)
(*              (out: no call; lock: in mutex_lock; acquire, held,         *)
(*              release: between lock and unlock; fsel: in gpio_init;      *)
(*              pud, clk, clkset, off, unclk, clkclr: in                   *)
(*              rpi3_ctrl_gpio_pull_up_down)                               *)
(*   at         the pin of job it has come to                              *)
(*   seen       what the thread has read of the GPFSEL it will write       *)
(*   clkseen    what it has read of GPPUDCLK                               *)
(*   asked      the mode of the last gpio_init that returned, per pin,     *)
(*              unless another of the same pin was under way meanwhile     *)
(*   left       calls the threads will still make, all together            *)
(*                                                                         *)
(* What the unlocked registers make of it is kept in three histories:      *)
(*   lost       pins whose function somebody has written back to what he   *)
(*              had read before its user changed it, until its user writes *)
(*              it again                                                   *)
(*   crossed    threads whose gpio_init overlapped another of the same pin *)
(*   entangled  pins whose pull was set while another one was being set    *)
(*                                                                         *)
(* Transfers (module I2cTransfer) take place between acquire and release;  *)
(* here only that one is under way matters. The pins are below 32: one     *)
(* GPPUDCLK register holds their clock bits. A definition whose comment    *)
(* says "Mutant" is not part of the model.                                 *)
(***************************************************************************)
EXTENDS Integers, Sequences, FiniteSets

CONSTANTS
    Pins,           \* the pins of the board that are in use
    BusUsers,       \* threads that acquire buses: loops, synchronous PTAs
    GpioUsers,      \* threads that call gpio_init: DHT loops, the GPIO PTA
    UserBuses,      \* the buses each bus user acquires
    UserPins,       \* the pins each gpio user initialises
    BusPins,        \* the pins of each bus, in the order they are selected
    GpioModes,      \* the modes gpio_init is called with
    MaxUse          \* bound: calls the threads make, all together

Threads == BusUsers \cup GpioUsers
NGPIOS_PER_FSEL == 10
NGPIOS_PER_BANK == 32
Buses == DOMAIN BusPins

\* The pins the drivers select for their bus.
rpi3_bus_pins == [i2c0 |-> <<0, 1>>, i2c1 |-> <<2, 3>>, spi0 |-> <<7, 8, 9, 10, 11>>]

PinMuxAssumption ==
    /\ Pins \subseteq 0 .. NGPIOS_PER_BANK - 1
    /\ BusUsers \cap GpioUsers = {} /\ MaxUse \in Nat
    /\ BusPins \in [Buses -> Seq(Pins)]
    /\ UserBuses \in [BusUsers -> SUBSET Buses]
    /\ UserPins \in [GpioUsers -> SUBSET Pins]

Modes == {"in", "out", "in_pu", "in_pd", "od_pu"}

ModesAssumption == GpioModes \subseteq Modes

\* The function and the pull gpio_init gives a pin for each mode (GPIO_OD is
\* handled as GPIO_OUT); "off" means that the pull is left alone.
mode_fsel(mode) == IF mode \in {"in", "in_pu", "in_pd"} THEN "inpt" ELSE "outp"
mode_pull(mode) == CASE mode \in {"in_pu", "od_pu"} -> "up"
                     [] mode = "in_pd" -> "down"
                     [] OTHER -> "off"

VARIABLES lock, fsel, pud, clk, pull, pc, job, at, seen, clkseen, asked, left,
          lost, crossed, entangled

history == <<lost, crossed, entangled>>
vars == <<lock, fsel, pud, clk, pull, pc, job, at, seen, clkseen, asked, left, history>>

Free == "free"
NoBus == "none"
NoMode == "none"
NoReg == << >>
Idle == [bus |-> NoBus, pins |-> << >>, fn |-> "inpt", mode |-> NoMode]
\* A call that is about to lock bus b, one that gives b's pins function f, and
\* gpio_init of pin p.
Wanting(b) == [bus |-> b, pins |-> << >>, fn |-> "inpt", mode |-> NoMode]
Selecting(b, f) == [bus |-> b, pins |-> BusPins[b], fn |-> f, mode |-> NoMode]
Initialising(p, mode) == [bus |-> NoBus, pins |-> <<p>>, fn |-> mode_fsel(mode), mode |-> mode]

Holding == {"acquire", "held", "release"}

\* The pins that share a GPFSEL register with pin p.
Register(p) == {q \in Pins : q \div NGPIOS_PER_FSEL = p \div NGPIOS_PER_FSEL}

\* Before the drivers have touched them the pins are inputs, as after reset.
Init ==
    /\ lock = [b \in Buses |-> Free]
    /\ fsel = [p \in Pins |-> "inpt"]
    /\ pud = "off" /\ clk = {} /\ pull = [p \in Pins |-> "off"]
    /\ pc = [t \in Threads |-> "out"]
    /\ job = [t \in Threads |-> Idle]
    /\ at = [t \in Threads |-> 1]
    /\ seen = [t \in Threads |-> NoReg] /\ clkseen = [t \in Threads |-> {}]
    /\ asked = [p \in Pins |-> NoMode]
    /\ left = MaxUse
    /\ lost = {} /\ crossed = {} /\ entangled = {}

Goto(t, l) == pc' = [pc EXCEPT ![t] = l]

-----------------------------------------------------------------------------
(* rpi3_gpio.c: rpi3_set_gpio_pin_function, one register access per step. *)

Configuring(t) == pc[t] \in {"acquire", "release", "fsel"} /\ at[t] <= Len(job[t].pins)
Pin(t) == job[t].pins[at[t]]

FselRead(t) ==
    /\ Configuring(t) /\ seen[t] = NoReg
    /\ seen' = [seen EXCEPT ![t] = [q \in Register(Pin(t)) |-> fsel[q]]]
    /\ UNCHANGED <<lock, fsel, pud, clk, pull, pc, job, at, clkseen, asked, left, history>>

\* What the register holds after io_clrsetbits32 has written it back.
register_written(t) == [q \in Pins |-> IF q \in Register(Pin(t))
                                       THEN IF q = Pin(t) THEN job[t].fn ELSE seen[t][q]
                                       ELSE fsel[q]]

\* The other pins of the register whose user has changed them since t read it.
Undone(t) == {q \in Register(Pin(t)) \ {Pin(t)} : seen[t][q] # fsel[q]}

FselWrite(t) ==
    /\ Configuring(t) /\ seen[t] # NoReg
    /\ fsel' = register_written(t)
    /\ seen' = [seen EXCEPT ![t] = NoReg]
    /\ at' = [at EXCEPT ![t] = @ + 1]
    /\ lost' = (lost \ {Pin(t)}) \cup Undone(t)
    /\ UNCHANGED <<lock, pud, clk, pull, pc, job, clkseen, asked, left, crossed, entangled>>

Configured(t) == at[t] > Len(job[t].pins)

-----------------------------------------------------------------------------
(* i2c_acquire, i2c_release, spi_acquire, spi_release and their callers. *)

\* A driver function or a PTA command that is about to use bus b.
Call(t, b) ==
    /\ t \in BusUsers /\ pc[t] = "out" /\ left > 0 /\ b \in UserBuses[t]
    /\ job' = [job EXCEPT ![t] = Wanting(b)]
    /\ left' = left - 1
    /\ Goto(t, "lock")
    /\ UNCHANGED <<lock, fsel, pud, clk, pull, at, seen, clkseen, asked, history>>

can_acquire(t) == lock[job[t].bus] = Free

\* The pin that acquire and release begin with.
first_pin == 1

\* i2c_acquire, spi_acquire: take the mutex, then select the bus function.
Acquire(t) ==
    /\ pc[t] = "lock" /\ can_acquire(t)
    /\ lock' = [lock EXCEPT ![job[t].bus] = t]
    /\ job' = [job EXCEPT ![t] = Selecting(job[t].bus, "alt0")]
    /\ at' = [at EXCEPT ![t] = first_pin]
    /\ Goto(t, "acquire")
    /\ UNCHANGED <<fsel, pud, clk, pull, seen, clkseen, asked, left, history>>

\* acquire returns once every pin is selected; the bus registers it sets up
\* (the byte time, chip select, clock, mode) are the holder's own.
Acquired(t) ==
    /\ pc[t] = "acquire" /\ Configured(t)
    /\ Goto(t, "held")
    /\ UNCHANGED <<lock, fsel, pud, clk, pull, job, at, seen, clkseen, asked, left, history>>

\* i2c_release, spi_release: called after the transfers, whatever they answered.
Release(t) ==
    /\ pc[t] = "held"
    /\ job' = [job EXCEPT ![t] = Selecting(job[t].bus, "inpt")]
    /\ at' = [at EXCEPT ![t] = 1]
    /\ Goto(t, "release")
    /\ UNCHANGED <<lock, fsel, pud, clk, pull, seen, clkseen, asked, left, history>>

\* Mutant: the mutex is given back as soon as release begins.
releases_early(t) == TRUE
\* The pins are inputs again before the mutex is given back.
pins_back(t) == Configured(t)

mutex_unlock(t) == [lock EXCEPT ![job[t].bus] = Free]

Unlock(t) ==
    /\ pc[t] = "release" /\ pins_back(t)
    /\ lock' = mutex_unlock(t)
    /\ job' = [job EXCEPT ![t] = Idle]
    /\ Goto(t, "out")
    /\ UNCHANGED <<fsel, pud, clk, pull, at, seen, clkseen, asked, left, history>>

-----------------------------------------------------------------------------
(* rpi3_gpio.c: gpio_init and rpi3_ctrl_gpio_pull_up_down. *)

\* The threads in gpio_init of pin p, and those that set a pull, but for t.
Initialisers(t, p) == {u \in GpioUsers \ {t} : pc[u] # "out" /\ job[u].pins = <<p>>}
Pulling == {"clk", "clkset", "off", "unclk", "clkclr"}
Pullers(t) == {u \in GpioUsers \ {t} : pc[u] \in Pulling}

GpioInit(t, p, mode) ==
    /\ t \in GpioUsers /\ pc[t] = "out" /\ left > 0 /\ p \in UserPins[t]
    /\ job' = [job EXCEPT ![t] = Initialising(p, mode)]
    /\ at' = [at EXCEPT ![t] = 1]
    /\ left' = left - 1
    /\ asked' = [asked EXCEPT ![p] = NoMode]
    /\ crossed' = IF Initialisers(t, p) = {} THEN crossed \ {t}
                  ELSE crossed \cup {t} \cup Initialisers(t, p)
    /\ Goto(t, "fsel")
    /\ UNCHANGED <<lock, fsel, pud, clk, pull, seen, clkseen, lost, entangled>>

Return(t) ==
    /\ asked' = [asked EXCEPT ![job[t].pins[1]] = IF t \in crossed THEN NoMode ELSE job[t].mode]
    /\ job' = [job EXCEPT ![t] = Idle]
    /\ Goto(t, "out")

wants_pull(t) == mode_pull(job[t].mode) # "off"

GpioFselDone(t) ==
    /\ pc[t] = "fsel" /\ Configured(t)
    /\ IF wants_pull(t) THEN Goto(t, "pud") /\ UNCHANGED <<job, asked>>
                        ELSE Return(t)
    /\ UNCHANGED <<lock, fsel, pud, clk, pull, at, seen, clkseen, left, history>>

SetPud(t) ==
    /\ pc[t] = "pud"
    /\ pud' = mode_pull(job[t].mode)
    /\ Goto(t, "clk")
    /\ entangled' = IF Pullers(t) = {} THEN entangled
                    ELSE entangled \cup {job[u].pins[1] : u \in Pullers(t) \cup {t}}
    /\ UNCHANGED <<lock, fsel, clk, pull, job, at, seen, clkseen, asked, left, lost, crossed>>

\* io_setbits32 and io_clrbits32 on GPPUDCLK: the read, and below the write.
ClkRead(t) ==
    /\ pc[t] \in {"clk", "unclk"}
    /\ clkseen' = [clkseen EXCEPT ![t] = clk]
    /\ Goto(t, IF pc[t] = "clk" THEN "clkset" ELSE "clkclr")
    /\ UNCHANGED <<lock, fsel, pud, clk, pull, job, at, seen, asked, left, history>>

\* Hardware: a pin takes the pull in GPPUD when its clock bit rises.
ClkSet(t) ==
    LET new == clkseen[t] \cup {job[t].pins[1]}
    IN  /\ pc[t] = "clkset"
        /\ clk' = new
        /\ pull' = [p \in Pins |-> IF p \in new \ clk THEN pud ELSE pull[p]]
        /\ clkseen' = [clkseen EXCEPT ![t] = {}]
        /\ Goto(t, "off")
        /\ UNCHANGED <<lock, fsel, pud, job, at, seen, asked, left, history>>

PudOff(t) ==
    /\ pc[t] = "off"
    /\ pud' = "off"
    /\ Goto(t, "unclk")
    /\ UNCHANGED <<lock, fsel, clk, pull, job, at, seen, clkseen, asked, left, history>>

ClkClear(t) ==
    LET new == clkseen[t] \ {job[t].pins[1]}
    IN  /\ pc[t] = "clkclr"
        /\ clk' = new
        /\ pull' = [p \in Pins |-> IF p \in new \ clk THEN pud ELSE pull[p]]
        /\ clkseen' = [clkseen EXCEPT ![t] = {}]
        /\ Return(t)
        /\ UNCHANGED <<lock, fsel, pud, at, seen, left, history>>

-----------------------------------------------------------------------------

Steps(t) ==
    \/ FselRead(t) \/ FselWrite(t)
    \/ Acquire(t) \/ Acquired(t) \/ Release(t) \/ Unlock(t)
    \/ GpioFselDone(t) \/ SetPud(t) \/ ClkRead(t) \/ ClkSet(t) \/ PudOff(t) \/ ClkClear(t)

Next ==
    \/ \E t \in BusUsers : \E b \in UserBuses[t] : Call(t, b)
    \/ \E t \in GpioUsers : \E p \in UserPins[t], mode \in GpioModes : GpioInit(t, p, mode)
    \/ \E t \in Threads : Steps(t)

Spec == Init /\ [][Next]_vars

\* Threads that are inside a call go on; a thread need not make another call.
FairSpec == Spec /\ \A t \in Threads : WF_vars(Steps(t))

-----------------------------------------------------------------------------
(* Properties. *)

\* Two threads are never both between acquire and release of one bus: the
\* promise of i2c_acquire, "mutually exclusive access to the given I2C bus".
BusExclusion ==
    \A t, u \in BusUsers :
        (t # u /\ pc[t] \in Holding /\ pc[u] \in Holding) => job[t].bus # job[u].bus

\* From the return of acquire to the call of release every pin of the bus has
\* the bus function, and a transfer reaches the wires; the one thing that takes
\* it from a pin is another user of its register who writes back what he read
\* before.
PinsSelected ==
    \A t \in BusUsers : pc[t] = "held" =>
        \A i \in 1 .. Len(job[t].pins) :
            job[t].pins[i] \notin lost => fsel[job[t].pins[i]] = "alt0"

\* A bus that nobody holds has given its pins back: they are inputs, but for such
\* a write.
PinsParked ==
    \A b \in Buses : lock[b] = Free =>
        \A i \in 1 .. Len(BusPins[b]) :
            BusPins[b][i] \notin lost => fsel[BusPins[b][i]] = "inpt"

\* A pin keeps the function its last gpio_init gave it until the next one, but for
\* such a write.
GpioAsAsked ==
    \A p \in Pins : asked[p] # NoMode /\ p \notin lost => fsel[p] = mode_fsel(asked[p])

\* A pin initialised as "input with pull-up resistor" has its pull-up, and so
\* for the other modes with a pull (gpio.h names the modes), unless its pull was
\* ever set while another one was.
PullAsAsked ==
    \A p \in Pins :
        asked[p] # NoMode /\ mode_pull(asked[p]) # "off" /\ p \notin entangled =>
            pull[p] = mode_pull(asked[p])

=============================================================================
