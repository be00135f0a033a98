--------------------------------- MODULE Dht ---------------------------------
(***************************************************************************)
(* The DHT driver and the sensor on its one wire. A read asks the sensor   *)
(* with a long low pulse, the sensor answers with a low and a high pulse   *)
(* and sends its bits: a low pulse each, then a high one whose length is   *)
(* the bit. The driver knows only the level of the line and the passing of *)
(* time, which it counts in turns of its loops.                            *)
(*                                                                         *)
(* A step is one unit of time (5 us in the runs) for the sensor, and for  *)
(* the driver one turn of a loop or one unit of udelay: SPIN_TIMEOUT_US    *)
(* turns take the time its name says. In a Stall the driver's thread is    *)
(* interrupted and only the sensor goes on.                                *)
(*                                                                         *)
(*   phase, left, sent    the sensor: pulse, what is left of it, the bits  *)
(*             sent or being sent                                          *)
(*   bits      what this sensor has to send                                *)
(*   pc, time_out, delay, got      the driver: place, counter of the loop, *)
(*             udelay, data                                                *)
(*   timeout   the counter of dht_init, in units of 1 ms                   *)
(*   fn, ret   the function called and its result                          *)
(*   stalled   units lost since the last bit; dead, has the sensor stopped?*)
(*                                                                         *)
(* The bytes, their checksum and their meaning are left out: got is        *)
(* compared with bits. A definition whose comment says "Mutant" is not     *)
(* part of the model.                                                      *)
(***************************************************************************)
EXTENDS Integers, Sequences

CONSTANTS
    BITS,               \* number of bits, 40 in the code
    SPIN_TIMEOUT,       \* SPIN_TIMEOUT_US in units
    READ_THRESHOLD,     \* in units
    SYNC,               \* the 60 us after the start pulse, in units
    RESPONSE,           \* the 80 us of a pulse of the response, in units
    Reactions,          \* units until the sensor responds
    Lows,               \* lengths of the low pulse of a bit
    Zero, One,          \* lengths of the high pulse of a bit
    MaxStall,           \* bound: units the thread loses per bit
    Dies,               \* may the sensor stop?
    POWER_WAIT,         \* POWER_WAIT_TIMEOUT in ms
    START_LOW,          \* START_LOW_TIME in ms
    Functions           \* functions called: "dht_init", "dht_read"

DhtAssumption ==
    /\ {BITS, SPIN_TIMEOUT, READ_THRESHOLD, SYNC, RESPONSE, Zero, One, POWER_WAIT, START_LOW} \subseteq Nat \ {0}
    /\ Reactions \cup Lows \subseteq Nat \ {0} /\ Zero < One /\ MaxStall \in Nat /\ Dies \in BOOLEAN
    /\ Functions \subseteq {"dht_init", "dht_read"}

\* What the lengths in the code rely on, of the sensor and of the time a thread
\* may lose per bit.
TimingAssumption ==
    \* The sensor is in the low pulse of its response when the driver looks.
    /\ \A r \in Reactions : r <= SYNC /\ SYNC + MaxStall < r + RESPONSE
    /\ MaxStall < RESPONSE
    \* That pulse ends in time.
    /\ \A r \in Reactions : r + RESPONSE <= SYNC + SPIN_TIMEOUT
    \* A sample falls into the high pulse of a one and behind that of a zero, and
    \* no high pulse is short enough to be missed.
    /\ Zero <= READ_THRESHOLD + 1 /\ READ_THRESHOLD + 1 + MaxStall < One /\ MaxStall < Zero
    \* The next low pulse is not over before the driver waits for its end.
    /\ \A l \in Lows : 2 + MaxStall < l /\ READ_THRESHOLD + 2 + 2 * MaxStall < l + Zero
    \* One counter is enough for the rest of a high pulse and the low one before it.
    /\ \A l \in Lows : l + One <= SPIN_TIMEOUT + READ_THRESHOLD + 1

VARIABLES phase, left, sent, bits, pc, time_out, delay, got, timeout, fn, ret, stalled, dead

sensor == <<phase, left, sent, dead>>
host == <<pc, time_out, delay, got, timeout, fn, ret>>
vars == <<sensor, bits, host, stalled>>

Init ==
    /\ phase = "off" /\ left = 0 /\ sent = 0 /\ dead = FALSE
    /\ bits \in [1 .. BITS -> {0, 1}]
    /\ pc = "idle" /\ time_out = 0 /\ delay = 0 /\ got = <<>> /\ timeout = 0
    /\ fn = "none" /\ ret = "none" /\ stalled = 0

-----------------------------------------------------------------------------
(* The sensor *)

High == phase \in {"idle", "reaction", "resp_high", "high"}

\* The pulse that follows phase, with a length for it.
NextPulse(ph, len) ==
    /\ phase' = ph /\ left' = len
    /\ sent' = IF ph = "low" THEN sent + 1 ELSE sent

AfterPulse ==
    CASE phase = "reaction"  -> NextPulse("resp_low", RESPONSE)
      [] phase = "resp_low"  -> NextPulse("resp_high", RESPONSE)
      [] phase \in {"resp_high", "high"} /\ sent < BITS -> \E l \in Lows : NextPulse("low", l)
      [] phase = "high" /\ sent = BITS -> \E l \in Lows : NextPulse("end", l)
      [] phase = "low"       -> NextPulse("high", IF bits[sent] = 1 THEN One ELSE Zero)
      [] phase = "end"       -> NextPulse("idle", 0)

\* One unit of time for the sensor.
SensorTick ==
    /\ UNCHANGED <<bits, dead>>
    /\ IF dead \/ phase \in {"off", "idle"} THEN UNCHANGED <<phase, left, sent>>
       ELSE IF left > 1 THEN left' = left - 1 /\ UNCHANGED <<phase, sent>>
       ELSE AfterPulse

\* The sensor has its power before a read asks it.
PowerUp ==
    /\ phase = "off" /\ ~ dead /\ pc \in {"idle", "power"}
    /\ phase' = "idle"
    /\ UNCHANGED <<left, sent, dead, bits, host, stalled>>

Die ==
    /\ Dies /\ ~ dead
    /\ dead' = TRUE
    /\ UNCHANGED <<phase, left, sent, bits, host, stalled>>

-----------------------------------------------------------------------------
(* The driver *)

Call(f) ==
    /\ pc = "idle" /\ fn = "none"
    /\ fn' = f /\ ret' = "none"
    /\ pc' = IF f = "dht_init" THEN "power" ELSE "start"
    /\ timeout' = POWER_WAIT
    /\ UNCHANGED <<sensor, bits, time_out, delay, got, stalled>>

Finish(r) == pc' = "done" /\ ret' = r

\* The first loop of dht_init, a turn takes 1 ms. The counter is decremented
\* after the comparison.
dht_init ==
    /\ pc = "power"
    /\ \/ /\ ~ High /\ timeout > 0
          /\ timeout' = timeout - 1 /\ UNCHANGED <<pc, ret>>
       \/ /\ ~ High /\ timeout = 0
          /\ timeout' = -1 /\ Finish("bad_state")
       \/ /\ High /\ UNCHANGED timeout
          /\ IF timeout <= 0 THEN Finish("bad_state") ELSE pc' = "start" /\ UNCHANGED ret
    /\ UNCHANGED <<sensor, bits, time_out, delay, got, fn, stalled>>

\* _send_start_signal up to the release of the line, which the sensor answers.
\* The start pulse is longer than anything the sensor was still sending.
start_pulse ==
    /\ pc = "start"
    /\ pc' = "sync" /\ delay' = SYNC /\ time_out' = SPIN_TIMEOUT /\ stalled' = 0
    /\ sent' = 0
    /\ IF dead \/ phase = "off" THEN UNCHANGED <<phase, left>>
       ELSE phase' = "reaction" /\ left' \in Reactions
    /\ UNCHANGED <<dead, bits, got, timeout, fn, ret>>

\* The start signal has failed: dht_init tries again while there is time.
StartFailed ==
    IF fn = "dht_init" /\ timeout - START_LOW > 0
      THEN timeout' = timeout - START_LOW /\ pc' = "start" /\ UNCHANGED ret
      ELSE timeout' = timeout - START_LOW /\ Finish("not_found")

\* udelay
Delay == delay > 0 /\ delay' = delay - 1 /\ UNCHANGED <<pc, time_out, got, timeout, ret>>

Sync ==
    /\ pc = "sync" /\ delay = 0
    /\ IF High THEN StartFailed ELSE pc' = "resp" /\ UNCHANGED <<timeout, ret>>
    /\ UNCHANGED <<time_out, delay, got>>

\* Mutant: the loops turn for ever.
spins_for_ever == FALSE
\* --time_out has reached zero.
spun_out == time_out = 1

\* low, wait high
WaitResponse ==
    /\ pc = "resp" /\ delay = 0
    /\ \/ /\ High
          /\ delay' = RESPONSE /\ pc' = "gap" /\ UNCHANGED <<time_out, timeout, ret>>
       \/ /\ ~ High /\ spun_out
          /\ time_out' = 0 /\ StartFailed /\ UNCHANGED delay
       \/ /\ ~ High /\ ~ spun_out
          /\ time_out' = IF time_out > 1 THEN time_out - 1 ELSE time_out
          /\ UNCHANGED <<pc, delay, timeout, ret>>
    /\ UNCHANGED got

Gap ==
    /\ pc = "gap" /\ delay = 0
    /\ IF fn = "dht_init" THEN Finish("ok") ELSE pc' = "wait_low" /\ UNCHANGED ret
    /\ time_out' = SPIN_TIMEOUT
    /\ UNCHANGED <<delay, got, timeout>>

\* The counter with which a wait for the high level starts.
counter_for_high == SPIN_TIMEOUT

\* The two loops of _busy_wait_read. "high, wait low" starts from what the
\* loop before has left of the counter.
Spin(level_seen, then) ==
    /\ delay = 0
    /\ \/ level_seen /\ then
       \/ /\ ~ level_seen /\ spun_out
          /\ time_out' = 0 /\ Finish("not_found") /\ UNCHANGED delay
       \/ /\ ~ level_seen /\ ~ spun_out
          /\ time_out' = IF time_out > 1 THEN time_out - 1 ELSE time_out
          /\ UNCHANGED <<pc, delay, ret>>
    /\ UNCHANGED <<got, timeout>>

wait_low ==
    /\ pc = "wait_low"
    /\ Spin(~ High, pc' = "wait_high" /\ time_out' = counter_for_high /\ UNCHANGED <<delay, ret>>)

sample_after == READ_THRESHOLD

wait_high ==
    /\ pc = "wait_high"
    /\ Spin(High, pc' = "sample" /\ delay' = sample_after /\ UNCHANGED <<time_out, ret>>)

last_bit == BITS

\* _bit_parse and the end of the loop. The checksum is taken as right.
sample ==
    /\ pc = "sample" /\ delay = 0
    /\ got' = Append(got, IF High THEN 1 ELSE 0)
    /\ IF Len(got) + 1 = last_bit THEN Finish("ok") ELSE pc' = "wait_low" /\ UNCHANGED ret
    /\ UNCHANGED <<time_out, delay, timeout>>

Running == pc \notin {"idle", "power", "start", "done"}

Tick ==
    /\ Running /\ SensorTick
    /\ Delay \/ Sync \/ WaitResponse \/ Gap \/ wait_low \/ wait_high \/ sample
    /\ stalled' = IF pc = "sample" /\ delay = 0 THEN 0 ELSE stalled
    /\ UNCHANGED fn

Stall ==
    /\ Running /\ stalled < MaxStall
    /\ SensorTick
    /\ stalled' = stalled + 1
    /\ UNCHANGED host

-----------------------------------------------------------------------------

Next ==
    \/ \E f \in Functions : Call(f)
    \/ PowerUp \/ Die
    \/ dht_init \/ start_pulse
    \/ Tick \/ Stall

Spec == Init /\ [][Next]_vars

\* Time passes and the driver's thread runs.
FairSpec == Spec /\ WF_vars(Tick) /\ WF_vars(dht_init) /\ WF_vars(start_pulse)

-----------------------------------------------------------------------------
(* Properties *)

\* A read that succeeds has read the sensor's bits, although the driver sees
\* only levels, starts with a fixed delay into the response and may lose some
\* time with every bit. What a sensor that stops half-way has sent is left to the
\* checksum.
BitsOwn == (fn = "dht_read" /\ ret = "ok" /\ ~ dead) => got = bits

\* A sensor that is there, and whose pulses have their length, is read: no loop
\* gives up on it.
Answered == (fn = "dht_read" /\ ~ dead /\ phase # "off") => ret # "not_found"

\* Both functions return, whenever the sensor stops.
Returns == fn # "none" ~> pc = "done"

=============================================================================
