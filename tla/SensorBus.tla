------------------------------ MODULE SensorBus ------------------------------
(***************************************************************************)
(* The drivers of the devices on one I2C bus, and the threads that call    *)
(* them: the loop of the bus and the driver PTAs, all at once. A driver    *)
(* function is a row of sessions; a session is what it does between        *)
(* i2c_acquire and i2c_release. Some functions give the bus back while the *)
(* device works (udelay) and acquire it again for the answer.              *)
(*                                                                         *)
(*   lock       who holds bsc_locks[dev]                                   *)
(*   pc, job    each thread's place (out, lock, in; hung: in a read that   *)
(*              never ends) and function: its session (s), the transfer in *)
(*              it (x), the number of the call (n), the first byte of the  *)
(*              answer (head), the configuration its reads have met        *)
(*              (seen), whether a read took an answer that was not for it  *)
(*              (foreign), and whether another caller's command reached    *)
(*              the device while the function had given the bus back       *)
(*              (overtaken)                                                *)
(*   last       device: the command it got last, from whom                 *)
(*   conf       device: the call that configured it last                   *)
(*   res        what each thread's last function returned, and foreign,    *)
(*              overtaken and seen of the data it returned                 *)
(*   left       calls a thread will still make                             *)
(*                                                                         *)
(* Transfers are steps of their own; one may fail, and a read may wait     *)
(* for ever for a device that holds the clock (module I2cTransfer).        *)
(* A definition whose comment says "Mutant" is not part of the model.      *)
(***************************************************************************)
EXTENDS Integers, Sequences

CONSTANTS
    Threads,        \* the loop of the bus and callers of the driver PTAs
    N_READS,        \* how often a loop of reads goes round
    MaxCalls        \* bound: calls each thread makes

Free == "free"
Nobody == <<Free, 0>>

-----------------------------------------------------------------------------
(* The driver functions, in the order of their transfers. *)

\* A write whose failure ends the function, and one that configures the device.
W(c) == [op |-> "write", cmd |-> c, must |-> TRUE]
Conf(c) == [op |-> "conf", cmd |-> c, must |-> TRUE]
\* A read of what the last command left, one of the answer's head, one of a
\* register (its address is sent in the same transfer); a read whose result is
\* ignored.
R == [op |-> "read", cmd |-> "data", must |-> TRUE]
Head3 == [op |-> "head", cmd |-> "head", must |-> TRUE]
Reg == [op |-> "reg", cmd |-> "reg", must |-> TRUE]
Trigger == [op |-> "trigger", cmd |-> "head", must |-> FALSE]

Times(n, x) == [i \in 1 .. n |-> x]

bh1750fvi_init == << <<W("power_down")>> >>
bh1750fvi_sample == << <<W("power_on"), W("single_hres1")>>, <<R>> >>
atk301_init == << <<W("handshake")>>, <<Trigger, Head3>> >>
atk301_get_fingerprint_image == << <<W("get_image")>>, <<Trigger, Head3>> >>
atk301_upload_fingerprint_image ==
    << <<W("upload")>>, <<Trigger, Head3>>, Times(N_READS, R) >>
mpu_init ==
    << <<Conf("reset"), Conf("signal_path"), Conf("smplrt_div"), Conf("config"),
         Conf("gyro_config"), Conf("accel_config"), Reg, Conf("clksel")>> >>
mpu_sample == << Times(N_READS, Reg) >>
mpu_deinit == << <<Conf("off")>> >>
at24cxx_write == << <<W("prefix_data")>> >>
\* Mutant: the address is written and the data read in two sessions.
at24cxx_read_split == << <<W("address")>>, <<R>> >>
at24cxx_read == << <<W("address"), R>> >>
tel0157_init == << <<Conf("power"), Conf("gnss_mode"), Conf("rgb")>> >>
tel0157_deinit == << <<Conf("no_power")>> >>
\* tel0157_get_utc_time, _lon, _lat read two ranges of registers; _alt, _sog,
\* _cog, _num_sat_used, _gnss_mode read one.
tel0157_get == << <<Reg, Reg>> >>
tel0157_get_gnss_len == << <<W("start_get"), Reg>> >>
tel0157_get_all_gnss ==
    << [i \in 1 .. 2 * N_READS |-> IF i % 2 = 1 THEN W("all_data") ELSE R] >>

\* The sessions of each function, and the device it talks to.
Sessions ==
    [bh1750fvi_init |-> bh1750fvi_init, bh1750fvi_sample |-> bh1750fvi_sample,
     atk301_init |-> atk301_init,
     atk301_get_fingerprint_image |-> atk301_get_fingerprint_image,
     atk301_upload_fingerprint_image |-> atk301_upload_fingerprint_image,
     mpu_init |-> mpu_init, mpu_sample |-> mpu_sample, mpu_deinit |-> mpu_deinit,
     at24cxx_write |-> at24cxx_write, at24cxx_read |-> at24cxx_read,
     tel0157_init |-> tel0157_init, tel0157_deinit |-> tel0157_deinit,
     tel0157_get |-> tel0157_get, tel0157_get_gnss_len |-> tel0157_get_gnss_len,
     tel0157_get_all_gnss |-> tel0157_get_all_gnss]
Fns == DOMAIN Sessions
Device(f) ==
    CASE f \in {"bh1750fvi_init", "bh1750fvi_sample"} -> "bh1750"
      [] f \in {"atk301_init", "atk301_get_fingerprint_image",
                "atk301_upload_fingerprint_image"} -> "atk301"
      [] f \in {"mpu_init", "mpu_sample", "mpu_deinit"} -> "mpu6050"
      [] f \in {"at24cxx_write", "at24cxx_read"} -> "at24cxx"
      [] OTHER -> "tel0157"
Devices == {Device(f) : f \in Fns}

SensorBusAssumption ==
    Free \notin Threads /\ MaxCalls \in Nat /\ N_READS \in Nat \ {0}

\* The functions that give the bus back while their device works.
GivesBack == {"bh1750fvi_sample", "atk301_init", "atk301_get_fingerprint_image",
              "atk301_upload_fingerprint_image"}

\* The fingerprint module's answer to a command it has carried out, and the
\* one a function goes on with; UNREAD while a session has read no head.
UNREAD == 0
SUCCESS == 1
SUCCESS_WITH_DATA == 2
FAILED == 3
answer(cmd) == IF cmd = "upload" THEN SUCCESS_WITH_DATA ELSE SUCCESS
expected(f) == IF f = "atk301_upload_fingerprint_image" THEN SUCCESS_WITH_DATA ELSE SUCCESS

-----------------------------------------------------------------------------

VARIABLES lock, pc, job, last, conf, res, left

vars == <<lock, pc, job, last, conf, res, left>>

Job(f, n) ==
    [fn |-> f, s |-> 1, x |-> 1, n |-> n, head |-> UNREAD,
     foreign |-> FALSE, overtaken |-> FALSE, seen |-> {}]
NoJob == Job("mpu_sample", 0)
NoResult == [ret |-> "none", foreign |-> FALSE, overtaken |-> FALSE, seen |-> {}]

Init ==
    /\ lock = Free
    /\ pc = [t \in Threads |-> "out"] /\ job = [t \in Threads |-> NoJob]
    /\ last = [d \in Devices |-> [by |-> Nobody, cmd |-> "none"]]
    /\ conf = [d \in Devices |-> Nobody]
    /\ res = [t \in Threads |-> NoResult]
    /\ left = [t \in Threads |-> MaxCalls]

Me(t) == <<t, job[t].n>>
Dev(t) == Device(job[t].fn)
Session(t) == Sessions[job[t].fn][job[t].s]
Transfer(t) == Session(t)[job[t].x]
Goto(t, l) == pc' = [pc EXCEPT ![t] = l]

\* Is the call that configured the device not over yet?
BeingConfigured(d, t) ==
    \E u \in Threads \ {t} : pc[u] # "out" /\ conf[d] = Me(u)

-----------------------------------------------------------------------------

Call(t, f) ==
    /\ pc[t] = "out" /\ left[t] > 0
    /\ job' = [job EXCEPT ![t] = Job(f, left[t])]
    /\ left' = [left EXCEPT ![t] = @ - 1]
    /\ Goto(t, "lock")
    /\ UNCHANGED <<lock, last, conf, res>>

\* Has the device got another command since the function gave the bus back?
OvertakenNow(t) ==
    job[t].s > 1 /\ job[t].fn \in GivesBack /\ last[Dev(t)].by # Me(t)

\* i2c_acquire, of the first session and, after udelay, of the later ones.
i2c_acquire(t) ==
    /\ pc[t] = "lock" /\ lock = Free
    /\ lock' = t
    /\ Goto(t, "in")
    /\ job' = [job EXCEPT ![t].overtaken = @ \/ OvertakenNow(t)]
    /\ UNCHANGED <<last, conf, res, left>>

\* What a transfer does to the device.
Device_takes(t, x) ==
    LET d == Dev(t)
    IN  /\ last' = IF x.op \in {"write", "conf"} THEN [last EXCEPT ![d] = [by |-> Me(t), cmd |-> x.cmd]]
                   ELSE last
        /\ conf' = IF x.op = "conf" THEN [conf EXCEPT ![d] = Me(t)] ELSE conf

\* The head of the answer: the module has carried out its last command or not
\* (an image of another length than the driver's counts as not).
Heads(t, x) == IF x.op = "head" THEN {answer(last[Dev(t)].cmd), FAILED} ELSE {job[t].head}

transfer_ok(t) ==
    LET x == Transfer(t)
    IN  /\ pc[t] = "in" /\ job[t].x <= Len(Session(t))
        /\ Device_takes(t, x)
        /\ \E h \in Heads(t, x) :
             job' = [job EXCEPT ![t].x = @ + 1, ![t].head = h,
                       ![t].foreign = @ \/ (x.op \in {"read", "head"} /\ last[Dev(t)].by # Me(t))
                                        \/ (x.op = "reg" /\ BeingConfigured(Dev(t), t)),
                       ![t].seen = IF x.op = "reg" THEN @ \cup {conf[Dev(t)]} ELSE @]
        /\ UNCHANGED <<lock, pc, res, left>>

Return(t, ret) ==
    /\ res' = [res EXCEPT ![t] = [ret |-> ret, foreign |-> job[t].foreign,
                                   overtaken |-> job[t].overtaken, seen |-> job[t].seen]]
    /\ job' = [job EXCEPT ![t] = NoJob]
    /\ Goto(t, "out")

\* Mutant: the error path returns without i2c_release.
keeps_bus(t) == lock
\* The error paths release the bus before they return.
bus_after_error(t) == Free

\* A transfer fails (no acknowledge, a clock stretched too long), or gives a
\* value the function refuses (the device id of mpu_init): the device may have
\* taken a command all the same. The failure ends the function unless its result
\* is ignored.
transfer_fails(t) ==
    LET x == Transfer(t)
    IN  /\ pc[t] = "in" /\ job[t].x <= Len(Session(t))
        /\ Device_takes(t, x) \/ UNCHANGED <<last, conf>>
        /\ IF x.must
             THEN lock' = bus_after_error(t) /\ Return(t, "error")
             ELSE job' = [job EXCEPT ![t].x = @ + 1] /\ UNCHANGED <<lock, pc, res>>
        /\ UNCHANGED left

\* i2c_read_bytes waits for DONE without a limit: a device that holds the clock
\* keeps the thread there, with the mutex.
device_holds(t) ==
    /\ pc[t] = "in" /\ job[t].x <= Len(Session(t))
    /\ Transfer(t).op \in {"read", "head", "reg", "trigger"}
    /\ Goto(t, "hung")
    /\ UNCHANGED <<lock, job, last, conf, res, left>>

\* head[0], if the session has read it, is what the function expects.
head_ok(t) == job[t].head \in {UNREAD, expected(job[t].fn)}

\* The device works (udelay) and there is another session.
more_sessions(t) == job[t].s < Len(Sessions[job[t].fn])

\* i2c_release at the end of a session; then the answer is looked at, the next
\* session begins, or the function returns.
i2c_release(t) ==
    /\ pc[t] = "in" /\ job[t].x > Len(Session(t))
    /\ lock' = Free
    /\ \/ ~ head_ok(t) /\ Return(t, "error")
       \/ /\ head_ok(t) /\ more_sessions(t)
          /\ job' = [job EXCEPT ![t].s = @ + 1, ![t].x = 1, ![t].head = UNREAD]
          /\ Goto(t, "lock") /\ UNCHANGED res
       \/ head_ok(t) /\ ~ more_sessions(t) /\ Return(t, "ok")
    /\ UNCHANGED <<last, conf, left>>

-----------------------------------------------------------------------------

Step(t) == i2c_acquire(t) \/ transfer_ok(t) \/ transfer_fails(t) \/ i2c_release(t)

Next == \E t \in Threads : Step(t) \/ device_holds(t) \/ \E f \in Fns : Call(t, f)

Spec == Init /\ [][Next]_vars

\* A thread inside a function is scheduled, and the mutex's waiters are served
\* (the wait queue is first come, first served: module QueueSync). A read that
\* its device lets end ends; none need.
FairSpec == Spec /\ \A t \in Threads : WF_vars(Step(t)) /\ SF_vars(i2c_acquire(t))

-----------------------------------------------------------------------------
(* Properties. *)

\* Transfers take place under the bus's mutex, and whoever has it is in one:
\* every way out of a session gives it back.
OneOnTheBus == \A t \in Threads : (lock = t) = (pc[t] \in {"in", "hung"})

\* A function that succeeds has read the answer to its own command, and registers
\* that nobody was about to reconfigure, unless it gave the bus back while its
\* device worked and another caller's command came between: that is the only gap
\* through which the calls of others reach its answer.
OwnAnswer ==
    \A t \in Threads : res[t].ret = "ok" /\ ~ res[t].overtaken => ~ res[t].foreign

\* The bytes of one sample come from one configuration of the sensor, whoever
\* else configures it.
SampleCoherent ==
    \A t \in Threads : res[t].ret = "ok" => \A a, b \in res[t].seen : a = b

\* A device has stopped the bus for good.
Hung == \E t \in Threads : pc[t] = "hung"

=============================================================================
