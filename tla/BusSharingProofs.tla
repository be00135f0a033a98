-------------------------- MODULE BusSharingProofs --------------------------
(***************************************************************************)
(* The drivers that share a bus, for any number of callers and calls: the  *)
(* bus stays with its holder, the transfers of a flash function follow     *)
(* each other, a sensor's function reads the answer to its own command     *)
(* unless it was overtaken while its device worked, and a pin has the      *)
(* function and the pull its user asked for unless another user of the     *)
(* same register has undone it. The three parts are proved one after the   *)
(* other: SensorsWork, FlashWork and PinsWork are their invariants.        *)
(***************************************************************************)
EXTENDS MCBusSharing, TLAPS

\* No caller is called "free", and no thread both acquires buses and initialises
\* pins.
LEMMA CallersApart == "free" \notin Callers /\ \A t \in Callers : t \notin GpioUsers
  BY BoardAssumption, SensorsAssumption
  DEF Board!PinMuxAssumption, Sensors!SensorBusAssumption, Sensors!Free

-----------------------------------------------------------------------------
(* The sensors: a function reads the answer to its own command. The parts   *)
(* of the argument: what each transfer of each function is, by its place;   *)
(* then the invariant SensorsWork, action by action.                        *)

\* The functions of the fingerprint module; those that give the bus back before
\* they read the answer, those that read an answer at all, and those that
\* configure their device.
Modules == {"atk301_init", "atk301_get_fingerprint_image", "atk301_upload_fingerprint_image"}
LaterFns == Modules \cup {"bh1750fvi_sample"}
AskFns == LaterFns \cup {"at24cxx_read", "tel0157_get_all_gnss"}
SwitchFns == {"mpu_init", "mpu_deinit", "tel0157_init", "tel0157_deinit"}

\* The functions by name.
LEMMA FunctionNames ==
  Sensors!Fns = {"bh1750fvi_init", "bh1750fvi_sample", "atk301_init",
                 "atk301_get_fingerprint_image", "atk301_upload_fingerprint_image",
                 "mpu_init", "mpu_sample", "mpu_deinit", "at24cxx_write", "at24cxx_read",
                 "tel0157_init", "tel0157_deinit", "tel0157_get", "tel0157_get_gnss_len",
                 "tel0157_get_all_gnss"}
  BY DEF Sensors!Fns, Sensors!Sessions

Place(f, x) ==
    /\ x.op \in {"write", "conf", "read", "head", "reg", "trigger"}
    /\ x.op # "trigger" => x.must = TRUE
    /\ x.op = "trigger" => x.must = FALSE
    /\ x.op \in {"read", "head"} => f \in AskFns
    /\ x.op = "conf" => f \in SwitchFns
    /\ x.op = "reg" => f \notin LaterFns
Begins(f, x) ==
    /\ f \in AskFns => x.op = "write"
    /\ f \in SwitchFns => x.op = "conf"

\* Every transfer of every session is in its place; only the functions that give
\* the bus back have more than one session.
Placed(f) ==
    /\ Len(Sensors!Sessions[f]) \in Nat \ {0} /\ Len(Sensors!Sessions[f][1]) \in Nat \ {0}
    /\ f \notin LaterFns => Len(Sensors!Sessions[f]) = 1
    /\ \A s \in 1 .. Len(Sensors!Sessions[f]) : \A k \in 1 .. Len(Sensors!Sessions[f][s]) :
          Place(f, Sensors!Sessions[f][s][k])
    /\ Begins(f, Sensors!Sessions[f][1][1])

LEMMA Reads == N_READS \in Nat /\ N_READS > 0
  BY SensorsAssumption DEF Sensors!SensorBusAssumption

\* The entries of short sequences.
LEMMA Entries ==
  /\ \A a : \A k \in 1 .. Len(<<a>>) : k = 1 /\ <<a>>[k] = a
  /\ \A a, b : \A k \in 1 .. Len(<<a, b>>) :
        \/ k = 1 /\ <<a, b>>[k] = a
        \/ k = 2 /\ <<a, b>>[k] = b
  /\ \A a, b, c : \A k \in 1 .. Len(<<a, b, c>>) :
        \/ k = 1 /\ <<a, b, c>>[k] = a
        \/ k = 2 /\ <<a, b, c>>[k] = b
        \/ k = 3 /\ <<a, b, c>>[k] = c
<1>1. \A a : \A k \in 1 .. Len(<<a>>) : k = 1 /\ <<a>>[k] = a
  OBVIOUS
<1>2. \A a, b : \A k \in 1 .. Len(<<a, b>>) :
        \/ k = 1 /\ <<a, b>>[k] = a
        \/ k = 2 /\ <<a, b>>[k] = b
  OBVIOUS
<1>3. \A a, b, c : \A k \in 1 .. Len(<<a, b, c>>) :
        \/ k = 1 /\ <<a, b, c>>[k] = a
        \/ k = 2 /\ <<a, b, c>>[k] = b
        \/ k = 3 /\ <<a, b, c>>[k] = c
  OBVIOUS
<1>. QED
  BY <1>1, <1>2, <1>3

LEMMA Disjoint == SwitchFns \cap AskFns = {} /\ LaterFns \subseteq AskFns
  BY DEF SwitchFns, AskFns, LaterFns, Modules

\* Where each kind of transfer may stand.
LEMMA Kinds ==
  ASSUME NEW f
  PROVE  /\ \A c : Place(f, Sensors!W(c))
         /\ \A c : f \notin SwitchFns => Begins(f, Sensors!W(c))
         /\ \A c : f \in SwitchFns => Place(f, Sensors!Conf(c)) /\ Begins(f, Sensors!Conf(c))
         /\ f \in AskFns => Place(f, Sensors!R) /\ Place(f, Sensors!Head3)
         /\ Place(f, Sensors!Trigger)
         /\ f \notin AskFns => Place(f, Sensors!Reg)
         /\ f \notin AskFns /\ f \notin SwitchFns => Begins(f, Sensors!Reg)
<1>2. /\ \A c : Sensors!W(c).op = "write" /\ Sensors!W(c).must = TRUE
      /\ \A c : Sensors!Conf(c).op = "conf" /\ Sensors!Conf(c).must = TRUE
      /\ Sensors!R.op = "read" /\ Sensors!R.must = TRUE
      /\ Sensors!Head3.op = "head" /\ Sensors!Head3.must = TRUE
      /\ Sensors!Reg.op = "reg" /\ Sensors!Reg.must = TRUE
      /\ Sensors!Trigger.op = "trigger" /\ Sensors!Trigger.must = FALSE
  BY DEF Sensors!W, Sensors!Conf, Sensors!R, Sensors!Head3, Sensors!Reg, Sensors!Trigger
<1>. QED
  BY <1>2, Disjoint DEF Place, Begins

\* A function is placed when its sessions are.
LEMMA OneSession ==
  ASSUME NEW f, NEW ss, Sensors!Sessions[f] = <<ss>>,
         Len(ss) \in Nat \ {0}, \A k \in 1 .. Len(ss) : Place(f, ss[k]), Begins(f, ss[1])
  PROVE  Placed(f)
  BY DEF Placed

LEMMA TwoSessions ==
  ASSUME NEW f \in LaterFns, NEW s1, NEW s2, Sensors!Sessions[f] = <<s1, s2>>,
         Len(s1) \in Nat \ {0}, \A k \in 1 .. Len(s1) : Place(f, s1[k]), Begins(f, s1[1]),
         \A k \in 1 .. Len(s2) : Place(f, s2[k])
  PROVE  Placed(f)
  BY DEF Placed

LEMMA ThreeSessions ==
  ASSUME NEW f \in LaterFns, NEW s1, NEW s2, NEW s3, Sensors!Sessions[f] = <<s1, s2, s3>>,
         Len(s1) \in Nat \ {0}, \A k \in 1 .. Len(s1) : Place(f, s1[k]), Begins(f, s1[1]),
         \A k \in 1 .. Len(s2) : Place(f, s2[k]),
         \A k \in 1 .. Len(s3) : Place(f, s3[k])
  PROVE  Placed(f)
  BY DEF Placed

\* The functions of the fingerprint module: a command, its head, perhaps the data.
LEMMA ModulePlaced ==
  ASSUME NEW f \in Modules, NEW c, NEW rest, \A k \in 1 .. Len(rest) : Place(f, rest[k]),
         \/ Sensors!Sessions[f] = << <<Sensors!W(c)>>, <<Sensors!Trigger, Sensors!Head3>> >>
         \/ Sensors!Sessions[f] = << <<Sensors!W(c)>>, <<Sensors!Trigger, Sensors!Head3>>, rest >>
  PROVE  Placed(f)
<1> DEFINE s1 == <<Sensors!W(c)>>
           s2 == <<Sensors!Trigger, Sensors!Head3>>
<1>1. f \in LaterFns /\ f \in AskFns /\ f \notin SwitchFns
  BY Disjoint DEF LaterFns
<1>2. /\ Len(s1) \in Nat \ {0} /\ \A k \in 1 .. Len(s1) : Place(f, s1[k])
      /\ Begins(f, s1[1])
  BY <1>1, Kinds, Entries
<1>3. \A k \in 1 .. Len(s2) : Place(f, s2[k])
  BY <1>1, Kinds, Entries
<1>4. Sensors!Sessions[f] = <<s1, s2>> \/ Sensors!Sessions[f] = <<s1, s2, rest>>
  OBVIOUS
<1> HIDE DEF s1, s2
<1>5. CASE Sensors!Sessions[f] = <<s1, s2>>
  BY <1>1, <1>2, <1>3, <1>5, TwoSessions
<1>6. CASE Sensors!Sessions[f] = <<s1, s2, rest>>
  BY <1>1, <1>2, <1>3, <1>6, ThreeSessions
<1>. QED
  BY <1>4, <1>5, <1>6

\* Function by function.
LEMMA AllPlaced == \A f \in Sensors!Fns : Placed(f)
<1> USE DEF AskFns, LaterFns, SwitchFns, Modules
<1>1. Placed("bh1750fvi_init")
  <2> DEFINE ss == <<Sensors!W("power_down")>>
  <2>1. Sensors!Sessions["bh1750fvi_init"] = <<ss>>
    BY DEF Sensors!Sessions, Sensors!bh1750fvi_init
  <2>2. \A k \in 1 .. Len(ss) : Place("bh1750fvi_init", ss[k])
    BY Kinds, Entries
  <2>3. Begins("bh1750fvi_init", ss[1])
    BY Kinds
  <2>. QED
    BY <2>1, <2>2, <2>3, OneSession
<1>2. Placed("mpu_deinit")
  <2> DEFINE ss == <<Sensors!Conf("off")>>
  <2>1. Sensors!Sessions["mpu_deinit"] = <<ss>>
    BY DEF Sensors!Sessions, Sensors!mpu_deinit
  <2>2. \A k \in 1 .. Len(ss) : Place("mpu_deinit", ss[k])
    BY Kinds, Entries
  <2>3. Begins("mpu_deinit", ss[1])
    BY Kinds
  <2>. QED
    BY <2>1, <2>2, <2>3, OneSession
<1>3. Placed("at24cxx_write")
  <2> DEFINE ss == <<Sensors!W("prefix_data")>>
  <2>1. Sensors!Sessions["at24cxx_write"] = <<ss>>
    BY DEF Sensors!Sessions, Sensors!at24cxx_write
  <2>2. \A k \in 1 .. Len(ss) : Place("at24cxx_write", ss[k])
    BY Kinds, Entries
  <2>3. Begins("at24cxx_write", ss[1])
    BY Kinds
  <2>. QED
    BY <2>1, <2>2, <2>3, OneSession
<1>4. Placed("at24cxx_read")
  <2> DEFINE ss == <<Sensors!W("address"), Sensors!R>>
  <2>1. Sensors!Sessions["at24cxx_read"] = <<ss>>
    BY DEF Sensors!Sessions, Sensors!at24cxx_read
  <2>2. \A k \in 1 .. Len(ss) : Place("at24cxx_read", ss[k])
    BY Kinds, Entries
  <2>3. Begins("at24cxx_read", ss[1])
    BY Kinds
  <2>. QED
    BY <2>1, <2>2, <2>3, OneSession
<1>5. Placed("tel0157_init")
  <2> DEFINE ss == <<Sensors!Conf("power"), Sensors!Conf("gnss_mode"), Sensors!Conf("rgb")>>
  <2>1. Sensors!Sessions["tel0157_init"] = <<ss>>
    BY DEF Sensors!Sessions, Sensors!tel0157_init
  <2>2. \A k \in 1 .. Len(ss) : Place("tel0157_init", ss[k])
    BY Kinds, Entries
  <2>3. Begins("tel0157_init", ss[1])
    BY Kinds
  <2>. QED
    BY <2>1, <2>2, <2>3, OneSession
<1>6. Placed("tel0157_deinit")
  <2> DEFINE ss == <<Sensors!Conf("no_power")>>
  <2>1. Sensors!Sessions["tel0157_deinit"] = <<ss>>
    BY DEF Sensors!Sessions, Sensors!tel0157_deinit
  <2>2. \A k \in 1 .. Len(ss) : Place("tel0157_deinit", ss[k])
    BY Kinds, Entries
  <2>3. Begins("tel0157_deinit", ss[1])
    BY Kinds
  <2>. QED
    BY <2>1, <2>2, <2>3, OneSession
<1>7. Placed("tel0157_get")
  <2> DEFINE ss == <<Sensors!Reg, Sensors!Reg>>
  <2>1. Sensors!Sessions["tel0157_get"] = <<ss>>
    BY DEF Sensors!Sessions, Sensors!tel0157_get
  <2>2. \A k \in 1 .. Len(ss) : Place("tel0157_get", ss[k])
    BY Kinds, Entries
  <2>3. Begins("tel0157_get", ss[1])
    BY Kinds
  <2>. QED
    BY <2>1, <2>2, <2>3, OneSession
<1>8. Placed("tel0157_get_gnss_len")
  <2> DEFINE ss == <<Sensors!W("start_get"), Sensors!Reg>>
  <2>1. Sensors!Sessions["tel0157_get_gnss_len"] = <<ss>>
    BY DEF Sensors!Sessions, Sensors!tel0157_get_gnss_len
  <2>2. \A k \in 1 .. Len(ss) : Place("tel0157_get_gnss_len", ss[k])
    BY Kinds, Entries, SMTT(30)
  <2>3. Begins("tel0157_get_gnss_len", ss[1])
    BY Kinds
  <2>. QED
    BY <2>1, <2>2, <2>3, OneSession
<1>9. Placed("mpu_init")
  <2> DEFINE ss == <<Sensors!Conf("reset"), Sensors!Conf("signal_path"), Sensors!Conf("smplrt_div"),
                     Sensors!Conf("config"), Sensors!Conf("gyro_config"),
                     Sensors!Conf("accel_config"), Sensors!Reg, Sensors!Conf("clksel")>>
  <2>1. Sensors!Sessions["mpu_init"] = <<ss>>
    BY DEF Sensors!Sessions, Sensors!mpu_init
  <2>2. Len(ss) = 8 /\ ss[1] = Sensors!Conf("reset")
    OBVIOUS
  <2>3. \A k \in 1 .. 8 : ss[k] = Sensors!Reg \/ \E c : ss[k] = Sensors!Conf(c)
    OBVIOUS
  <2>4. \A k \in 1 .. Len(ss) : Place("mpu_init", ss[k])
    BY <2>2, <2>3, Kinds
  <2>5. Begins("mpu_init", ss[1])
    BY <2>2, Kinds
  <2> HIDE DEF ss
  <2>. QED
    BY <2>1, <2>2, <2>4, <2>5, OneSession, SMTT(30)
<1>10. Placed("mpu_sample")
  <2> DEFINE ss == Sensors!Times(N_READS, Sensors!Reg)
  <2>1. Sensors!Sessions["mpu_sample"] = <<ss>>
    BY DEF Sensors!Sessions, Sensors!mpu_sample
  <2>2. Len(ss) = N_READS /\ \A k \in 1 .. N_READS : ss[k] = Sensors!Reg
    BY Reads DEF Sensors!Times
  <2>3. ss[1] = Sensors!Reg
    BY <2>2, Reads
  <2>4. (\A k \in 1 .. Len(ss) : Place("mpu_sample", ss[k])) /\ Begins("mpu_sample", ss[1])
    BY <2>2, <2>3, Kinds
  <2> HIDE DEF ss
  <2>. QED
    BY <2>1, <2>2, <2>4, Reads, OneSession
<1>11. Placed("tel0157_get_all_gnss")
  <2> DEFINE ss == [k \in 1 .. 2 * N_READS |->
                     IF k % 2 = 1 THEN Sensors!W("all_data") ELSE Sensors!R]
  <2>1. Sensors!Sessions["tel0157_get_all_gnss"] = <<ss>>
    BY DEF Sensors!Sessions, Sensors!tel0157_get_all_gnss
  <2>2. /\ Len(ss) = 2 * N_READS
        /\ \A k \in 1 .. 2 * N_READS : ss[k] = Sensors!W("all_data") \/ ss[k] = Sensors!R
    BY Reads
  <2>3. ss[1] = Sensors!W("all_data")
    <3>1. 1 \in 1 .. 2 * N_READS /\ 1 % 2 = 1
      BY Reads
    <3>. QED
      BY <3>1
  <2>4. \A k \in 1 .. Len(ss) : Place("tel0157_get_all_gnss", ss[k])
    BY <2>2, Kinds
  <2>5. Begins("tel0157_get_all_gnss", ss[1])
    BY <2>3, Kinds
  <2> HIDE DEF ss
  <2>. QED
    BY <2>1, <2>2, <2>4, <2>5, Reads, OneSession
<1>12. Placed("bh1750fvi_sample")
  <2> DEFINE s1 == <<Sensors!W("power_on"), Sensors!W("single_hres1")>>
             s2 == <<Sensors!R>>
  <2>1. Sensors!Sessions["bh1750fvi_sample"] = <<s1, s2>>
    BY DEF Sensors!Sessions, Sensors!bh1750fvi_sample
  <2>2. /\ Len(s1) = 2 /\ \A k \in 1 .. Len(s1) : Place("bh1750fvi_sample", s1[k])
        /\ Begins("bh1750fvi_sample", s1[1])
    <3>1. /\ s1[1] = Sensors!W("power_on") /\ Len(s1) = 2
          /\ \A k \in 1 .. Len(s1) : \E c : s1[k] = Sensors!W(c)
      BY Entries
    <3>2. "bh1750fvi_sample" \notin SwitchFns
      BY DEF SwitchFns
    <3> HIDE DEF s1
    <3>. QED
      BY <3>1, <3>2, Kinds
  <2>3. \A k \in 1 .. Len(s2) : Place("bh1750fvi_sample", s2[k])
    BY Kinds, Entries
  <2> HIDE DEF s1, s2
  <2>. QED
    BY <2>1, <2>2, <2>3, TwoSessions, SMTT(30)
<1>13. Placed("atk301_init") /\ Placed("atk301_get_fingerprint_image")
  <2>1. /\ Sensors!Sessions["atk301_init"]
             = << <<Sensors!W("handshake")>>, <<Sensors!Trigger, Sensors!Head3>> >>
        /\ Sensors!Sessions["atk301_get_fingerprint_image"]
             = << <<Sensors!W("get_image")>>, <<Sensors!Trigger, Sensors!Head3>> >>
    BY DEF Sensors!Sessions, Sensors!atk301_init, Sensors!atk301_get_fingerprint_image
  <2>2. \A f : \A k \in 1 .. Len(<<Sensors!Trigger>>) : Place(f, <<Sensors!Trigger>>[k])
    BY Kinds, Entries
  <2>. QED
    BY <2>1, <2>2, ModulePlaced
<1>14. Placed("atk301_upload_fingerprint_image")
  <2> DEFINE rest == Sensors!Times(N_READS, Sensors!R)
  <2>1. Sensors!Sessions["atk301_upload_fingerprint_image"]
          = << <<Sensors!W("upload")>>, <<Sensors!Trigger, Sensors!Head3>>, rest >>
    BY DEF Sensors!Sessions, Sensors!atk301_upload_fingerprint_image
  <2>2. Len(rest) = N_READS /\ \A k \in 1 .. N_READS : rest[k] = Sensors!R
    BY Reads DEF Sensors!Times
  <2>3. \A k \in 1 .. Len(rest) : Place("atk301_upload_fingerprint_image", rest[k])
    BY <2>2, Kinds
  <2> HIDE DEF rest
  <2>. QED
    BY <2>1, <2>3, ModulePlaced
<1>. QED
  BY FunctionNames, <1>1, <1>2, <1>3, <1>4, <1>5, <1>6, <1>7, <1>8, <1>9, <1>10, <1>11, <1>12,
     <1>13, <1>14

CallNumbers == (Callers \cup {"free"}) \X Nat
SensorJobs == [fn : Sensors!Fns, s : Nat, x : Nat, n : Nat, head : 0 .. 3, foreign : BOOLEAN,
               overtaken : BOOLEAN, seen : SUBSET CallNumbers]

SensorTypes ==
    /\ pc \in [Callers -> {"out", "lock", "in", "hung"}] /\ Sensors!OneOnTheBus
    /\ job \in [Callers -> SensorJobs] /\ left \in [Callers -> Nat]
    /\ conf \in [Sensors!Devices -> CallNumbers]
    /\ DOMAIN last = Sensors!Devices /\ DOMAIN res = Callers

\* What a thread inside a function knows: unless it was overtaken, nothing foreign
\* has been read, and the device still has its command when it is on the bus; what
\* its reads have met is the configuration the device has.
AnswerWork(t) ==
    LET j == job[t]
        d == Sensors!Dev(t)
        me == Sensors!Me(t)
    IN  /\ j.n = left[t] + 1 /\ (j.foreign => j.overtaken)
        /\ j.s \in 1 .. Len(Sensors!Sessions[j.fn]) /\ j.x > 0
        /\ j.x = 1 => j.seen = {}
        /\ pc[t] = "lock" => j.x = 1
        /\ j.fn \in LaterFns => j.seen = {}
        /\ j.fn \in AskFns /\ pc[t] = "in" /\ (j.s > 1 \/ j.x > 1) /\ ~ j.overtaken =>
              last[d].by = me
        /\ pc[t] = "in" => j.seen \subseteq {conf[d]}
        /\ j.fn \in SwitchFns /\ j.x > 1 => conf[d] = me

\* A call's number is never given again, and who configured a device and is not
\* back yet is still on the bus.
ConfNumbers == \A d \in Sensors!Devices, t \in Callers : conf[d][1] = t => conf[d][2] > left[t]
ConfInside ==
    \A d \in Sensors!Devices, t \in Callers :
        pc[t] # "out" /\ conf[d] = Sensors!Me(t) =>
            pc[t] \in {"in", "hung"} /\ job[t].fn \in SwitchFns
ResultsOwn ==
    \A t \in Callers : res[t].ret = "ok" =>
        /\ ~ res[t].overtaken => ~ res[t].foreign
        /\ \A a, b \in res[t].seen : a = b

SensorsWork ==
    /\ SensorTypes /\ ConfNumbers /\ ConfInside /\ ResultsOwn
    /\ \A t \in Callers : pc[t] \in {"lock", "in"} => AnswerWork(t)

LEMMA DevicesOf == \A f \in Sensors!Fns : Sensors!Device(f) \in Sensors!Devices
  BY DEF Sensors!Devices

LEMMA FreeIsNone == "free" \notin Callers
  BY SensorsAssumption DEF Sensors!SensorBusAssumption, Sensors!Free

LEMMA LaterGivesBack == Sensors!GivesBack = LaterFns
  BY DEF Sensors!GivesBack, LaterFns, Modules

LEMMA NoJobIsJob == Sensors!NoJob \in SensorJobs
  BY FunctionNames DEF Sensors!NoJob, Sensors!Job, SensorJobs, Sensors!UNREAD

LEMMA AnswerInit == Sensors!Init => SensorsWork
<1> SUFFICES ASSUME Sensors!Init PROVE SensorsWork
  OBVIOUS
<1>2. SensorTypes
  BY NoJobIsJob, SensorsAssumption DEF Sensors!Init, SensorTypes, Sensors!OneOnTheBus, Sensors!Free,
     Sensors!SensorBusAssumption, Sensors!Nobody, CallNumbers
<1>3. ConfNumbers /\ ConfInside
  BY SensorsAssumption DEF Sensors!Init, ConfNumbers, ConfInside, Sensors!Nobody, Sensors!Free,
     Sensors!SensorBusAssumption
<1>. QED
  BY <1>2, <1>3 DEF Sensors!Init, SensorsWork, ResultsOwn, Sensors!NoResult

LEMMA AnswerCall ==
  ASSUME SensorsWork, NEW t \in Callers, NEW f \in Sensors!Fns, Sensors!Call(t, f)
  PROVE  SensorsWork'
<1>1. /\ pc[t] = "out" /\ pc' = [pc EXCEPT ![t] = "lock"] /\ left[t] > 0
      /\ job' = [job EXCEPT ![t] = Sensors!Job(f, left[t])]
      /\ left' = [left EXCEPT ![t] = @ - 1]
      /\ UNCHANGED <<lock, last, conf, res>>
  BY DEF Sensors!Call, Sensors!Goto
<1>2. Placed(f)
  BY AllPlaced
<1>3. /\ Sensors!Job(f, left[t]) \in SensorJobs
      /\ Sensors!Job(f, left[t]).fn = f /\ Sensors!Job(f, left[t]).n = left[t]
      /\ Sensors!Job(f, left[t]).x = 1 /\ Sensors!Job(f, left[t]).s = 1
      /\ Sensors!Job(f, left[t]).foreign = FALSE /\ Sensors!Job(f, left[t]).seen = {}
  BY DEF SensorsWork, SensorTypes, Sensors!Job, SensorJobs, Sensors!UNREAD
<1>4. SensorTypes'
  BY <1>1, <1>3 DEF SensorsWork, SensorTypes, Sensors!OneOnTheBus
<1>5. ConfNumbers' /\ ConfInside'
  BY <1>1, <1>3 DEF SensorsWork, SensorTypes, ConfNumbers, ConfInside, Sensors!Me, CallNumbers
<1>6. ASSUME NEW u \in Callers, u # t, pc'[u] \in {"lock", "in"} PROVE AnswerWork(u)'
  BY <1>1, <1>6 DEF SensorsWork, SensorTypes, AnswerWork, Sensors!Me, Sensors!Dev
<1>7. AnswerWork(t)'
  <2>1. /\ job'[t] = Sensors!Job(f, left[t]) /\ pc'[t] = "lock"
        /\ left[t] \in Nat /\ left'[t] = left[t] - 1
    BY <1>1 DEF SensorsWork, SensorTypes
  <2>2. job'[t].s \in 1 .. Len(Sensors!Sessions[f])
    BY <1>2, <1>3, <2>1 DEF Placed
  <2>3. job'[t].n = left'[t] + 1
    BY <1>3, <2>1
  <2>. QED
    BY <1>3, <2>1, <2>2, <2>3 DEF AnswerWork
<1>. QED
  BY <1>1, <1>4, <1>5, <1>6, <1>7 DEF SensorsWork, ResultsOwn

\* The record of a thread in a function, field by field.
LEMMA JobFields ==
  ASSUME NEW j \in SensorJobs
  PROVE  /\ j = [fn |-> j.fn, s |-> j.s, x |-> j.x, n |-> j.n, head |-> j.head,
                 foreign |-> j.foreign, overtaken |-> j.overtaken, seen |-> j.seen]
         /\ j.fn \in Sensors!Fns /\ j.s \in Nat /\ j.x \in Nat /\ j.n \in Nat
         /\ j.head \in 0 .. 3 /\ j.foreign \in BOOLEAN /\ j.overtaken \in BOOLEAN
         /\ j.seen \in SUBSET CallNumbers
  BY DEF SensorJobs

\* A session after the first is one of a function that gives the bus back.
LEMMA LaterSession ==
  ASSUME NEW f \in Sensors!Fns, NEW s \in 1 .. Len(Sensors!Sessions[f]), s > 1
  PROVE  f \in LaterFns /\ f \in AskFns /\ f \notin SwitchFns
<1>1. PICK L : L = Len(Sensors!Sessions[f])
  OBVIOUS
<1>2. s \in 1 .. L
  BY <1>1, Zenon
<1>3. L \in Nat /\ (f \notin LaterFns => L = 1)
  BY <1>1, AllPlaced DEF Placed
<1>. QED
  BY <1>2, <1>3, Disjoint

LEMMA AnswerAcquire ==
  ASSUME SensorsWork, NEW t \in Callers, Sensors!i2c_acquire(t)
  PROVE  SensorsWork'
<1>1. /\ pc[t] = "lock" /\ lock = "free" /\ lock' = t /\ pc' = [pc EXCEPT ![t] = "in"]
      /\ job' = [job EXCEPT ![t].overtaken = @ \/ Sensors!OvertakenNow(t)]
      /\ UNCHANGED <<last, conf, res, left>>
  BY DEF Sensors!i2c_acquire, Sensors!Goto, Sensors!Free
<1>2. PICK o \in BOOLEAN : o = (job[t].overtaken \/ Sensors!OvertakenNow(t))
  OBVIOUS
<1>3. AnswerWork(t) /\ job \in [Callers -> SensorJobs] /\ job[t] \in SensorJobs
  BY <1>1 DEF SensorsWork, SensorTypes
<1>4. /\ job'[t].fn = job[t].fn /\ job'[t].s = job[t].s /\ job'[t].n = job[t].n
      /\ job'[t].x = job[t].x /\ job'[t].foreign = job[t].foreign
      /\ job'[t].seen = job[t].seen /\ job'[t].overtaken = o
      /\ \A u \in Callers : u # t => job'[u] = job[u] /\ pc'[u] = pc[u]
      /\ job' \in [Callers -> SensorJobs]
  <2>1. job' = [job EXCEPT ![t].overtaken = o]
    BY <1>1, <1>2
  <2>. QED
    BY <1>1, <1>3, <2>1 DEF SensorJobs, SensorsWork, SensorTypes
<1>5. SensorTypes'
  BY <1>1, <1>4, FreeIsNone DEF SensorsWork, SensorTypes, Sensors!OneOnTheBus
<1>6. \A u \in Callers : /\ Sensors!Me(u)' = Sensors!Me(u) /\ job'[u].fn = job[u].fn
                         /\ Sensors!Dev(u)' = Sensors!Dev(u)
  BY <1>4 DEF Sensors!Me, Sensors!Dev
<1>7. ConfNumbers' /\ ConfInside'
  BY <1>1, <1>4, <1>6 DEF SensorsWork, SensorTypes, ConfNumbers, ConfInside
<1>8. ASSUME NEW u \in Callers, u # t, pc'[u] \in {"lock", "in"} PROVE AnswerWork(u)'
  BY <1>1, <1>4, <1>6, <1>8 DEF SensorsWork, AnswerWork
<1>9. AnswerWork(t)'
  <2>1. job[t].x = 1 /\ job[t].seen = {} /\ pc'[t] = "in" /\ job[t].s \in Nat
    BY <1>1, <1>3 DEF AnswerWork, SensorsWork, SensorTypes, SensorJobs
  <2>2. job[t].s > 1 /\ ~ o => last[Sensors!Dev(t)].by = Sensors!Me(t)
    <3>1. job[t].fn \in Sensors!Fns /\ job[t].s \in 1 .. Len(Sensors!Sessions[job[t].fn])
      BY <1>3 DEF AnswerWork, SensorJobs
    <3>2. job[t].s > 1 => job[t].fn \in Sensors!GivesBack
      BY <3>1, LaterSession, LaterGivesBack
    <3>. QED
      BY <1>2, <3>2 DEF Sensors!OvertakenNow
  <2>3. job[t].foreign => o
    BY <1>2, <1>3 DEF AnswerWork
  <2>. QED
    BY <1>1, <1>3, <1>4, <1>6, <2>1, <2>2, <2>3 DEF AnswerWork
<1>. QED
  BY <1>1, <1>5, <1>7, <1>8, <1>9 DEF SensorsWork, ResultsOwn

\* What the transfer a thread is at can be.
LEMMA AtTransfer ==
  ASSUME SensorsWork, NEW t \in Callers, pc[t] = "in", job[t].x <= Len(Sensors!Session(t))
  PROVE  /\ job[t].fn \in Sensors!Fns /\ Sensors!Dev(t) \in Sensors!Devices
         /\ Place(job[t].fn, Sensors!Transfer(t))
         /\ job[t].s = 1 /\ job[t].x = 1 => Begins(job[t].fn, Sensors!Transfer(t))
         /\ job[t].fn \notin LaterFns => job[t].s = 1
<1>1. AnswerWork(t) /\ job[t].fn \in Sensors!Fns /\ job[t].x \in Nat /\ job[t].s \in Nat
  BY DEF SensorsWork, SensorTypes, SensorJobs
<1>2. Placed(job[t].fn)
  BY <1>1, AllPlaced
<1>3. job[t].s \in 1 .. Len(Sensors!Sessions[job[t].fn]) /\ job[t].x > 0
  BY <1>1 DEF AnswerWork
<1>. QED
  BY <1>1, <1>2, <1>3, DevicesOf, SMTT(30) DEF Placed, Sensors!Transfer, Sensors!Session, Sensors!Dev

\* Another thread waits while t has the bus, and knows nothing of its device.
LEMMA OthersKept ==
  ASSUME SensorsWork, NEW t \in Callers, NEW u \in Callers, u # t, pc[t] = "in",
         pc[u] \in {"lock", "in"}, job'[u] = job[u], pc'[u] = pc[u], left' = left
  PROVE  AnswerWork(u)'
<1>1. pc[u] = "lock" /\ AnswerWork(u)
  BY DEF SensorsWork, SensorTypes, Sensors!OneOnTheBus
<1>. QED
  BY <1>1 DEF AnswerWork

\* The configurations after a transfer of t.
LEMMA ConfAfter ==
  ASSUME SensorsWork, NEW t \in Callers, pc[t] = "in", job[t].x <= Len(Sensors!Session(t)),
         Sensors!Device_takes(t, Sensors!Transfer(t)) \/ UNCHANGED <<last, conf>>,
         left' = left
  PROVE  /\ conf' \in [Sensors!Devices -> CallNumbers] /\ DOMAIN last' = Sensors!Devices
         /\ ConfNumbers'
         /\ \A d \in Sensors!Devices : conf'[d] # conf[d] => /\ conf'[d] = Sensors!Me(t)
                                                            /\ job[t].fn \in SwitchFns
<1>1. Sensors!Dev(t) \in Sensors!Devices /\ Place(job[t].fn, Sensors!Transfer(t))
  BY AtTransfer
<1>2. Sensors!Me(t) \in CallNumbers /\ Sensors!Me(t)[1] = t /\ Sensors!Me(t)[2] > left[t]
  BY SMTT(30) DEF SensorsWork, SensorTypes, SensorJobs, AnswerWork, Sensors!Me, CallNumbers
<1>3. Sensors!Transfer(t).op = "conf" => job[t].fn \in SwitchFns
  BY <1>1 DEF Place
<1>4. \/ conf' = conf
      \/ conf' = [conf EXCEPT ![Sensors!Dev(t)] = Sensors!Me(t)] /\ job[t].fn \in SwitchFns
  BY <1>3 DEF Sensors!Device_takes
<1>5. DOMAIN last' = Sensors!Devices
  BY DEF Sensors!Device_takes, SensorsWork, SensorTypes
<1>6. conf' \in [Sensors!Devices -> CallNumbers]
  BY <1>1, <1>2, <1>4 DEF SensorsWork, SensorTypes
<1>7. \A d \in Sensors!Devices : conf'[d] # conf[d] => /\ conf'[d] = Sensors!Me(t)
                                                      /\ job[t].fn \in SwitchFns
  BY <1>1, <1>4 DEF SensorsWork, SensorTypes
<1>8. ConfNumbers'
  BY <1>2, <1>7 DEF SensorsWork, SensorTypes, ConfNumbers
<1>. QED
  BY <1>5, <1>6, <1>7, <1>8

LEMMA AnswerTransferOk ==
  ASSUME SensorsWork, NEW t \in Callers, Sensors!transfer_ok(t)
  PROVE  SensorsWork'
<1> DEFINE x == Sensors!Transfer(t)
           d == Sensors!Dev(t)
           me == Sensors!Me(t)
<1>1. /\ pc[t] = "in" /\ job[t].x <= Len(Sensors!Session(t))
      /\ Sensors!Device_takes(t, x) /\ UNCHANGED <<lock, pc, res, left>>
  BY DEF Sensors!transfer_ok
<1>2. PICK h \in Sensors!Heads(t, x) :
        job' = [job EXCEPT ![t].x = @ + 1, ![t].head = h,
                  ![t].foreign = @ \/ (x.op \in {"read", "head"} /\ last[d].by # me)
                                   \/ (x.op = "reg" /\ Sensors!BeingConfigured(d, t)),
                  ![t].seen = IF x.op = "reg" THEN @ \cup {conf[d]} ELSE @]
  BY DEF Sensors!transfer_ok
<1>3. AnswerWork(t) /\ job \in [Callers -> SensorJobs]
  BY <1>1 DEF SensorsWork, SensorTypes
<1>4. /\ job[t].fn \in Sensors!Fns /\ d \in Sensors!Devices /\ Place(job[t].fn, x)
      /\ job[t].s = 1 /\ job[t].x = 1 => Begins(job[t].fn, x)
      /\ job[t].fn \notin LaterFns => job[t].s = 1
  BY <1>1, AtTransfer
<1>5. h \in 0 .. 3
  BY <1>2, <1>3 DEF Sensors!Heads, Sensors!answer, Sensors!SUCCESS, Sensors!SUCCESS_WITH_DATA,
     Sensors!FAILED, SensorJobs
<1>6. x.op \in {"read", "head"} /\ last[d].by # me => job[t].overtaken
  BY <1>1, <1>3, <1>4 DEF AnswerWork, Place, Begins, SensorJobs
<1>7. ~ Sensors!BeingConfigured(d, t)
  BY <1>1, <1>4, SMTT(30) DEF Sensors!BeingConfigured, SensorsWork, SensorTypes,
     Sensors!OneOnTheBus, ConfInside
<1>8. PICK g \in BOOLEAN :
        /\ g => job[t].overtaken
        /\ job' = [job EXCEPT ![t].x = @ + 1, ![t].head = h, ![t].foreign = g,
                     ![t].seen = IF x.op = "reg" THEN @ \cup {conf[d]} ELSE @]
  <2>1. PICK g \in BOOLEAN :
          g = (\/ job[t].foreign
               \/ (x.op \in {"read", "head"} /\ last[d].by # me)
               \/ (x.op = "reg" /\ Sensors!BeingConfigured(d, t)))
    OBVIOUS
  <2>2. g => job[t].overtaken
    BY <1>3, <1>6, <1>7, <2>1 DEF AnswerWork
  <2> HIDE DEF x, d, me
  <2>3. job' = [job EXCEPT ![t].x = @ + 1, ![t].head = h, ![t].foreign = g,
                  ![t].seen = IF x.op = "reg" THEN @ \cup {conf[d]} ELSE @]
    BY <1>2, <1>3, <2>1 DEF SensorJobs
  <2>. QED
    BY <2>2, <2>3
<1>9. /\ job'[t].fn = job[t].fn /\ job'[t].s = job[t].s /\ job'[t].n = job[t].n
      /\ job'[t].x = job[t].x + 1
      /\ job'[t].foreign = g /\ job'[t].overtaken = job[t].overtaken
      /\ job'[t].seen = IF x.op = "reg" THEN job[t].seen \cup {conf[d]} ELSE job[t].seen
      /\ \A u \in Callers : u # t => job'[u] = job[u]
      /\ job' \in [Callers -> SensorJobs]
  <2>1. conf[d] \in CallNumbers
    BY <1>4 DEF SensorsWork, SensorTypes
  <2>2. job[t] \in SensorJobs /\ job[t].seen \subseteq CallNumbers
    BY <1>3 DEF SensorJobs
  <2>3. PICK S \in SUBSET CallNumbers :
          S = IF x.op = "reg" THEN job[t].seen \cup {conf[d]} ELSE job[t].seen
    BY <2>1, <2>2
  <2>4. PICK r : r = [job[t] EXCEPT !.x = @ + 1, !.head = h, !.foreign = g, !.seen = S]
    OBVIOUS
  <2>5. job' = [job EXCEPT ![t] = r]
    <3> HIDE DEF x, d, me
    <3>. QED
      BY <1>3, <1>8, <2>3, <2>4
  <2>6. /\ r \in SensorJobs /\ r.fn = job[t].fn /\ r.s = job[t].s /\ r.n = job[t].n
        /\ r.x = job[t].x + 1 /\ r.foreign = g /\ r.overtaken = job[t].overtaken /\ r.seen = S
    <3>1. r = [fn |-> job[t].fn, s |-> job[t].s, x |-> job[t].x + 1, n |-> job[t].n, head |-> h,
               foreign |-> g, overtaken |-> job[t].overtaken, seen |-> S]
      <4>1. PICK j \in SensorJobs : j = job[t]
        BY <2>2
      <4>2. j = [fn |-> j.fn, s |-> j.s, x |-> j.x, n |-> j.n, head |-> j.head,
                 foreign |-> j.foreign, overtaken |-> j.overtaken, seen |-> j.seen]
        BY JobFields
      <4>3. r = [j EXCEPT !.x = @ + 1, !.head = h, !.foreign = g, !.seen = S]
        BY <2>4, <4>1
      <4>4. r = [fn |-> j.fn, s |-> j.s, x |-> j.x + 1, n |-> j.n, head |-> h,
                 foreign |-> g, overtaken |-> j.overtaken, seen |-> S]
        BY <4>2, <4>3
      <4>. QED
        BY <4>1, <4>4
    <3>2. job[t].x + 1 \in Nat
      BY <2>2, JobFields
    <3>3. r \in SensorJobs
      BY <1>5, <2>2, <3>1, <3>2, JobFields DEF SensorJobs
    <3>. QED
      BY <3>1, <3>3
  <2>7. /\ job'[t] = r /\ \A u \in Callers : u # t => job'[u] = job[u]
        /\ job' \in [Callers -> SensorJobs]
    BY <1>3, <2>5, <2>6
  <2>. QED
    BY <2>3, <2>6, <2>7
<1>10. /\ conf' \in [Sensors!Devices -> CallNumbers] /\ DOMAIN last' = Sensors!Devices
       /\ ConfNumbers'
       /\ \A e \in Sensors!Devices : conf'[e] # conf[e] =>
                                     conf'[e] = me /\ job[t].fn \in SwitchFns
  BY <1>1, ConfAfter
<1>11. SensorTypes'
  BY <1>1, <1>9, <1>10 DEF SensorsWork, SensorTypes, Sensors!OneOnTheBus
<1>12. ConfInside'
  <2>1. \A u \in Callers : Sensors!Me(u)' = Sensors!Me(u) /\ job'[u].fn = job[u].fn
    BY <1>9 DEF Sensors!Me
  <2>2. \A u \in Callers : u # t => Sensors!Me(u) # me
    BY DEF Sensors!Me
  <2>. QED
    BY <1>1, <1>10, <2>1, <2>2 DEF SensorsWork, ConfInside
<1>13. AnswerWork(t)'
  <2>1. Sensors!Dev(t)' = d /\ Sensors!Me(t)' = me
    BY <1>9 DEF Sensors!Dev, Sensors!Me
  <2>2. job[t].fn \in AskFns /\ ~ job[t].overtaken => last'[d].by = me
    BY <1>1, <1>3, <1>4 DEF AnswerWork, Begins, Sensors!Device_takes, SensorsWork, SensorTypes,
       SensorJobs
  <2>3. job[t].fn \in SwitchFns => conf'[d] = me
    <3>1. CASE job[t].x = 1 /\ job[t].fn \in SwitchFns
      <4>1. x.op = "conf"
        BY <1>4, <3>1, Disjoint DEF Begins
      <4>. QED
        BY <1>1, <1>4, <4>1 DEF Sensors!Device_takes, SensorsWork, SensorTypes
    <3>2. CASE job[t].x # 1
      BY <1>3, <1>4, <1>10, <3>2 DEF AnswerWork, SensorJobs
    <3>. QED
      BY <3>1, <3>2
  <2>4. job'[t].seen \subseteq {conf'[d]}
    <3>1. job'[t].seen \subseteq {conf[d]}
      BY <1>1, <1>3, <1>9 DEF AnswerWork
    <3>2. CASE conf'[d] = conf[d]
      BY <3>1, <3>2
    <3>3. CASE conf'[d] # conf[d]
      <4>1. job[t].fn \in SwitchFns /\ conf'[d] = me
        BY <1>4, <1>10, <3>3
      <4>2. job[t].x = 1
        BY <1>3, <3>3, <4>1 DEF AnswerWork, SensorJobs
      <4>3. x.op = "conf"
        BY <1>4, <3>3, <1>1 DEF Sensors!Device_takes
      <4>. QED
        BY <1>3, <1>9, <4>2, <4>3 DEF AnswerWork
    <3>. QED
      BY <3>2, <3>3
  <2>. QED
    <3>1. job[t].fn \in LaterFns => job'[t].seen = {}
      BY <1>3, <1>4, <1>9 DEF AnswerWork, Place
    <3>2. job'[t].x > 0 /\ job'[t].x # 1 /\ pc'[t] = "in" /\ left' = left
      BY <1>1, <1>3, <1>9 DEF AnswerWork, SensorJobs
    <3> HIDE DEF x, d, me
    <3>. QED
      BY <1>3, <1>8, <1>9, <2>1, <2>2, <2>3, <2>4, <3>1, <3>2 DEF AnswerWork
<1>14. \A u \in Callers : u # t /\ pc'[u] \in {"lock", "in"} => AnswerWork(u)'
  BY <1>1, <1>9, OthersKept
<1>. QED
  BY <1>1, <1>11, <1>10, <1>12, <1>13, <1>14 DEF SensorsWork, ResultsOwn

LEMMA AnswerTransferFails ==
  ASSUME SensorsWork, NEW t \in Callers, Sensors!transfer_fails(t)
  PROVE  SensorsWork'
<1> DEFINE x == Sensors!Transfer(t)
           d == Sensors!Dev(t)
           me == Sensors!Me(t)
<1>1. /\ pc[t] = "in" /\ job[t].x <= Len(Sensors!Session(t)) /\ left' = left
      /\ Sensors!Device_takes(t, x) \/ UNCHANGED <<last, conf>>
  BY DEF Sensors!transfer_fails
<1>2. /\ d \in Sensors!Devices /\ Place(job[t].fn, x)
      /\ job[t].s = 1 /\ job[t].x = 1 => Begins(job[t].fn, x)
      /\ job[t].fn \notin LaterFns => job[t].s = 1
  BY <1>1, AtTransfer
<1>3. AnswerWork(t) /\ job \in [Callers -> SensorJobs]
  BY <1>1 DEF SensorsWork, SensorTypes
<1>4. /\ conf' \in [Sensors!Devices -> CallNumbers] /\ DOMAIN last' = Sensors!Devices
      /\ ConfNumbers'
      /\ \A e \in Sensors!Devices : conf'[e] # conf[e] =>
                                     conf'[e] = me /\ job[t].fn \in SwitchFns
  BY <1>1, ConfAfter
<1>5. \A u \in Callers : u # t => Sensors!Me(u) # me
  BY DEF Sensors!Me
<1> HIDE DEF x, d, me
<1>6. CASE x.op = "trigger"
  <2>1. job' = [job EXCEPT ![t].x = @ + 1] /\ UNCHANGED <<lock, pc, res>>
    BY <1>2, <1>6 DEF Sensors!transfer_fails, Place, x
  <2>2. UNCHANGED <<last, conf>>
    BY <1>1, <1>6 DEF Sensors!Device_takes
  <2>3. /\ job'[t].fn = job[t].fn /\ job'[t].s = job[t].s /\ job'[t].n = job[t].n
        /\ job'[t].x = job[t].x + 1 /\ job'[t].foreign = job[t].foreign
        /\ job'[t].seen = job[t].seen /\ job'[t].overtaken = job[t].overtaken
        /\ \A u \in Callers : u # t => job'[u] = job[u]
        /\ job' \in [Callers -> SensorJobs]
    BY <1>3, <2>1 DEF SensorJobs
  <2>4. SensorTypes'
    BY <1>1, <2>1, <2>2, <2>3 DEF SensorsWork, SensorTypes, Sensors!OneOnTheBus
  <2>5. \A u \in Callers : /\ Sensors!Me(u)' = Sensors!Me(u) /\ job'[u].fn = job[u].fn
                           /\ Sensors!Dev(u)' = Sensors!Dev(u)
    BY <2>3 DEF Sensors!Me, Sensors!Dev
  <2>6. ConfInside'
    BY <2>1, <2>2, <2>5 DEF SensorsWork, ConfInside
  <2>7. AnswerWork(t)'
    <3>1. job[t].s > 1 \/ job[t].x > 1 \/ job[t].fn \notin AskFns
      BY <1>2, <1>3, <1>6 DEF Begins, AnswerWork, SensorJobs
    <3>2. job[t].fn \in SwitchFns => job[t].x > 1
      BY <1>2, <1>3, <1>6, Disjoint DEF Begins, AnswerWork, SensorJobs
    <3>3. job'[t].x > 0 /\ job'[t].x # 1 /\ pc'[t] = "in"
      BY <1>1, <1>3, <2>1, <2>3 DEF AnswerWork, SensorJobs
    <3>. QED
      BY <1>1, <1>3, <2>1, <2>2, <2>3, <2>5, <3>1, <3>2, <3>3 DEF AnswerWork
  <2>8. \A u \in Callers : u # t /\ pc'[u] \in {"lock", "in"} => AnswerWork(u)'
    BY <1>1, <2>1, <2>2, <2>3, OthersKept
  <2>. QED
    BY <1>4, <2>1, <2>4, <2>6, <2>7, <2>8 DEF SensorsWork, ResultsOwn
<1>7. CASE x.op # "trigger"
  <2>1. lock' = "free" /\ Sensors!Return(t, "error")
    BY <1>2, <1>7 DEF Sensors!transfer_fails, Place, x, Sensors!bus_after_error, Sensors!Free
  <2>2. /\ job' = [job EXCEPT ![t] = Sensors!NoJob] /\ pc' = [pc EXCEPT ![t] = "out"]
        /\ DOMAIN res' = DOMAIN res /\ \A u \in Callers : u # t => res'[u] = res[u]
        /\ res'[t].ret # "ok"
    BY <2>1 DEF Sensors!Return, Sensors!Goto, SensorsWork, SensorTypes
  <2>3. \A u \in Callers : u # t => job'[u] = job[u] /\ pc'[u] = pc[u]
    BY <2>2 DEF SensorsWork, SensorTypes
  <2>4. SensorTypes'
    BY <1>1, <1>4, <2>1, <2>2, FreeIsNone, NoJobIsJob
    DEF SensorsWork, SensorTypes, Sensors!OneOnTheBus
  <2>5. ConfInside'
    <3>1. \A u \in Callers : u # t => Sensors!Me(u)' = Sensors!Me(u)
      BY <2>3 DEF Sensors!Me
    <3>2. pc'[t] = "out"
      BY <2>2 DEF SensorsWork, SensorTypes
    <3>. QED
      BY <1>4, <1>5, <2>3, <3>1, <3>2 DEF SensorsWork, ConfInside
  <2>6. \A u \in Callers : pc'[u] \in {"lock", "in"} => u # t /\ AnswerWork(u)'
    BY <1>1, <2>2, <2>3, OthersKept DEF SensorsWork, SensorTypes
  <2>7. ResultsOwn'
    BY <2>2 DEF SensorsWork, ResultsOwn
  <2>. QED
    BY <1>4, <2>4, <2>5, <2>6, <2>7 DEF SensorsWork
<1>. QED
  BY <1>6, <1>7

LEMMA AnswerRelease ==
  ASSUME SensorsWork, NEW t \in Callers, Sensors!i2c_release(t)
  PROVE  SensorsWork'
<1> DEFINE d == Sensors!Dev(t)
<1>1. /\ pc[t] = "in" /\ job[t].x > Len(Sensors!Session(t)) /\ lock' = "free"
      /\ UNCHANGED <<last, conf, left>>
  BY DEF Sensors!i2c_release, Sensors!Free
<1>2. AnswerWork(t) /\ job \in [Callers -> SensorJobs] /\ Placed(job[t].fn)
  BY <1>1, AllPlaced DEF SensorsWork, SensorTypes, SensorJobs
<1>3. ConfNumbers'
  BY <1>1 DEF SensorsWork, ConfNumbers
<1>4. CASE \E ret : Sensors!Return(t, ret)
  <2>1. /\ job' = [job EXCEPT ![t] = Sensors!NoJob] /\ pc' = [pc EXCEPT ![t] = "out"]
        /\ DOMAIN res' = DOMAIN res /\ \A u \in Callers : u # t => res'[u] = res[u]
        /\ res'[t].foreign = job[t].foreign /\ res'[t].seen = job[t].seen
        /\ res'[t].overtaken = job[t].overtaken
    BY <1>4 DEF Sensors!Return, Sensors!Goto, SensorsWork, SensorTypes
  <2>2. \A u \in Callers : u # t => job'[u] = job[u] /\ pc'[u] = pc[u]
    BY <2>1 DEF SensorsWork, SensorTypes
  <2>3. SensorTypes'
    BY <1>1, <2>1, FreeIsNone, NoJobIsJob DEF SensorsWork, SensorTypes, Sensors!OneOnTheBus
  <2>4. ConfInside'
    <3>1. \A u \in Callers : u # t => Sensors!Me(u)' = Sensors!Me(u)
      BY <2>2 DEF Sensors!Me
    <3>2. pc'[t] = "out"
      BY <2>1 DEF SensorsWork, SensorTypes
    <3>. QED
      BY <1>1, <2>2, <3>1, <3>2 DEF SensorsWork, ConfInside
  <2>5. \A u \in Callers : pc'[u] \in {"lock", "in"} => u # t /\ AnswerWork(u)'
    BY <1>1, <2>1, <2>2, OthersKept DEF SensorsWork, SensorTypes
  <2>6. ResultsOwn'
    BY <1>1, <1>2, <2>1 DEF SensorsWork, ResultsOwn, AnswerWork
  <2>. QED
    BY <1>3, <2>3, <2>4, <2>5, <2>6 DEF SensorsWork
<1>5. CASE ~ \E ret : Sensors!Return(t, ret)
  <2>1. /\ job' = [job EXCEPT ![t].s = @ + 1, ![t].x = 1,
                               ![t].head = 0]
        /\ job[t].s < Len(Sensors!Sessions[job[t].fn])
        /\ pc' = [pc EXCEPT ![t] = "lock"] /\ UNCHANGED res
    BY <1>5 DEF Sensors!i2c_release, Sensors!more_sessions, Sensors!Goto, Sensors!UNREAD
  <2>2. /\ job'[t].fn = job[t].fn /\ job'[t].s = job[t].s + 1 /\ job'[t].n = job[t].n
        /\ job'[t].x = 1 /\ job'[t].foreign = job[t].foreign /\ job'[t].seen = job[t].seen
        /\ job'[t].overtaken = job[t].overtaken
        /\ \A u \in Callers : u # t => job'[u] = job[u] /\ pc'[u] = pc[u]
        /\ job' \in [Callers -> SensorJobs]
    <3>2. PICK r : r = [job[t] EXCEPT !.s = @ + 1, !.x = 1, !.head = 0]
      OBVIOUS
    <3>3. job[t] \in SensorJobs
      BY <1>2
    <3>4. r = [fn |-> job[t].fn, s |-> job[t].s + 1, x |-> 1, n |-> job[t].n, head |-> 0,
               foreign |-> job[t].foreign, overtaken |-> job[t].overtaken,
               seen |-> job[t].seen]
      <4>1. PICK j \in SensorJobs : j = job[t]
        BY <3>3
      <4>2. j = [fn |-> j.fn, s |-> j.s, x |-> j.x, n |-> j.n, head |-> j.head,
                 foreign |-> j.foreign, overtaken |-> j.overtaken, seen |-> j.seen]
        BY JobFields
      <4>3. r = [j EXCEPT !.s = @ + 1, !.x = 1, !.head = 0]
        BY <3>2, <4>1
      <4>4. r = [fn |-> j.fn, s |-> j.s + 1, x |-> 1, n |-> j.n, head |-> 0,
                 foreign |-> j.foreign, overtaken |-> j.overtaken, seen |-> j.seen]
        BY <4>2, <4>3
      <4>. QED
        BY <4>1, <4>4
    <3>5. job[t].s + 1 \in Nat
      BY <3>3, JobFields
    <3>6. r \in SensorJobs
      BY <3>3, <3>4, <3>5, JobFields DEF SensorJobs
    <3>7. job' = [job EXCEPT ![t] = r]
      BY <1>2, <2>1, <3>2
    <3>8. job'[t] = r /\ job' \in [Callers -> SensorJobs]
      BY <1>2, <3>6, <3>7
    <3>9. \A u \in Callers : u # t => job'[u] = job[u] /\ pc'[u] = pc[u]
      BY <1>2, <2>1, <3>7 DEF SensorsWork, SensorTypes
    <3>. QED
      BY <3>4, <3>8, <3>9
  <2>3. SensorTypes'
    <3>1. pc'[t] = "lock" /\ pc' \in [Callers -> {"out", "lock", "in", "hung"}]
      BY <2>1 DEF SensorsWork, SensorTypes
    <3>2. Sensors!OneOnTheBus'
      BY <1>1, <2>2, <3>1, FreeIsNone DEF SensorsWork, SensorTypes, Sensors!OneOnTheBus
    <3>. QED
      BY <1>1, <2>1, <2>2, <3>1, <3>2 DEF SensorsWork, SensorTypes
  <2>4. job[t].fn \in LaterFns /\ job[t].fn \in AskFns /\ job[t].fn \notin SwitchFns
    <3>1. PICK L : L = Len(Sensors!Sessions[job[t].fn])
      OBVIOUS
    <3>2. L \in Nat /\ job[t].s \in 1 .. L /\ job[t].s < L
      BY <1>2, <2>1, <3>1 DEF Placed, AnswerWork
    <3>3. L # 1
      BY <3>2
    <3>. QED
      BY <1>2, <3>1, <3>3, Disjoint DEF Placed
  <2>5. \A u \in Callers : /\ Sensors!Me(u)' = Sensors!Me(u) /\ job'[u].fn = job[u].fn
                           /\ Sensors!Dev(u)' = Sensors!Dev(u)
    BY <2>2 DEF Sensors!Me, Sensors!Dev
  <2>6. ConfInside'
    BY <1>1, <2>1, <2>2, <2>4, <2>5 DEF SensorsWork, SensorTypes, ConfInside
  <2>7. AnswerWork(t)'
    <3>2. job'[t].s \in 1 .. Len(Sensors!Sessions[job[t].fn]) /\ pc'[t] = "lock"
      <4>1. PICK L : L = Len(Sensors!Sessions[job[t].fn])
        OBVIOUS
      <4>2. L \in Nat /\ job[t].s \in Nat /\ job[t].s < L
        BY <1>2, <2>1, <4>1 DEF Placed, SensorJobs
      <4>3. job'[t].s = job[t].s + 1 /\ pc'[t] = "lock"
        BY <2>1, <2>2 DEF SensorsWork, SensorTypes
      <4>4. job'[t].s \in 1 .. L
        BY <4>2, <4>3
      <4>. QED
        BY <4>1, <4>3, <4>4, Zenon
    <3>. QED
      BY <1>1, <1>2, <2>2, <2>4, <2>5, <3>2 DEF AnswerWork
  <2>8. \A u \in Callers : u # t /\ pc'[u] \in {"lock", "in"} => AnswerWork(u)'
    BY <1>1, <2>2, OthersKept
  <2>. QED
    BY <1>3, <2>1, <2>3, <2>6, <2>7, <2>8 DEF SensorsWork, ResultsOwn
<1>. QED
  BY <1>4, <1>5

\* A read that hangs keeps the bus and ends nothing.
LEMMA AnswerHolds ==
  ASSUME SensorsWork, NEW t \in Callers, Sensors!device_holds(t)
  PROVE  SensorsWork'
<1>1. /\ pc[t] = "in" /\ pc' = [pc EXCEPT ![t] = "hung"]
      /\ UNCHANGED <<lock, job, last, conf, res, left>>
  BY DEF Sensors!device_holds, Sensors!Goto
<1>2. pc'[t] = "hung" /\ \A u \in Callers : u # t => pc'[u] = pc[u]
  BY <1>1 DEF SensorsWork, SensorTypes
<1>3. SensorTypes'
  BY <1>1, <1>2 DEF SensorsWork, SensorTypes, Sensors!OneOnTheBus
<1>4. ConfNumbers' /\ ConfInside' /\ ResultsOwn'
  BY <1>1, <1>2 DEF SensorsWork, ConfNumbers, ConfInside, ResultsOwn, Sensors!Me
<1>5. ASSUME NEW u \in Callers, pc'[u] \in {"lock", "in"} PROVE AnswerWork(u)'
  BY <1>1, <1>2, <1>5 DEF SensorsWork, AnswerWork, Sensors!Me, Sensors!Dev
<1>. QED
  BY <1>3, <1>4, <1>5 DEF SensorsWork

\* The sensors of the composition keep SensorsWork, whatever the pins and the
\* flash do: a behaviour is one of one of the three.
LEMMA SensorsWorkAlways == Spec => [](part = "sensors" => SensorsWork)
<1> DEFINE I == part \in {"pins", "sensors", "flash"} /\ (part = "sensors" => SensorsWork)
<1>1. Init => I
  BY AnswerInit DEF Init
<1>2. I /\ [Next]_vars => I'
  <2> SUFFICES ASSUME I, [Next]_vars PROVE I'
    OBVIOUS
  <2>1. CASE OnSensors(Sensors!Next)
    <3>1. part = "sensors" /\ part' = part /\ Sensors!Next /\ SensorsWork
      BY <2>1 DEF OnSensors
    <3>2. PICK t \in Callers :
            \/ Sensors!Step(t) \/ Sensors!device_holds(t)
            \/ \E f \in Sensors!Fns : Sensors!Call(t, f)
      BY <3>1 DEF Sensors!Next
    <3>3. SensorsWork'
      BY <3>1, <3>2, AnswerCall, AnswerAcquire, AnswerTransferOk, AnswerTransferFails, AnswerRelease,
         AnswerHolds
      DEF Sensors!Step
    <3>. QED
      BY <3>1, <3>3
  <2>2. CASE OnPins(Board!Next) \/ OnFlash(Flash!Next)
    BY <2>2 DEF OnPins, OnFlash
  <2>3. CASE UNCHANGED vars
    <3>1. UNCHANGED <<part, lock, job, res, pc, left, last, conf>>
      BY <2>3 DEF vars, sensorsOnly
    <3>2. /\ SensorTypes => SensorTypes'
          /\ ConfNumbers => ConfNumbers'
          /\ ConfInside => ConfInside'
          /\ ResultsOwn => ResultsOwn'
      BY <3>1 DEF SensorTypes, Sensors!OneOnTheBus, ConfNumbers, ConfInside, ResultsOwn, Sensors!Me
    <3>3. \A t \in Callers : AnswerWork(t) => AnswerWork(t)'
      BY <3>1 DEF AnswerWork, Sensors!Me, Sensors!Dev
    <3>. QED
      BY <3>1, <3>2, <3>3 DEF SensorsWork
  <2>. QED
    BY <2>1, <2>2, <2>3 DEF Next
<1>3. I => (part = "sensors" => SensorsWork)
  OBVIOUS
<1>. QED
  BY <1>1, <1>2, <1>3, PTL DEF Spec

-----------------------------------------------------------------------------
(* The flash: as long as no function has gone on after a refused acquire,   *)
(* who is in a function's steps has the mutex, and made the last transfer.  *)

FlashPlaces == {"out", "acquire", "lock", "in", "release"}
OnSpi == {"in", "release"}

FlashTypes ==
    /\ pc \in [Callers -> FlashPlaces]
    /\ i \in [Callers -> Nat \ {0}] /\ mixed \in [Callers -> BOOLEAN]
    /\ DOMAIN res = Callers /\ unheld \in BOOLEAN

\* A function that has not begun its steps has made none; one that has followed
\* its own transfers.
InARow(t) ==
    /\ pc[t] \in {"acquire", "lock"} => i[t] = 1 /\ ~ mixed[t]
    /\ pc[t] = "in" => ~ mixed[t] /\ (i[t] > 1 => lastby = t)

FlashHeld == \A t \in Callers : pc[t] \in OnSpi => state = TRUE
FlashInARow ==
    \A t \in Callers : InARow(t) /\ (res[t].ret = "ok" => ~ res[t].mixed)

FlashWork ==
    FlashTypes /\ (~ unheld => Flash!ExclusiveBus /\ FlashHeld /\ FlashInARow)

LEMMA FlashInit == Flash!Init => FlashWork
<1> SUFFICES ASSUME Flash!Init PROVE FlashWork
  OBVIOUS
<1>1. FlashTypes
  <2>1. unheld \in BOOLEAN /\ mixed \in [Callers -> BOOLEAN] /\ DOMAIN res = Callers
    BY Zenon DEF Flash!Init
  <2>2. pc \in [Callers -> FlashPlaces] /\ i \in [Callers -> Nat \ {0}]
    BY DEF Flash!Init, FlashPlaces
  <2>. QED
    BY <2>1, <2>2 DEF FlashTypes
<1>2. \A t \in Callers : pc[t] = "out" /\ res[t].ret = "none"
  BY DEF Flash!Init
<1>3. Flash!ExclusiveBus
  BY <1>2 DEF Flash!Init, Flash!ExclusiveBus
<1>4. FlashHeld /\ FlashInARow
  BY <1>2 DEF FlashHeld, FlashInARow, InARow, OnSpi
<1>. QED
  BY <1>1, <1>3, <1>4 DEF FlashWork

\* What holds of threads other than the one that steps.
LEMMA FlashOthers ==
  ASSUME FlashTypes, NEW t \in Callers, NEW l \in FlashPlaces, pc' = [pc EXCEPT ![t] = l]
  PROVE  /\ pc' \in [Callers -> FlashPlaces] /\ pc'[t] = l
         /\ \A u \in Callers : u # t => pc'[u] = pc[u]
  BY DEF FlashTypes

LEMMA FlashCall ==
  ASSUME FlashWork, NEW t \in Callers, NEW f \in Flash!Fns, Flash!Call(t, f)
  PROVE  FlashWork'
<1>1. /\ pc' = [pc EXCEPT ![t] = "acquire"] /\ i' = [i EXCEPT ![t] = 1]
      /\ mixed' = [mixed EXCEPT ![t] = FALSE]
      /\ UNCHANGED <<state, panicked, lastby, res, unheld>>
  BY DEF Flash!Call, Flash!Goto
<1>2. /\ pc' \in [Callers -> FlashPlaces] /\ pc'[t] = "acquire"
      /\ \A u \in Callers : u # t => pc'[u] = pc[u]
  BY <1>1, FlashOthers DEF FlashWork, FlashPlaces
<1>3. /\ i' \in [Callers -> Nat \ {0}] /\ mixed' \in [Callers -> BOOLEAN]
      /\ i'[t] = 1 /\ mixed'[t] = FALSE
      /\ \A u \in Callers : u # t => i'[u] = i[u] /\ mixed'[u] = mixed[u]
  BY <1>1 DEF FlashWork, FlashTypes
<1>. QED
  BY <1>1, <1>2, <1>3
  DEF FlashWork, FlashTypes, OnSpi, Flash!ExclusiveBus, FlashHeld, FlashInARow, InARow

LEMMA FlashAcquire ==
  ASSUME FlashWork, NEW t \in Callers, Flash!spi_acquire(t)
  PROVE  FlashWork'
<1>1. pc[t] = "acquire" /\ UNCHANGED <<state, panicked, fn, i, lastby, mixed, left>>
  BY DEF Flash!spi_acquire
<1>2. CASE pc' = [pc EXCEPT ![t] = "lock"] /\ UNCHANGED <<res, unheld>>
  <2>1. /\ pc' \in [Callers -> FlashPlaces] /\ pc'[t] = "lock"
        /\ \A u \in Callers : u # t => pc'[u] = pc[u]
    BY <1>2, FlashOthers DEF FlashWork, FlashPlaces
  <2>. QED
    BY <1>1, <1>2, <2>1
    DEF FlashWork, FlashTypes, OnSpi, Flash!ExclusiveBus, FlashHeld, FlashInARow, InARow
<1>3. CASE Flash!Result(t, "error") /\ pc' = [pc EXCEPT ![t] = "out"] /\ UNCHANGED unheld
  <2>1. /\ pc' \in [Callers -> FlashPlaces] /\ pc'[t] = "out"
        /\ \A u \in Callers : u # t => pc'[u] = pc[u]
    BY <1>3, FlashOthers DEF FlashWork, FlashPlaces
  <2>2. /\ DOMAIN res' = Callers /\ res'[t].ret = "error"
        /\ \A u \in Callers : u # t => res'[u] = res[u]
    BY <1>3 DEF Flash!Result, FlashWork, FlashTypes
  <2>. QED
    BY <1>1, <1>3, <2>1, <2>2
    DEF FlashWork, FlashTypes, OnSpi, Flash!ExclusiveBus, FlashHeld, FlashInARow, InARow
<1>4. CASE unheld' = TRUE /\ pc' = [pc EXCEPT ![t] = "in"] /\ UNCHANGED res
  BY <1>1, <1>4 DEF FlashWork, FlashTypes, FlashPlaces
<1>. QED
  BY <1>2, <1>3, <1>4 DEF Flash!spi_acquire, Flash!Goto

LEMMA FlashLock ==
  ASSUME FlashWork, NEW t \in Callers, Flash!mutex_lock(t)
  PROVE  FlashWork'
<1>1. /\ pc[t] = "lock" /\ ~ state /\ state' = TRUE /\ pc' = [pc EXCEPT ![t] = "in"]
      /\ UNCHANGED <<panicked, fn, i, lastby, mixed, res, unheld, left>>
  BY DEF Flash!mutex_lock, Flash!can_lock, Flash!Goto
<1>2. /\ pc' \in [Callers -> FlashPlaces] /\ pc'[t] = "in"
      /\ \A u \in Callers : u # t => pc'[u] = pc[u]
  BY <1>1, FlashOthers DEF FlashWork, FlashPlaces
<1>. QED
  BY <1>1, <1>2
  DEF FlashWork, FlashTypes, OnSpi, Flash!ExclusiveBus, FlashHeld, FlashInARow, InARow

\* A transfer of the thread that has the bus.
LEMMA FlashStep ==
  ASSUME FlashWork, NEW t \in Callers, pc[t] = "in", Flash!Transfers(t),
         i' \in [Callers -> Nat \ {0}], \A u \in Callers : u # t => i'[u] = i[u],
         NEW l \in OnSpi, pc' = [pc EXCEPT ![t] = l],
         DOMAIN res' = Callers, \A u \in Callers : u # t => res'[u] = res[u],
         UNCHANGED <<state, panicked, unheld>>,
         res'[t] = res[t] \/ res'[t].ret = "error"
  PROVE  FlashWork'
<1>1. pc' \in [Callers -> FlashPlaces] /\ pc'[t] = l /\ \A u \in Callers : u # t => pc'[u] = pc[u]
  BY FlashOthers DEF FlashWork, FlashPlaces, OnSpi
<1>2. PICK m \in BOOLEAN : m = (mixed[t] \/ (i[t] > 1 /\ lastby # t))
  OBVIOUS
<1>3. lastby' = t /\ mixed' = [mixed EXCEPT ![t] = m]
  BY <1>2 DEF Flash!Transfers
<1>4. /\ mixed' \in [Callers -> BOOLEAN] /\ mixed'[t] = m
      /\ \A u \in Callers : u # t => mixed'[u] = mixed[u]
  BY <1>3 DEF FlashWork, FlashTypes
<1>5. FlashTypes'
  BY <1>1, <1>4 DEF FlashWork, FlashTypes
<1>6. ASSUME ~ unheld
      PROVE  Flash!ExclusiveBus' /\ FlashHeld' /\ FlashInARow'
  <2>1. Flash!ExclusiveBus /\ FlashHeld /\ FlashInARow
    BY <1>6 DEF FlashWork
  <2>2. m = FALSE
    BY <1>2, <2>1 DEF FlashInARow, InARow
  <2>3. \A u \in Callers : u # t => pc[u] \notin OnSpi
    BY <1>6, <2>1 DEF Flash!ExclusiveBus, OnSpi
  <2>4. Flash!ExclusiveBus' /\ FlashHeld'
    BY <1>1, <1>6, <2>1, <2>3 DEF Flash!ExclusiveBus, FlashHeld, OnSpi
  <2>5. FlashInARow'
    BY <1>1, <1>3, <1>4, <2>1, <2>2, <2>3 DEF FlashInARow, InARow, OnSpi
  <2>. QED
    BY <2>4, <2>5
<1>. QED
  BY <1>5, <1>6 DEF FlashWork

LEMMA FlashStepDone ==
  ASSUME FlashWork, NEW t \in Callers, Flash!step_done(t)
  PROVE  FlashWork'
<1>1. /\ pc[t] = "in" /\ Flash!Transfers(t) /\ i' = [i EXCEPT ![t] = @ + 1]
      /\ UNCHANGED <<state, panicked, pc, res, unheld>>
  BY DEF Flash!step_done, Flash!InStep
<1>2. i' \in [Callers -> Nat \ {0}] /\ \A u \in Callers : u # t => i'[u] = i[u]
  BY <1>1 DEF FlashWork, FlashTypes
<1>3. pc' = [pc EXCEPT ![t] = "in"] /\ "in" \in OnSpi
  BY <1>1 DEF FlashWork, FlashTypes, OnSpi
<1>4. DOMAIN res' = Callers /\ res' = res
  BY <1>1 DEF FlashWork, FlashTypes
<1>. QED
  BY <1>1, <1>2, <1>3, <1>4, FlashStep

LEMMA FlashStepFails ==
  ASSUME FlashWork, NEW t \in Callers, Flash!step_fails(t)
  PROVE  FlashWork'
<1>1. /\ pc[t] = "in" /\ Flash!Transfers(t) /\ Flash!Result(t, "error")
      /\ pc' = [pc EXCEPT ![t] = "release"] /\ "release" \in OnSpi
      /\ UNCHANGED <<state, panicked, i, unheld>>
  BY DEF Flash!step_fails, Flash!InStep, Flash!Goto, OnSpi
<1>2. i' \in [Callers -> Nat \ {0}] /\ i' = i
  BY <1>1 DEF FlashWork, FlashTypes
<1>3. /\ DOMAIN res' = Callers /\ res'[t].ret = "error"
      /\ \A u \in Callers : u # t => res'[u] = res[u]
  BY <1>1 DEF Flash!Result, FlashWork, FlashTypes
<1>. QED
  BY <1>1, <1>2, <1>3, FlashStep

LEMMA FlashFinish ==
  ASSUME FlashWork, NEW t \in Callers, Flash!finish(t)
  PROVE  FlashWork'
<1>1. /\ pc[t] = "in" /\ Flash!Result(t, "ok") /\ pc' = [pc EXCEPT ![t] = "release"]
      /\ UNCHANGED <<state, panicked, i, lastby, mixed, unheld>>
  BY DEF Flash!finish, Flash!Goto
<1>2. /\ pc' \in [Callers -> FlashPlaces] /\ pc'[t] = "release"
      /\ \A u \in Callers : u # t => pc'[u] = pc[u]
  BY <1>1, FlashOthers DEF FlashWork, FlashPlaces
<1>3. /\ DOMAIN res' = Callers /\ res'[t].mixed = mixed[t]
      /\ \A u \in Callers : u # t => res'[u] = res[u]
  BY <1>1 DEF Flash!Result, FlashWork, FlashTypes
<1>. QED
  BY <1>1, <1>2, <1>3
  DEF FlashWork, FlashTypes, OnSpi, Flash!ExclusiveBus, FlashHeld, FlashInARow, InARow

LEMMA FlashRelease ==
  ASSUME FlashWork, NEW t \in Callers, Flash!spi_release(t)
  PROVE  FlashWork'
<1>1. /\ pc[t] = "release" /\ state' = FALSE /\ panicked' = ~ state
      /\ pc' = [pc EXCEPT ![t] = "out"]
      /\ UNCHANGED <<i, lastby, mixed, res, unheld>>
  BY DEF Flash!spi_release, Flash!unlocks, Flash!Goto
<1>2. /\ pc' \in [Callers -> FlashPlaces] /\ pc'[t] = "out"
      /\ \A u \in Callers : u # t => pc'[u] = pc[u]
  BY <1>1, FlashOthers DEF FlashWork, FlashPlaces
<1>. QED
  BY <1>1, <1>2
  DEF FlashWork, FlashTypes, OnSpi, Flash!ExclusiveBus, FlashHeld, FlashInARow, InARow

LEMMA FlashWorkAlways == Spec => [](part = "flash" => FlashWork)
<1> DEFINE I == part \in {"pins", "sensors", "flash"} /\ (part = "flash" => FlashWork)
<1>1. Init => I
  BY FlashInit DEF Init
<1>2. I /\ [Next]_vars => I'
  <2> SUFFICES ASSUME I, [Next]_vars PROVE I'
    OBVIOUS
  <2>1. CASE OnFlash(Flash!Next)
    <3>1. part = "flash" /\ part' = part /\ Flash!Next /\ FlashWork
      BY <2>1 DEF OnFlash
    <3>2. PICK t \in Callers : Flash!Work(t) \/ \E f \in Flash!Fns : Flash!Call(t, f)
      BY <3>1 DEF Flash!Next
    <3>3. FlashWork'
      BY <3>1, <3>2, FlashCall, FlashAcquire, FlashLock, FlashStepDone, FlashStepFails, FlashFinish,
         FlashRelease
      DEF Flash!Work
    <3>. QED
      BY <3>1, <3>3
  <2>2. CASE OnPins(Board!Next) \/ OnSensors(Sensors!Next)
    BY <2>2 DEF OnPins, OnSensors
  <2>3. CASE UNCHANGED vars
    <3>1. UNCHANGED <<part, state, panicked, pc, i, lastby, mixed, res, unheld>>
      BY <2>3 DEF vars, flashOnly
    <3>2. FlashWork => FlashWork'
      BY <3>1 DEF FlashWork, FlashTypes, Flash!ExclusiveBus, FlashHeld, FlashInARow, InARow
    <3>. QED
      BY <3>1, <3>2
  <2>. QED
    BY <2>1, <2>2, <2>3 DEF Next
<1>3. I => (part = "flash" => FlashWork)
  OBVIOUS
<1>. QED
  BY <1>1, <1>2, <1>3, PTL DEF Spec

\* A sensor function that succeeds has read the answer to its own command unless
\* another caller overtook it while its device worked, its sample comes from one
\* configuration, and the transfers of a flash function that succeeds follow each
\* other: for any number of callers, who call everything, calls and reads.
THEOREM OwnAnswerCorrect == Spec => []OwnAnswer
<1>1. (part = "sensors" => SensorsWork) /\ (part = "flash" => FlashWork) => OwnAnswer
  <2> SUFFICES ASSUME part = "sensors" => SensorsWork, part = "flash" => FlashWork
               PROVE  OwnAnswer
    OBVIOUS
  <2>1. SensorsWork => Sensors!OwnAnswer /\ Sensors!SampleCoherent
    BY DEF SensorsWork, ResultsOwn, Sensors!OwnAnswer, Sensors!SampleCoherent
  <2>2. FlashWork => Flash!OwnTransfers
    BY DEF FlashWork, FlashInARow, Flash!OwnTransfers
  <2>3. CASE part = "sensors"
    BY <2>1, <2>3 DEF OwnAnswer
  <2>4. CASE part = "flash"
    BY <2>2, <2>4 DEF OwnAnswer
  <2>5. CASE part \notin {"sensors", "flash"}
    BY <2>5 DEF OwnAnswer
  <2>. QED
    BY <2>3, <2>4, <2>5
<1>. QED
  BY <1>1, SensorsWorkAlways, FlashWorkAlways, PTL

-----------------------------------------------------------------------------
(* The pins: who is on a bus has its mutex, and gpio_init has its pin; a    *)
(* register's write reaches the pin it is for, and every other pin it       *)
(* changes is in lost (PinsFsel); two pulls at once entangle their pins,    *)
(* and one alone arrives (PinsPull).                                        *)

BusNames == {"i2c0", "i2c1", "spi0"}
BoardPins == (0 .. 3) \cup (7 .. 11) \cup GpioPins
BusPin(b) == PinNumbers!rpi3_bus_pins[b]
Holding == {"acquire", "held", "release"}
CallerPlaces == {"out", "lock", "acquire", "held", "release"}
Pulling == {"clk", "clkset", "off", "unclk", "clkclr"}
GpioPlaces == {"out", "fsel", "pud"} \cup Pulling

\* The pin gpio_init of thread t is at work on.
GPin(t) == job[t].pins[1]

\* Whoever is between acquire and release of a bus has its mutex, and is giving
\* its pins the function that belongs there.
CallerShape(t) ==
    /\ pc[t] \in CallerPlaces
    /\ pc[t] = "lock" => job[t].bus \in BusNames
    /\ pc[t] \in Holding =>
          /\ job[t].bus \in BusNames /\ lock[job[t].bus] = t
          /\ job[t].pins = BusPin(job[t].bus)
          /\ pc[t] = "release" => job[t].fn = "inpt"
          /\ pc[t] # "release" => job[t].fn = "alt0"
    /\ pc[t] = "held" => at[t] > Len(BusPin(job[t].bus))

\* gpio_init works on one pin, and comes to the pull after the function.
GpioShape(t) ==
    /\ pc[t] \in GpioPlaces
    /\ pc[t] # "out" =>
          /\ GPin(t) \in GpioPins /\ job[t].pins = <<GPin(t)>>
          /\ \A m : job[t].mode = m => job[t].fn = Board!mode_fsel(m)
    /\ pc[t] \notin {"out", "fsel"} => at[t] > 1

PinsShape ==
    /\ pc \in [Callers \cup GpioUsers -> CallerPlaces \cup GpioPlaces]
    /\ at \in [Callers \cup GpioUsers -> Nat \ {0}]
    /\ DOMAIN job = Callers \cup GpioUsers
    /\ DOMAIN clkseen = Callers \cup GpioUsers
    /\ lock \in [BusNames -> Callers \cup {"free"}]
    /\ DOMAIN fsel = BoardPins /\ DOMAIN asked = BoardPins /\ DOMAIN pull = BoardPins
    /\ \A t \in Callers : CallerShape(t)
    /\ \A t \in GpioUsers : GpioShape(t)
    /\ \A b \in BusNames, t \in Callers : lock[b] = t => pc[t] \in Holding /\ job[t].bus = b

\* The pins a holder has come past have his function, those of a free bus are
\* inputs.
CallerFsel(t) ==
    pc[t] \in Holding =>
        \A k \in 1 .. Len(BusPin(job[t].bus)) :
            k < at[t] /\ BusPin(job[t].bus)[k] \notin lost => fsel[BusPin(job[t].bus)[k]] = job[t].fn
Parked(b) ==
    lock[b] = "free" =>
        \A k \in 1 .. Len(BusPin(b)) : BusPin(b)[k] \notin lost => fsel[BusPin(b)[k]] = "inpt"

\* Who has not been crossed is alone at his pin, and has given it its function.
GpioFsel(t) ==
    pc[t] # "out" /\ t \notin crossed =>
        /\ \A u \in GpioUsers : u # t /\ pc[u] # "out" => GPin(u) # GPin(t)
        /\ at[t] > 1 /\ GPin(t) \notin lost => fsel[GPin(t)] = job[t].fn
AskedFsel(p) ==
    asked[p] # "none" =>
        /\ p \in GpioPins
        /\ \A u \in GpioUsers : pc[u] # "out" => GPin(u) # p
        /\ p \notin lost => \A m : asked[p] = m => fsel[p] = Board!mode_fsel(m)

PinsFsel ==
    /\ \A t \in Callers : CallerFsel(t)
    /\ \A b \in BusNames : Parked(b)
    /\ \A t \in GpioUsers : GpioFsel(t)
    /\ \A p \in BoardPins : AskedFsel(p)

\* Two who set a pull at once entangle their pins; a clock bit that is set, or
\* has been read as set, belongs to an entangled pin or to the one thread that
\* has set it; that thread's pull is in GPPUD before and in its pin after.
AloneAtPull ==
    \A t, u \in GpioUsers : t # u /\ pc[t] \in Pulling /\ pc[u] \in Pulling => GPin(t) \in entangled
ClockOwned ==
    \A p \in clk : p \notin entangled =>
        \E t \in GpioUsers : pc[t] \in {"off", "unclk", "clkclr"} /\ GPin(t) = p
ClockSeen ==
    \A t \in GpioUsers : pc[t] \in {"clkset", "clkclr"} =>
        \A p \in clkseen[t] : p \notin entangled => pc[t] = "clkclr" /\ GPin(t) = p
PullMade(t) ==
    GPin(t) \notin entangled => \A m : job[t].mode = m =>
        /\ pc[t] \in {"clk", "clkset"} => pud = Board!mode_pull(m)
        /\ pc[t] \in {"off", "unclk", "clkclr"} => pull[GPin(t)] = Board!mode_pull(m)
AskedPull(p) ==
    asked[p] # "none" /\ p \notin entangled =>
        \A m : asked[p] = m /\ Board!mode_pull(m) # "off" => pull[p] = Board!mode_pull(m)

PinsPull ==
    /\ AloneAtPull /\ ClockOwned /\ ClockSeen
    /\ \A t \in GpioUsers : PullMade(t)
    /\ \A p \in BoardPins : AskedPull(p)

PinsWork == PinsShape /\ PinsFsel /\ PinsPull

\* The pins of the buses.
LEMMA PinsOfBuses ==
  /\ DOMAIN PinNumbers!rpi3_bus_pins = BusNames
  /\ \A b \in BusNames : Len(BusPin(b)) \in Nat
  /\ \A b \in BusNames : \A k \in 1 .. Len(BusPin(b)) :
        BusPin(b)[k] \in BoardPins /\ BusPin(b)[k] \notin GpioPins
  /\ \A b, c \in BusNames : \A k \in 1 .. Len(BusPin(b)), l \in 1 .. Len(BusPin(c)) :
        b # c => BusPin(b)[k] # BusPin(c)[l]
<1>1. /\ BusPin("i2c0") = <<0, 1>> /\ BusPin("i2c1") = <<2, 3>>
      /\ BusPin("spi0") = <<7, 8, 9, 10, 11>> /\ DOMAIN PinNumbers!rpi3_bus_pins = BusNames
  BY DEF BusPin, PinNumbers!rpi3_bus_pins, BusNames
<1>2. /\ Len(BusPin("i2c0")) = 2 /\ \A k \in 1 .. 2 : BusPin("i2c0")[k] \in {0, 1}
      /\ Len(BusPin("i2c1")) = 2 /\ \A k \in 1 .. 2 : BusPin("i2c1")[k] \in {2, 3}
  BY <1>1
<1>3. Len(BusPin("spi0")) = 5 /\ \A k \in 1 .. 5 : BusPin("spi0")[k] \in {7, 8, 9, 10, 11}
  BY <1>1
<1>4. \A b \in BusNames : /\ Len(BusPin(b)) \in Nat
                          /\ \A k \in 1 .. Len(BusPin(b)) :
                                /\ b = "i2c0" => BusPin(b)[k] \in {0, 1}
                                /\ b = "i2c1" => BusPin(b)[k] \in {2, 3}
                                /\ b = "spi0" => BusPin(b)[k] \in {7, 8, 9, 10, 11}
  BY <1>2, <1>3 DEF BusNames
<1>5. \A q \in {0, 1, 2, 3, 7, 8, 9, 10, 11} : q \in BoardPins /\ q \notin GpioPins
  BY PinsApart DEF BoardPins
<1>6. ASSUME NEW b \in BusNames, NEW k \in 1 .. Len(BusPin(b))
      PROVE  BusPin(b)[k] \in BoardPins /\ BusPin(b)[k] \notin GpioPins
  BY <1>4, <1>5 DEF BusNames
<1>7. ASSUME NEW b \in BusNames, NEW c \in BusNames, b # c,
             NEW k \in 1 .. Len(BusPin(b)), NEW l \in 1 .. Len(BusPin(c))
      PROVE  BusPin(b)[k] # BusPin(c)[l]
  <2>1. PICK x, y : x = BusPin(b)[k] /\ y = BusPin(c)[l]
    OBVIOUS
  <2>2. /\ b = "i2c0" => x \in {0, 1}
        /\ b = "i2c1" => x \in {2, 3}
        /\ b = "spi0" => x \in {7, 8, 9, 10, 11}
        /\ c = "i2c0" => y \in {0, 1}
        /\ c = "i2c1" => y \in {2, 3}
        /\ c = "spi0" => y \in {7, 8, 9, 10, 11}
    BY <1>4, <2>1
  <2>3. x # y
    BY <1>7, <2>2 DEF BusNames
  <2>. QED
    BY <2>1, <2>3
<1>. QED
  BY <1>1, <1>4, <1>6, <1>7

\* A gpio pin is one of the board's.
LEMMA GpioOnBoard == \A p \in GpioPins : p \in BoardPins
  BY DEF BoardPins

LEMMA PinsInit == Board!Init => PinsWork
<1> SUFFICES ASSUME Board!Init PROVE PinsWork
  OBVIOUS
<1>1. /\ \A t \in Callers \cup GpioUsers : pc[t] = "out"
      /\ \A b \in BusNames : lock[b] = "free" /\ \A p \in BoardPins : fsel[p] = "inpt"
      /\ \A p \in BoardPins : asked[p] = "none" /\ clk = {}
  BY PinsOfBuses DEF Board!Init, Board!Threads, Board!Buses, Board!Free, Board!NoMode, BoardPins
<1>2. PinsShape
  <2>1. /\ DOMAIN job = Callers \cup GpioUsers /\ DOMAIN clkseen = Callers \cup GpioUsers
        /\ DOMAIN fsel = BoardPins /\ DOMAIN asked = BoardPins /\ DOMAIN pull = BoardPins
        /\ pc \in [Callers \cup GpioUsers -> CallerPlaces \cup GpioPlaces]
        /\ at \in [Callers \cup GpioUsers -> Nat \ {0}]
        /\ lock \in [BusNames -> Callers \cup {"free"}]
    BY PinsOfBuses DEF Board!Init, Board!Threads, Board!Buses, Board!Free, BoardPins, CallerPlaces
  <2>. QED
    BY <1>1, <2>1, CallersApart
    DEF PinsShape, CallerShape, GpioShape, CallerPlaces, GpioPlaces, Holding
<1>3. PinsFsel
  BY <1>1, PinsOfBuses DEF PinsFsel, CallerFsel, Parked, GpioFsel, AskedFsel, Holding
<1>4. PinsPull
  BY <1>1 DEF Board!Init, PinsPull, AloneAtPull, ClockOwned, ClockSeen, PullMade, AskedPull, Pulling
<1>. QED
  BY <1>2, <1>3, <1>4 DEF PinsWork

\* A step that leaves the pulls alone, of a thread that is not setting one.
LEMMA PullOutside ==
  ASSUME PinsPull, NEW t, t \in GpioUsers => pc[t] \notin Pulling /\ pc'[t] \notin Pulling,
         \A u \in GpioUsers : u # t => pc'[u] = pc[u] /\ job'[u] = job[u] /\ clkseen'[u] = clkseen[u],
         UNCHANGED <<pud, clk, pull, entangled>>,
         \A p \in BoardPins : asked'[p] = asked[p] \/ AskedPull(p)'
  PROVE  PinsPull'
<1> USE DEF PinsPull, GPin, Pulling
<1>1. AloneAtPull' /\ ClockSeen'
  BY DEF AloneAtPull, ClockSeen
<1>2. ClockOwned'
  BY DEF ClockOwned
<1>3. ASSUME NEW u \in GpioUsers PROVE PullMade(u)'
  BY DEF PullMade
<1>4. ASSUME NEW p \in BoardPins PROVE AskedPull(p)'
  BY DEF AskedPull
<1>. QED
  BY <1>1, <1>2, <1>3, <1>4

\* A step of a caller that writes no register.
LEMMA CallerMoves ==
  ASSUME PinsWork, NEW t \in Callers, NEW l \in CallerPlaces, pc' = [pc EXCEPT ![t] = l],
         DOMAIN job' = Callers \cup GpioUsers, at' \in [Callers \cup GpioUsers -> Nat \ {0}],
         \A u \in Callers \cup GpioUsers : u # t => job'[u] = job[u] /\ at'[u] = at[u],
         lock' \in [BusNames -> Callers \cup {"free"}],
         \A b \in BusNames, u \in Callers : u # t => (lock'[b] = u <=> lock[b] = u),
         \A b \in BusNames : lock'[b] = t => l \in Holding /\ job'[t].bus = b,
         CallerShape(t)', CallerFsel(t)',
         \A b \in BusNames : lock'[b] = lock[b] \/ Parked(b)',
         UNCHANGED <<fsel, pud, clk, pull, clkseen, asked, lost, crossed, entangled>>
  PROVE  PinsWork'
<1>1. /\ pc' \in [Callers \cup GpioUsers -> CallerPlaces \cup GpioPlaces]
      /\ pc'[t] = l
      /\ \A u \in Callers \cup GpioUsers : u # t => pc'[u] = pc[u] /\ job'[u] = job[u]
  BY DEF PinsWork, PinsShape
<1>2. t \notin GpioUsers
  BY CallersApart
<1>3. ASSUME NEW u \in Callers PROVE CallerShape(u)' /\ CallerFsel(u)'
  <2>1. CASE u = t
    BY <2>1
  <2>2. CASE u # t
    <3>1. pc'[u] = pc[u] /\ job'[u] = job[u] /\ at'[u] = at[u] /\ CallerShape(u) /\ CallerFsel(u)
      BY <1>1, <2>2 DEF PinsWork, PinsShape, PinsFsel
    <3>2. pc[u] \in Holding => lock'[job[u].bus] = u
      BY <2>2, <3>1 DEF CallerShape
    <3>. QED
      BY <3>1, <3>2 DEF CallerShape, CallerFsel, BusPin
  <2>. QED
    BY <2>1, <2>2
<1>4. ASSUME NEW u \in GpioUsers PROVE GpioShape(u)' /\ GpioFsel(u)'
  <2>1. pc'[u] = pc[u] /\ job'[u] = job[u] /\ at'[u] = at[u] /\ GpioShape(u) /\ GpioFsel(u)
    BY <1>1, <1>2 DEF PinsWork, PinsShape, PinsFsel
  <2>2. \A v \in GpioUsers : pc'[v] = pc[v] /\ job'[v] = job[v]
    BY <1>1, <1>2
  <2>. QED
    BY <2>1, <2>2 DEF GpioShape, GpioFsel, GPin
<1>5. ASSUME NEW p \in BoardPins PROVE AskedFsel(p)'
  BY <1>1, <1>2 DEF PinsWork, PinsFsel, AskedFsel, GPin
<1>6. ASSUME NEW b \in BusNames PROVE Parked(b)'
  BY DEF PinsWork, PinsFsel, Parked, BusPin
<1>7. PinsPull'
  BY <1>1, <1>2, PullOutside DEF PinsWork
<1>8. PinsShape'
  <2>1. \A b \in BusNames, u \in Callers : lock'[b] = u => pc'[u] \in Holding /\ job'[u].bus = b
    BY <1>1 DEF PinsWork, PinsShape
  <2>. QED
    BY <1>1, <1>3, <1>4, <2>1 DEF PinsWork, PinsShape
<1>9. PinsFsel'
  BY <1>3, <1>4, <1>5, <1>6 DEF PinsFsel
<1>. QED
  BY <1>7, <1>8, <1>9 DEF PinsWork

LEMMA PinsCall ==
  ASSUME PinsWork, NEW t \in Callers, NEW b \in BusNames, Board!Call(t, b)
  PROVE  PinsWork'
<1>1. /\ pc[t] = "out" /\ pc' = [pc EXCEPT ![t] = "lock"]
      /\ job' = [job EXCEPT ![t] = Board!Wanting(b)]
      /\ UNCHANGED <<lock, fsel, pud, clk, pull, at, clkseen, asked, lost, crossed, entangled>>
  BY DEF Board!Call, Board!Goto, Board!history
<1>2. pc'[t] = "lock" /\ job'[t].bus = b /\ \A c \in BusNames : lock[c] # t
  BY <1>1 DEF PinsWork, PinsShape, Board!Wanting, Holding
<1>3. CallerShape(t)' /\ CallerFsel(t)' /\ "lock" \in CallerPlaces
  BY <1>2 DEF CallerShape, CallerFsel, CallerPlaces, Holding
<1>4. /\ DOMAIN job' = Callers \cup GpioUsers
      /\ \A u \in Callers \cup GpioUsers : u # t => job'[u] = job[u] /\ at'[u] = at[u]
      /\ lock' \in [BusNames -> Callers \cup {"free"}]
      /\ at' \in [Callers \cup GpioUsers -> Nat \ {0}]
  BY <1>1 DEF PinsWork, PinsShape
<1>. QED
  BY <1>1, <1>2, <1>3, <1>4, CallerMoves

\* The record of a bus's user.
LEMMA Selected ==
  ASSUME NEW b, NEW f
  PROVE  /\ Board!Selecting(b, f).bus = b /\ Board!Selecting(b, f).fn = f
         /\ Board!Selecting(b, f).pins = BusPin(b)
  BY DEF Board!Selecting, BusPin

LEMMA PinsAcquire ==
  ASSUME PinsWork, NEW t \in Callers, Board!Acquire(t)
  PROVE  PinsWork'
<1>1. PICK b : b = job[t].bus
  OBVIOUS
<1>2. /\ pc[t] = "lock" /\ pc' = [pc EXCEPT ![t] = "acquire"] /\ lock[b] = "free"
      /\ lock' = [lock EXCEPT ![b] = t] /\ at' = [at EXCEPT ![t] = 1]
      /\ job' = [job EXCEPT ![t] = Board!Selecting(b, "alt0")]
      /\ UNCHANGED <<fsel, pud, clk, pull, clkseen, asked, lost, crossed, entangled>>
  BY <1>1 DEF Board!Acquire, Board!can_acquire, Board!first_pin, Board!Goto, Board!Free,
     Board!history
<1>3. b \in BusNames /\ \A c \in BusNames : lock[c] # t
  BY <1>1, <1>2 DEF PinsWork, PinsShape, CallerShape, Holding
<1>4. /\ pc'[t] = "acquire" /\ at'[t] = 1 /\ job'[t] = Board!Selecting(b, "alt0")
      /\ lock'[b] = t /\ lock' \in [BusNames -> Callers \cup {"free"}]
      /\ \A c \in BusNames : c # b => lock'[c] = lock[c]
      /\ at' \in [Callers \cup GpioUsers -> Nat \ {0}]
      /\ DOMAIN job' = Callers \cup GpioUsers
      /\ \A u \in Callers \cup GpioUsers : u # t => job'[u] = job[u] /\ at'[u] = at[u]
  BY <1>2, <1>3 DEF PinsWork, PinsShape
<1>5. CallerShape(t)'
  BY <1>3, <1>4, Selected DEF CallerShape, CallerPlaces, Holding
<1>6. CallerFsel(t)'
  <2>1. job'[t].bus = b /\ Len(BusPin(b)) \in Nat
    BY <1>3, <1>4, Selected, PinsOfBuses
  <2>. QED
    BY <1>4, <2>1 DEF CallerFsel
<1>7. ASSUME NEW c \in BusNames PROVE lock'[c] = lock[c] \/ Parked(c)'
  BY <1>4, CallersApart DEF Parked
<1>8. \A c \in BusNames, u \in Callers : u # t => (lock'[c] = u <=> lock[c] = u)
  BY <1>2, <1>3, <1>4, CallersApart
<1>9. /\ \A c \in BusNames : lock'[c] = t => "acquire" \in Holding /\ job'[t].bus = c
      /\ "acquire" \in CallerPlaces
  BY <1>3, <1>4, Selected DEF Holding, CallerPlaces
<1>. QED
  BY <1>2, <1>4, <1>5, <1>6, <1>7, <1>8, <1>9, CallerMoves

LEMMA PinsAcquired ==
  ASSUME PinsWork, NEW t \in Callers, Board!Acquired(t)
  PROVE  PinsWork'
<1>1. /\ pc[t] = "acquire" /\ pc' = [pc EXCEPT ![t] = "held"] /\ at[t] > Len(job[t].pins)
      /\ UNCHANGED <<lock, job, at, fsel, pud, clk, pull, clkseen, asked, lost, crossed, entangled>>
  BY DEF Board!Acquired, Board!Configured, Board!Goto, Board!history
<1>2. CallerShape(t) /\ CallerFsel(t) /\ pc'[t] = "held"
  BY <1>1 DEF PinsWork, PinsShape, PinsFsel
<1>4. CallerShape(t)' /\ CallerFsel(t)'
  BY <1>1, <1>2 DEF CallerShape, CallerFsel, CallerPlaces, Holding, BusPin
<1>5. "held" \in CallerPlaces /\ \A b \in BusNames : lock'[b] = t => "held" \in Holding /\ job'[t].bus = b
  BY <1>1 DEF PinsWork, PinsShape, CallerPlaces, Holding
<1>6. /\ DOMAIN job' = Callers \cup GpioUsers
      /\ \A u \in Callers \cup GpioUsers : u # t => job'[u] = job[u] /\ at'[u] = at[u]
      /\ lock' \in [BusNames -> Callers \cup {"free"}]
      /\ at' \in [Callers \cup GpioUsers -> Nat \ {0}]
  BY <1>1 DEF PinsWork, PinsShape
<1>. QED
  BY <1>1, <1>4, <1>5, <1>6, CallerMoves

LEMMA PinsRelease ==
  ASSUME PinsWork, NEW t \in Callers, Board!Release(t)
  PROVE  PinsWork'
<1>1. PICK b : b = job[t].bus
  OBVIOUS
<1>2. /\ pc[t] = "held" /\ pc' = [pc EXCEPT ![t] = "release"] /\ at' = [at EXCEPT ![t] = 1]
      /\ job' = [job EXCEPT ![t] = Board!Selecting(b, "inpt")]
      /\ UNCHANGED <<lock, fsel, pud, clk, pull, clkseen, asked, lost, crossed, entangled>>
  BY <1>1 DEF Board!Release, Board!Goto, Board!history
<1>3. b \in BusNames /\ lock[b] = t
  BY <1>1, <1>2 DEF PinsWork, PinsShape, CallerShape, Holding
<1>4. /\ pc'[t] = "release" /\ at'[t] = 1 /\ job'[t] = Board!Selecting(b, "inpt")
      /\ at' \in [Callers \cup GpioUsers -> Nat \ {0}]
      /\ DOMAIN job' = Callers \cup GpioUsers
      /\ \A u \in Callers \cup GpioUsers : u # t => job'[u] = job[u] /\ at'[u] = at[u]
  BY <1>2 DEF PinsWork, PinsShape
<1>5. CallerShape(t)'
  BY <1>2, <1>3, <1>4, Selected DEF CallerShape, CallerPlaces, Holding
<1>6. CallerFsel(t)'
  <2>1. job'[t].bus = b /\ Len(BusPin(b)) \in Nat
    BY <1>3, <1>4, Selected, PinsOfBuses
  <2>. QED
    BY <1>4, <2>1 DEF CallerFsel
<1>7. /\ "release" \in CallerPlaces
      /\ \A c \in BusNames : lock'[c] = t => "release" \in Holding /\ job'[t].bus = c
      /\ lock' \in [BusNames -> Callers \cup {"free"}]
  BY <1>1, <1>2, <1>4, Selected DEF PinsWork, PinsShape, CallerPlaces, Holding
<1>. QED
  BY <1>2, <1>4, <1>5, <1>6, <1>7, CallerMoves

LEMMA PinsUnlock ==
  ASSUME PinsWork, NEW t \in Callers, Board!Unlock(t)
  PROVE  PinsWork'
<1>1. PICK b : b = job[t].bus
  OBVIOUS
<1>2. /\ pc[t] = "release" /\ pc' = [pc EXCEPT ![t] = "out"] /\ at[t] > Len(job[t].pins)
      /\ lock' = [lock EXCEPT ![b] = "free"] /\ job' = [job EXCEPT ![t] = Board!Idle]
      /\ UNCHANGED <<at, fsel, pud, clk, pull, clkseen, asked, lost, crossed, entangled>>
  BY <1>1 DEF Board!Unlock, Board!pins_back, Board!Configured, Board!mutex_unlock, Board!Goto,
     Board!Free, Board!history
<1>3. b \in BusNames /\ lock[b] = t /\ job[t].pins = BusPin(b) /\ job[t].fn = "inpt"
  BY <1>1, <1>2 DEF PinsWork, PinsShape, CallerShape, Holding
<1>4. /\ pc'[t] = "out" /\ lock'[b] = "free" /\ lock' \in [BusNames -> Callers \cup {"free"}]
      /\ \A c \in BusNames : c # b => lock'[c] = lock[c]
  BY <1>2, <1>3 DEF PinsWork, PinsShape
<1>5. CallerShape(t)' /\ CallerFsel(t)' /\ "out" \in CallerPlaces
  BY <1>4 DEF CallerShape, CallerFsel, CallerPlaces, Holding
<1>6. Parked(b)'
  <2>1. Len(BusPin(b)) \in Nat /\ at[t] > Len(BusPin(b)) /\ at[t] \in Nat
    BY <1>2, <1>3, PinsOfBuses DEF PinsWork, PinsShape
  <2>2. \A k \in 1 .. Len(BusPin(b)) : BusPin(b)[k] \notin lost => fsel[BusPin(b)[k]] = "inpt"
    BY <1>1, <1>2, <1>3, <2>1 DEF PinsWork, PinsFsel, CallerFsel, Holding
  <2>. QED
    BY <1>2, <2>2 DEF Parked, BusPin
<1>7. \A c \in BusNames : lock'[c] = lock[c] \/ Parked(c)'
  BY <1>4, <1>6
<1>8. \A c \in BusNames, u \in Callers : u # t => (lock'[c] = u <=> lock[c] = u)
  BY <1>3, <1>4, CallersApart
<1>9. \A c \in BusNames : lock'[c] # t
  BY <1>1, <1>3, <1>4, CallersApart DEF PinsWork, PinsShape
<1>10. /\ DOMAIN job' = Callers \cup GpioUsers
       /\ \A u \in Callers \cup GpioUsers : u # t => job'[u] = job[u] /\ at'[u] = at[u]
       /\ at' \in [Callers \cup GpioUsers -> Nat \ {0}]
  BY <1>2 DEF PinsWork, PinsShape
<1>. QED
  BY <1>2, <1>4, <1>5, <1>7, <1>8, <1>9, <1>10, CallerMoves

\* What a thread has read of GPFSEL is in none of the invariants.
LEMMA PinsUnmoved ==
  ASSUME PinsWork,
         UNCHANGED <<lock, fsel, pud, clk, pull, pc, job, at, clkseen, asked, lost, crossed, entangled>>
  PROVE  PinsWork'
<1>1. PinsShape'
  BY DEF PinsWork, PinsShape, CallerShape, GpioShape, GPin, BusPin
<1>2. PinsFsel'
  BY DEF PinsWork, PinsFsel, CallerFsel, Parked, GpioFsel, AskedFsel, GPin, BusPin
<1>3. PinsPull'
  BY DEF PinsWork, PinsPull, AloneAtPull, ClockOwned, ClockSeen, PullMade, AskedPull, GPin
<1>. QED
  BY <1>1, <1>2, <1>3 DEF PinsWork

\* The write of t reaches its pin; any other pin it changes is lost.
LEMMA Written ==
  ASSUME PinsWork, NEW t, Board!FselWrite(t), Board!Pin(t) \in BoardPins
  PROVE  /\ DOMAIN fsel' = BoardPins /\ fsel'[Board!Pin(t)] = job[t].fn
         /\ \A q \in BoardPins : q # Board!Pin(t) /\ q \notin lost' =>
                q \notin lost /\ fsel'[q] = fsel[q]
<1> DEFINE p == Board!Pin(t)
           G == Board!Register(p)
<1>1. /\ fsel' = [q \in BoardPins |-> IF q \in G THEN IF q = p THEN job[t].fn ELSE seen[t][q]
                                      ELSE fsel[q]]
      /\ lost' = (lost \ {p}) \cup {q \in G \ {p} : seen[t][q] # fsel[q]}
  BY DEF Board!FselWrite, Board!register_written, Board!Undone, BoardPins
<1>2. p \in G
  BY DEF Board!Register, BoardPins
<1> HIDE DEF p, G
<1>3. p \in BoardPins
  BY DEF p
<1>4. DOMAIN fsel' = BoardPins /\ fsel'[p] = job[t].fn
  BY <1>1, <1>2, <1>3
<1>5. ASSUME NEW q \in BoardPins, q # p, q \notin lost' PROVE q \notin lost /\ fsel'[q] = fsel[q]
  BY <1>1, <1>5
<1>. QED
  BY <1>4, <1>5 DEF p

\* A write that is at pin p, which is a user's own: what it does to the others.
LEMMA WriteKeeps ==
  ASSUME PinsWork, NEW t \in Callers \cup GpioUsers, Board!FselWrite(t), Board!Pin(t) \in BoardPins
  PROVE  /\ PinsShape' /\ PinsPull'
         /\ \A u \in Callers : u # t /\ (\A k \in 1 .. Len(BusPin(job[u].bus)) :
                                           pc[u] \in Holding => BusPin(job[u].bus)[k] # Board!Pin(t))
                => CallerFsel(u)'
         /\ \A b \in BusNames : (\A k \in 1 .. Len(BusPin(b)) : BusPin(b)[k] # Board!Pin(t))
                => Parked(b)'
         /\ \A u \in GpioUsers : u # t /\ (pc[u] # "out" /\ u \notin crossed => GPin(u) # Board!Pin(t))
                => GpioFsel(u)'
         /\ \A p \in BoardPins : p # Board!Pin(t) => AskedFsel(p)'
<1>1. /\ pc[t] \in {"acquire", "release", "fsel"} /\ at' = [at EXCEPT ![t] = @ + 1]
      /\ UNCHANGED <<lock, pud, clk, pull, pc, job, clkseen, asked, crossed, entangled>>
  BY DEF Board!FselWrite, Board!Configuring
<1>2. /\ DOMAIN fsel' = BoardPins
      /\ \A q \in BoardPins : q # Board!Pin(t) /\ q \notin lost' => q \notin lost /\ fsel'[q] = fsel[q]
  BY Written
<1>3. /\ at' \in [Callers \cup GpioUsers -> Nat \ {0}] /\ at'[t] = at[t] + 1
      /\ \A u \in Callers \cup GpioUsers : u # t => at'[u] = at[u]
  BY <1>1 DEF PinsWork, PinsShape
<1>4. PinsShape'
  <2>1. ASSUME NEW u \in Callers PROVE CallerShape(u)'
    BY <1>1, <1>3 DEF PinsWork, PinsShape, CallerShape, BusPin
  <2>2. ASSUME NEW u \in GpioUsers PROVE GpioShape(u)'
    BY <1>1, <1>3 DEF PinsWork, PinsShape, GpioShape, GPin
  <2>. QED
    BY <1>1, <1>2, <1>3, <2>1, <2>2 DEF PinsWork, PinsShape
<1>5. PinsPull'
  BY <1>1 DEF PinsWork, PinsPull, AloneAtPull, ClockOwned, ClockSeen, PullMade, AskedPull, GPin
<1>6. ASSUME NEW u \in Callers, u # t,
             \A k \in 1 .. Len(BusPin(job[u].bus)) :
                pc[u] \in Holding => BusPin(job[u].bus)[k] # Board!Pin(t)
      PROVE  CallerFsel(u)'
  <2>1. CallerFsel(u) /\ (pc[u] \in Holding => job[u].bus \in BusNames)
    BY DEF PinsWork, PinsShape, PinsFsel, CallerShape
  <2>2. ASSUME pc[u] \in Holding, NEW k \in 1 .. Len(BusPin(job[u].bus)),
               k < at[u], BusPin(job[u].bus)[k] \notin lost'
        PROVE  fsel'[BusPin(job[u].bus)[k]] = job[u].fn
    <3>1. BusPin(job[u].bus)[k] \in BoardPins /\ BusPin(job[u].bus)[k] # Board!Pin(t)
      BY <1>6, <2>1, <2>2, PinsOfBuses
    <3>. QED
      BY <1>2, <2>1, <2>2, <3>1 DEF CallerFsel
  <2>. QED
    BY <1>1, <1>3, <1>6, <2>2 DEF CallerFsel, BusPin
<1>7. ASSUME NEW b \in BusNames, \A k \in 1 .. Len(BusPin(b)) : BusPin(b)[k] # Board!Pin(t)
      PROVE  Parked(b)'
  <2>1. ASSUME lock[b] = "free", NEW k \in 1 .. Len(BusPin(b)), BusPin(b)[k] \notin lost'
        PROVE  fsel'[BusPin(b)[k]] = "inpt"
    BY <1>2, <1>7, <2>1, PinsOfBuses DEF PinsWork, PinsFsel, Parked
  <2>. QED
    BY <1>1, <2>1 DEF Parked, BusPin
<1>8. ASSUME NEW u \in GpioUsers, u # t, pc[u] # "out" /\ u \notin crossed => GPin(u) # Board!Pin(t)
      PROVE  GpioFsel(u)'
  <2>1. GpioFsel(u) /\ (pc[u] # "out" => GPin(u) \in BoardPins)
    BY GpioOnBoard DEF PinsWork, PinsShape, PinsFsel, GpioShape
  <2>2. \A v \in GpioUsers : GPin(v)' = GPin(v)
    BY <1>1 DEF GPin
  <2>. QED
    BY <1>1, <1>2, <1>3, <1>8, <2>1, <2>2 DEF GpioFsel
<1>9. ASSUME NEW p \in BoardPins, p # Board!Pin(t) PROVE AskedFsel(p)'
  <2>1. AskedFsel(p)
    BY DEF PinsWork, PinsFsel
  <2>2. \A v \in GpioUsers : GPin(v)' = GPin(v)
    BY <1>1 DEF GPin
  <2>. QED
    BY <1>1, <1>2, <1>9, <2>1, <2>2 DEF AskedFsel
<1>. QED
  BY <1>4, <1>5, <1>6, <1>7, <1>8, <1>9

LEMMA PinsCallerWrites ==
  ASSUME PinsWork, NEW t \in Callers, Board!FselWrite(t)
  PROVE  PinsWork'
<1>1. /\ pc[t] \in {"acquire", "release", "fsel"} /\ at[t] <= Len(job[t].pins)
      /\ at' = [at EXCEPT ![t] = @ + 1] /\ UNCHANGED <<lock, pc, job, asked>>
  BY DEF Board!FselWrite, Board!Configuring
<1>2. PICK b : b = job[t].bus
  OBVIOUS
<1>3. /\ pc[t] \in Holding /\ b \in BusNames /\ lock[b] = t /\ job[t].pins = BusPin(b)
      /\ at[t] \in Nat \ {0} /\ t \notin GpioUsers
  BY <1>1, <1>2, CallersApart DEF PinsWork, PinsShape, CallerShape, CallerPlaces, Holding
<1>4. /\ at[t] \in 1 .. Len(BusPin(b)) /\ Board!Pin(t) = BusPin(b)[at[t]]
      /\ Len(BusPin(b)) \in Nat
  BY <1>1, <1>3, PinsOfBuses DEF Board!Pin
<1>5. Board!Pin(t) \in BoardPins /\ Board!Pin(t) \notin GpioPins
  BY <1>3, <1>4, PinsOfBuses
<1>6. /\ fsel'[Board!Pin(t)] = job[t].fn
      /\ \A q \in BoardPins : q # Board!Pin(t) /\ q \notin lost' => q \notin lost /\ fsel'[q] = fsel[q]
  BY <1>5, Written
<1>7. \A c \in BusNames : c # b => \A k \in 1 .. Len(BusPin(c)) : BusPin(c)[k] # Board!Pin(t)
  BY <1>3, <1>4, PinsOfBuses
<1>8. ASSUME NEW u \in Callers PROVE CallerFsel(u)'
  <2>1. CASE u # t
    <3>1. pc[u] \in Holding => job[u].bus \in BusNames /\ job[u].bus # b
      BY <1>3, <2>1 DEF PinsWork, PinsShape, CallerShape
    <3>. QED
      BY <1>5, <1>7, <2>1, <3>1, WriteKeeps
  <2>2. CASE u = t
    <3>1. at'[t] = at[t] + 1
      BY <1>1 DEF PinsWork, PinsShape
    <3>2. ASSUME NEW k \in 1 .. Len(BusPin(b)), k < at'[t], BusPin(b)[k] \notin lost'
          PROVE  fsel'[BusPin(b)[k]] = job[t].fn
      <4>1. CASE BusPin(b)[k] = Board!Pin(t)
        BY <1>6, <4>1
      <4>2. CASE BusPin(b)[k] # Board!Pin(t)
        <5>1. k < at[t]
          BY <1>3, <1>4, <3>1, <3>2, <4>2
        <5>2. BusPin(b)[k] \in BoardPins
          BY <1>3, PinsOfBuses
        <5>. QED
          BY <1>2, <1>3, <1>6, <3>2, <4>2, <5>1, <5>2 DEF PinsWork, PinsFsel, CallerFsel
      <4>. QED
        BY <4>1, <4>2
    <3>. QED
      BY <1>1, <1>2, <2>2, <3>2 DEF CallerFsel, BusPin
  <2>. QED
    BY <2>1, <2>2
<1>9. ASSUME NEW c \in BusNames PROVE Parked(c)'
  <2>1. CASE c = b
    BY <1>1, <1>3, <2>1, CallersApart DEF Parked
  <2>2. CASE c # b
    BY <1>5, <1>7, <2>2, WriteKeeps
  <2>. QED
    BY <2>1, <2>2
<1>10. ASSUME NEW u \in GpioUsers PROVE GpioFsel(u)'
  <2>1. u # t /\ (pc[u] # "out" => GPin(u) # Board!Pin(t))
    BY <1>3, <1>5 DEF PinsWork, PinsShape, GpioShape
  <2>. QED
    BY <1>5, <2>1, WriteKeeps
<1>11. ASSUME NEW p \in BoardPins PROVE AskedFsel(p)'
  <2>1. CASE p = Board!Pin(t)
    BY <1>1, <1>5, <2>1 DEF PinsWork, PinsFsel, AskedFsel
  <2>2. CASE p # Board!Pin(t)
    BY <1>5, <2>2, WriteKeeps
  <2>. QED
    BY <2>1, <2>2
<1>. QED
  BY <1>5, <1>8, <1>9, <1>10, <1>11, WriteKeeps DEF PinsWork, PinsFsel

LEMMA PinsGpioWrites ==
  ASSUME PinsWork, NEW t \in GpioUsers, Board!FselWrite(t)
  PROVE  PinsWork'
<1>1. /\ pc[t] \in {"acquire", "release", "fsel"} /\ at[t] <= Len(job[t].pins)
      /\ at' = [at EXCEPT ![t] = @ + 1] /\ UNCHANGED <<lock, pc, job, asked, crossed>>
  BY DEF Board!FselWrite, Board!Configuring
<1>2. PICK p : p = GPin(t)
  OBVIOUS
<1>3. pc[t] = "fsel" /\ p \in GpioPins /\ job[t].pins = <<p>> /\ at[t] \in Nat \ {0}
  BY <1>1, <1>2 DEF PinsWork, PinsShape, GpioShape, GpioPlaces, Pulling
<1>4. at[t] = 1 /\ Board!Pin(t) = p
  BY <1>1, <1>3 DEF Board!Pin
<1>5. p \in BoardPins /\ t \notin Callers
  BY <1>3, GpioOnBoard, CallersApart
<1>6. fsel'[p] = job[t].fn
  BY <1>4, <1>5, Written
<1>7. \A b \in BusNames : \A k \in 1 .. Len(BusPin(b)) : BusPin(b)[k] # p
  BY <1>3, PinsOfBuses
<1>8. ASSUME NEW u \in Callers PROVE CallerFsel(u)'
  <2>1. pc[u] \in Holding => job[u].bus \in BusNames
    BY DEF PinsWork, PinsShape, CallerShape
  <2>. QED
    BY <1>4, <1>5, <1>7, <2>1, WriteKeeps
<1>9. ASSUME NEW b \in BusNames PROVE Parked(b)'
  BY <1>4, <1>5, <1>7, WriteKeeps
<1>10. ASSUME NEW u \in GpioUsers PROVE GpioFsel(u)'
  <2>1. CASE u = t
    <3>1. \A v \in GpioUsers : GPin(v)' = GPin(v)
      BY <1>1 DEF GPin
    <3>. QED
      BY <1>1, <1>2, <1>6, <2>1, <3>1 DEF PinsWork, PinsFsel, GpioFsel
  <2>2. CASE u # t
    <3>1. pc[u] # "out" /\ u \notin crossed => GPin(u) # p
      BY <1>2, <1>3, <2>2 DEF PinsWork, PinsFsel, GpioFsel
    <3>. QED
      BY <1>4, <1>5, <2>2, <3>1, WriteKeeps
  <2>. QED
    BY <2>1, <2>2
<1>11. ASSUME NEW q \in BoardPins PROVE AskedFsel(q)'
  <2>1. CASE q = p
    <3>1. asked[p] = "none"
      BY <1>2, <1>3, <1>5 DEF PinsWork, PinsFsel, AskedFsel
    <3>. QED
      BY <1>1, <2>1, <3>1 DEF AskedFsel
  <2>2. CASE q # p
    BY <1>4, <1>5, <2>2, WriteKeeps
  <2>. QED
    BY <2>1, <2>2
<1>. QED
  BY <1>4, <1>5, <1>8, <1>9, <1>10, <1>11, WriteKeeps DEF PinsWork, PinsFsel

\* A step of gpio_init that leaves the functions of the pins alone.
LEMMA GpioMoves ==
  ASSUME PinsWork, NEW t \in GpioUsers, NEW l \in GpioPlaces, pc' = [pc EXCEPT ![t] = l],
         DOMAIN job' = Callers \cup GpioUsers, at' \in [Callers \cup GpioUsers -> Nat \ {0}],
         \A u \in Callers \cup GpioUsers : u # t => job'[u] = job[u] /\ at'[u] = at[u],
         DOMAIN asked' = BoardPins, DOMAIN pull' = BoardPins,
         DOMAIN clkseen' = Callers \cup GpioUsers,
         GpioShape(t)', \A u \in GpioUsers : GpioFsel(u)', \A p \in BoardPins : AskedFsel(p)',
         PinsPull', UNCHANGED <<lock, fsel, lost>>
  PROVE  PinsWork'
<1>1. /\ pc' \in [Callers \cup GpioUsers -> CallerPlaces \cup GpioPlaces]
      /\ \A u \in Callers \cup GpioUsers : u # t => pc'[u] = pc[u]
  BY DEF PinsWork, PinsShape
<1>2. t \notin Callers
  BY CallersApart
<1>3. ASSUME NEW u \in Callers PROVE CallerShape(u)' /\ CallerFsel(u)'
  <2>1. pc'[u] = pc[u] /\ job'[u] = job[u] /\ at'[u] = at[u] /\ CallerShape(u) /\ CallerFsel(u)
    BY <1>1, <1>2 DEF PinsWork, PinsShape, PinsFsel
  <2>. QED
    BY <2>1 DEF CallerShape, CallerFsel, BusPin
<1>4. ASSUME NEW u \in GpioUsers PROVE GpioShape(u)'
  BY <1>1 DEF PinsWork, PinsShape, GpioShape, GPin
<1>5. ASSUME NEW b \in BusNames PROVE Parked(b)'
  BY DEF PinsWork, PinsFsel, Parked, BusPin
<1>6. PinsShape'
  <2>1. \A b \in BusNames, u \in Callers : lock'[b] = u => pc'[u] \in Holding /\ job'[u].bus = b
    BY <1>1, <1>2 DEF PinsWork, PinsShape
  <2>. QED
    BY <1>1, <1>3, <1>4, <2>1 DEF PinsWork, PinsShape
<1>. QED
  BY <1>3, <1>5, <1>6 DEF PinsWork, PinsFsel

\* The record of a gpio_init.
LEMMA Initialised ==
  ASSUME NEW p, NEW m
  PROVE  /\ Board!Initialising(p, m).pins = <<p>> /\ Board!Initialising(p, m).pins[1] = p
         /\ Board!Initialising(p, m).mode = m /\ Board!Initialising(p, m).fn = Board!mode_fsel(m)
  BY DEF Board!Initialising

LEMMA PinsGpioInit ==
  ASSUME PinsWork, NEW t \in GpioUsers, NEW p \in GpioPins, NEW mode \in GpioModes,
         Board!GpioInit(t, p, mode)
  PROVE  PinsWork'
<1>1. /\ pc[t] = "out" /\ pc' = [pc EXCEPT ![t] = "fsel"] /\ at' = [at EXCEPT ![t] = 1]
      /\ job' = [job EXCEPT ![t] = Board!Initialising(p, mode)]
      /\ asked' = [asked EXCEPT ![p] = "none"]
      /\ crossed' = IF Board!Initialisers(t, p) = {} THEN crossed \ {t}
                    ELSE crossed \cup {t} \cup Board!Initialisers(t, p)
      /\ UNCHANGED <<lock, fsel, pud, clk, pull, clkseen, lost, entangled>>
  BY DEF Board!GpioInit, Board!Goto, Board!NoMode
<1>2. /\ pc'[t] = "fsel" /\ at'[t] = 1 /\ job'[t] = Board!Initialising(p, mode)
      /\ DOMAIN job' = Callers \cup GpioUsers /\ DOMAIN asked' = BoardPins
      /\ at' \in [Callers \cup GpioUsers -> Nat \ {0}]
      /\ \A u \in Callers \cup GpioUsers : u # t => /\ pc'[u] = pc[u] /\ job'[u] = job[u]
                                                  /\ at'[u] = at[u]
      /\ p \in BoardPins /\ asked'[p] = "none" /\ \A q \in BoardPins : q # p => asked'[q] = asked[q]
  BY <1>1, GpioOnBoard DEF PinsWork, PinsShape
<1>3. GPin(t)' = p /\ \A u \in GpioUsers : u # t => GPin(u)' = GPin(u)
  BY <1>2, Initialised DEF GPin
<1>4. GpioShape(t)'
  BY <1>2, <1>3, Initialised DEF GpioShape, GpioPlaces
<1>5. \A u \in GpioUsers : u # t /\ pc[u] # "out" /\ GPin(u) = p => u \in Board!Initialisers(t, p)
  BY DEF PinsWork, PinsShape, GpioShape, Board!Initialisers
<1>6. ASSUME NEW u \in GpioUsers PROVE GpioFsel(u)'
  <2>1. CASE u = t
    <3>1. t \notin crossed' => \A v \in GpioUsers : v # t /\ pc'[v] # "out" => GPin(v)' # p
      BY <1>1, <1>2, <1>3, <1>5
    <3>. QED
      BY <1>2, <1>3, <2>1, <3>1 DEF GpioFsel
  <2>2. CASE u # t
    <3>1. pc'[u] # "out" /\ u \notin crossed' => u \notin crossed /\ GPin(u) # p
      BY <1>1, <1>2, <1>5, <2>2
    <3>. QED
      BY <1>1, <1>2, <1>3, <2>2, <3>1 DEF PinsWork, PinsFsel, GpioFsel
  <2>. QED
    BY <2>1, <2>2
<1>7. ASSUME NEW q \in BoardPins PROVE AskedFsel(q)'
  <2>1. CASE q = p
    BY <1>2, <2>1 DEF AskedFsel
  <2>2. CASE q # p
    BY <1>1, <1>2, <1>3, <2>2 DEF PinsWork, PinsFsel, AskedFsel
  <2>. QED
    BY <2>1, <2>2
<1>8. PinsPull'
  <2>1. AskedPull(p)'
    BY <1>2 DEF AskedPull
  <2>. QED
    BY <1>1, <1>2, <2>1, PullOutside DEF PinsWork, Pulling
<1>9. "fsel" \in GpioPlaces /\ DOMAIN pull' = BoardPins /\ DOMAIN clkseen' = Callers \cup GpioUsers
  BY <1>1 DEF PinsWork, PinsShape, GpioPlaces
<1>. QED
  BY <1>1, <1>2, <1>4, <1>6, <1>7, <1>8, <1>9, GpioMoves

\* A later step of gpio_init; the last one says what has been asked for.
LEMMA GpioGoesOn ==
  ASSUME PinsWork, NEW t \in GpioUsers, NEW l \in GpioPlaces, l # "out", pc[t] # "out", at[t] > 1,
         pc' = [pc EXCEPT ![t] = l], PinsPull',
         DOMAIN pull' = BoardPins, DOMAIN clkseen' = Callers \cup GpioUsers,
         UNCHANGED <<lock, fsel, lost, job, at, asked, crossed>>
  PROVE  PinsWork'
<1>1. pc'[t] = l /\ \A u \in GpioUsers : u # t => pc'[u] = pc[u]
  BY DEF PinsWork, PinsShape
<1>2. \A u \in GpioUsers : /\ GPin(u)' = GPin(u) /\ GpioShape(u) /\ GpioFsel(u)
                           /\ (pc'[u] = "out" <=> pc[u] = "out")
  BY <1>1 DEF GPin, PinsWork, PinsShape, PinsFsel
<1>3. GpioShape(t)'
  BY <1>1, <1>2 DEF GpioShape
<1>4. ASSUME NEW u \in GpioUsers PROVE GpioFsel(u)'
  BY <1>2 DEF GpioFsel
<1>5. ASSUME NEW p \in BoardPins PROVE AskedFsel(p)'
  BY <1>2 DEF PinsWork, PinsFsel, AskedFsel
<1>6. /\ DOMAIN job' = Callers \cup GpioUsers /\ at' \in [Callers \cup GpioUsers -> Nat \ {0}]
      /\ DOMAIN asked' = BoardPins
      /\ \A u \in Callers \cup GpioUsers : u # t => job'[u] = job[u] /\ at'[u] = at[u]
  BY DEF PinsWork, PinsShape
<1>. QED
  BY <1>3, <1>4, <1>5, <1>6, GpioMoves

LEMMA GpioReturns ==
  ASSUME PinsWork, NEW t \in GpioUsers, pc[t] # "out", at[t] > 1, Board!Return(t), PinsPull',
         DOMAIN pull' = BoardPins, DOMAIN clkseen' = Callers \cup GpioUsers,
         UNCHANGED <<lock, fsel, lost, at, crossed>>
  PROVE  PinsWork'
<1>1. PICK p : p = GPin(t)
  OBVIOUS
<1>2. /\ pc' = [pc EXCEPT ![t] = "out"] /\ job' = [job EXCEPT ![t] = Board!Idle]
      /\ asked' = [asked EXCEPT ![p] = IF t \in crossed THEN "none" ELSE job[t].mode]
  BY <1>1 DEF Board!Return, Board!Goto, Board!NoMode, GPin
<1>3. p \in GpioPins /\ p \in BoardPins
  BY <1>1, GpioOnBoard DEF PinsWork, PinsShape, GpioShape
<1>4. /\ pc'[t] = "out" /\ \A u \in GpioUsers : u # t => pc'[u] = pc[u] /\ GPin(u)' = GPin(u)
      /\ DOMAIN job' = Callers \cup GpioUsers /\ DOMAIN asked' = BoardPins
      /\ asked'[p] = IF t \in crossed THEN "none" ELSE job[t].mode
      /\ \A q \in BoardPins : q # p => asked'[q] = asked[q]
      /\ at' \in [Callers \cup GpioUsers -> Nat \ {0}]
      /\ \A u \in Callers \cup GpioUsers : u # t => job'[u] = job[u] /\ at'[u] = at[u]
  BY <1>2, <1>3 DEF PinsWork, PinsShape, GPin
<1>5. GpioShape(t)' /\ "out" \in GpioPlaces
  BY <1>4 DEF GpioShape, GpioPlaces
<1>6. ASSUME NEW u \in GpioUsers PROVE GpioFsel(u)'
  BY <1>4 DEF PinsWork, PinsFsel, GpioFsel
<1>7. AskedFsel(p)'
  <2>1. CASE t \in crossed
    BY <1>4, <2>1 DEF AskedFsel
  <2>2. CASE t \notin crossed
    <3>1. \A u \in GpioUsers : u # t /\ pc[u] # "out" => GPin(u) # p
      BY <1>1, <2>2 DEF PinsWork, PinsFsel, GpioFsel
    <3>2. p \notin lost => fsel[p] = job[t].fn
      BY <1>1, <2>2 DEF PinsWork, PinsFsel, GpioFsel
    <3>3. \A m : job[t].mode = m => job[t].fn = Board!mode_fsel(m)
      BY DEF PinsWork, PinsShape, GpioShape
    <3>. QED
      BY <1>3, <1>4, <2>2, <3>1, <3>2, <3>3 DEF AskedFsel
  <2>. QED
    BY <2>1, <2>2
<1>8. ASSUME NEW q \in BoardPins, q # p PROVE AskedFsel(q)'
  BY <1>4, <1>8 DEF PinsWork, PinsFsel, AskedFsel
<1>. QED
  BY <1>2, <1>4, <1>5, <1>6, <1>7, <1>8, GpioMoves

LEMMA PinsFselDone ==
  ASSUME PinsWork, NEW t \in GpioUsers, Board!GpioFselDone(t)
  PROVE  PinsWork'
<1>1. /\ pc[t] = "fsel" /\ at[t] > Len(job[t].pins)
      /\ UNCHANGED <<lock, fsel, pud, clk, pull, at, clkseen, lost, crossed, entangled>>
  BY DEF Board!GpioFselDone, Board!Configured, Board!history
<1>2. /\ at[t] > 1 /\ GPin(t) \in GpioPins /\ DOMAIN pull' = BoardPins
      /\ DOMAIN clkseen' = Callers \cup GpioUsers
  BY <1>1 DEF PinsWork, PinsShape, GpioShape
<1>3. CASE Board!wants_pull(t)
  <2>1. pc' = [pc EXCEPT ![t] = "pud"] /\ UNCHANGED <<job, asked>>
    BY <1>3 DEF Board!GpioFselDone, Board!Goto
  <2>2. pc'[t] = "pud" /\ \A u \in GpioUsers : u # t => pc'[u] = pc[u]
    BY <2>1 DEF PinsWork, PinsShape
  <2>3. PinsPull'
    BY <1>1, <2>1, <2>2, PullOutside DEF PinsWork, Pulling
  <2>4. "pud" \in GpioPlaces
    BY DEF GpioPlaces
  <2>. QED
    BY <1>1, <1>2, <2>1, <2>3, <2>4, GpioGoesOn
<1>4. CASE ~ Board!wants_pull(t)
  <2>1. Board!Return(t)
    BY <1>4 DEF Board!GpioFselDone
  <2>2. /\ pc' = [pc EXCEPT ![t] = "out"] /\ job' = [job EXCEPT ![t] = Board!Idle]
        /\ asked' = [asked EXCEPT ![GPin(t)] = IF t \in crossed THEN "none" ELSE job[t].mode]
    BY <2>1 DEF Board!Return, Board!Goto, Board!NoMode, GPin
  <2>3. /\ pc'[t] = "out" /\ \A u \in GpioUsers : u # t => pc'[u] = pc[u] /\ job'[u] = job[u]
        /\ asked'[GPin(t)] = IF t \in crossed THEN "none" ELSE job[t].mode
        /\ \A q \in BoardPins : q # GPin(t) => asked'[q] = asked[q]
    BY <1>2, <2>2, GpioOnBoard DEF PinsWork, PinsShape
  <2>4. \A m : job[t].mode = m => Board!mode_pull(m) = "off"
    BY <1>4 DEF Board!wants_pull
  <2>5. \A p \in BoardPins : asked'[p] = asked[p] \/ AskedPull(p)'
    <3> SUFFICES ASSUME NEW p \in BoardPins, p = GPin(t) PROVE AskedPull(p)'
      BY <2>3
    <3>. QED
      BY <2>3, <2>4 DEF AskedPull
  <2>6. PinsPull'
    BY <1>1, <2>3, <2>5, PullOutside DEF PinsWork, Pulling
  <2>. QED
    BY <1>1, <1>2, <2>1, <2>6, GpioReturns
<1>. QED
  BY <1>3, <1>4

\* A thread that is setting a pull is past the function; the facts its steps share.
LEMMA AtPull ==
  ASSUME PinsWork, NEW t \in GpioUsers, pc[t] \in {"pud"} \cup Pulling
  PROVE  /\ pc[t] # "out" /\ at[t] > 1 /\ GPin(t) \in BoardPins
         /\ DOMAIN pull = BoardPins /\ DOMAIN clkseen = Callers \cup GpioUsers
         /\ pc \in [Callers \cup GpioUsers -> CallerPlaces \cup GpioPlaces]
         /\ \A u \in GpioUsers : u # t /\ pc[u] \in Pulling /\ pc[t] \in Pulling =>
                GPin(u) \in entangled /\ GPin(t) \in entangled
  BY GpioOnBoard DEF PinsWork, PinsShape, GpioShape, PinsPull, AloneAtPull, Pulling

LEMMA PinsSetPud ==
  ASSUME PinsWork, NEW t \in GpioUsers, Board!SetPud(t)
  PROVE  PinsWork'
<1>1. /\ pc[t] = "pud" /\ pc' = [pc EXCEPT ![t] = "clk"] /\ pud' = Board!mode_pull(job[t].mode)
      /\ entangled' = IF Board!Pullers(t) = {} THEN entangled
                      ELSE entangled \cup {job[u].pins[1] : u \in Board!Pullers(t) \cup {t}}
      /\ UNCHANGED <<lock, fsel, clk, pull, job, at, clkseen, asked, lost, crossed>>
  BY DEF Board!SetPud, Board!Goto
<1>2. at[t] > 1 /\ DOMAIN pull = BoardPins /\ DOMAIN clkseen = Callers \cup GpioUsers
  BY <1>1, AtPull
<1>3. pc'[t] = "clk" /\ \A u \in GpioUsers : u # t => pc'[u] = pc[u]
  BY <1>1 DEF PinsWork, PinsShape
<1>4. \A u \in GpioUsers : GPin(u)' = GPin(u)
  BY <1>1 DEF GPin
<1>5. /\ \A p : p \notin entangled' => p \notin entangled
      /\ \A u \in GpioUsers : u # t /\ pc[u] \in Pulling =>
             GPin(u) \in entangled' /\ GPin(t) \in entangled'
  <2>1. \A u \in GpioUsers : u # t /\ pc[u] \in Pulling => u \in Board!Pullers(t)
    BY DEF Board!Pullers, Board!Pulling, Pulling
  <2>. QED
    BY <1>1, <2>1 DEF GPin
<1>6. AloneAtPull'
  BY <1>3, <1>4, <1>5 DEF PinsWork, PinsPull, AloneAtPull
<1>7. ClockOwned'
  BY <1>1, <1>3, <1>4, <1>5 DEF PinsWork, PinsPull, ClockOwned
<1>8. ClockSeen'
  BY <1>1, <1>3, <1>4, <1>5 DEF PinsWork, PinsPull, ClockSeen
<1>9. ASSUME NEW u \in GpioUsers PROVE PullMade(u)'
  <2>1. CASE u = t
    BY <1>1, <1>3, <2>1 DEF PullMade
  <2>2. CASE u # t
    <3>1. pc[u] \in Pulling => GPin(u) \in entangled'
      BY <1>5, <2>2
    <3>. QED
      BY <1>3, <1>4, <2>2, <3>1 DEF PullMade, Pulling
  <2>. QED
    BY <2>1, <2>2
<1>10. ASSUME NEW p \in BoardPins PROVE AskedPull(p)'
  BY <1>1, <1>5 DEF PinsWork, PinsPull, AskedPull
<1>11. PinsPull'
  BY <1>6, <1>7, <1>8, <1>9, <1>10 DEF PinsPull
<1>12. "clk" \in GpioPlaces
  BY DEF GpioPlaces, Pulling
<1>. QED
  BY <1>1, <1>2, <1>11, <1>12, GpioGoesOn

LEMMA PinsClkRead ==
  ASSUME PinsWork, NEW t \in GpioUsers, Board!ClkRead(t)
  PROVE  PinsWork'
<1>1. PICK l : l = IF pc[t] = "clk" THEN "clkset" ELSE "clkclr"
  OBVIOUS
<1>2. /\ pc[t] \in {"clk", "unclk"} /\ pc' = [pc EXCEPT ![t] = l]
      /\ clkseen' = [clkseen EXCEPT ![t] = clk]
      /\ UNCHANGED <<lock, fsel, pud, clk, pull, job, at, asked, lost, crossed, entangled>>
  BY <1>1 DEF Board!ClkRead, Board!Goto, Board!history
<1>3. /\ pc[t] \in Pulling /\ at[t] > 1 /\ DOMAIN pull = BoardPins
      /\ \A u \in GpioUsers : u # t /\ pc[u] \in Pulling => GPin(u) \in entangled
  BY <1>2, AtPull DEF Pulling
<1>4. /\ pc'[t] = l /\ clkseen'[t] = clk /\ DOMAIN clkseen' = Callers \cup GpioUsers
      /\ \A u \in GpioUsers : u # t => pc'[u] = pc[u] /\ clkseen'[u] = clkseen[u]
  BY <1>2 DEF PinsWork, PinsShape
<1>5. \A u \in GpioUsers : GPin(u)' = GPin(u) /\ (pc'[u] \in Pulling <=> pc[u] \in Pulling)
  BY <1>1, <1>2, <1>3, <1>4 DEF GPin, Pulling
<1>6. AloneAtPull'
  BY <1>2, <1>5 DEF PinsWork, PinsPull, AloneAtPull
<1>7. ClockOwned'
  BY <1>1, <1>2, <1>4, <1>5 DEF PinsWork, PinsPull, ClockOwned
<1>8. ClockSeen'
  <2>1. ASSUME NEW p \in clk, p \notin entangled PROVE l = "clkclr" /\ GPin(t) = p
    <3>1. PICK u \in GpioUsers : pc[u] \in {"off", "unclk", "clkclr"} /\ GPin(u) = p
      BY <2>1 DEF PinsWork, PinsPull, ClockOwned
    <3>2. u = t
      BY <1>3, <2>1, <3>1 DEF Pulling
    <3>. QED
      BY <1>1, <3>1, <3>2
  <2>. QED
    BY <1>2, <1>4, <1>5, <2>1 DEF PinsWork, PinsPull, ClockSeen
<1>9. ASSUME NEW u \in GpioUsers PROVE PullMade(u)'
  BY <1>1, <1>2, <1>4, <1>5 DEF PinsWork, PinsPull, PullMade
<1>10. ASSUME NEW p \in BoardPins PROVE AskedPull(p)'
  BY <1>2 DEF PinsWork, PinsPull, AskedPull
<1>11. PinsPull'
  BY <1>6, <1>7, <1>8, <1>9, <1>10 DEF PinsPull
<1>12. l \in GpioPlaces /\ l # "out" /\ pc[t] # "out"
  BY <1>1, <1>2 DEF GpioPlaces, Pulling
<1>. QED
  BY <1>2, <1>3, <1>4, <1>11, <1>12, GpioGoesOn

LEMMA PinsClkSet ==
  ASSUME PinsWork, NEW t \in GpioUsers, Board!ClkSet(t)
  PROVE  PinsWork'
<1> DEFINE new == clkseen[t] \cup {GPin(t)}
<1>1. /\ pc[t] = "clkset" /\ pc' = [pc EXCEPT ![t] = "off"] /\ clk' = new
      /\ pull' = [p \in BoardPins |-> IF p \in new \ clk THEN pud ELSE pull[p]]
      /\ clkseen' = [clkseen EXCEPT ![t] = {}]
      /\ UNCHANGED <<lock, fsel, pud, job, at, asked, lost, crossed, entangled>>
  BY DEF Board!ClkSet, Board!Goto, Board!history, GPin, BoardPins
<1>2. /\ pc[t] \in Pulling /\ at[t] > 1 /\ GPin(t) \in BoardPins
      /\ \A u \in GpioUsers : u # t /\ pc[u] \in Pulling =>
             GPin(u) \in entangled /\ GPin(t) \in entangled
  BY <1>1, AtPull DEF Pulling
<1>3. /\ pc'[t] = "off" /\ clkseen'[t] = {} /\ DOMAIN clkseen' = Callers \cup GpioUsers
      /\ \A u \in GpioUsers : u # t => pc'[u] = pc[u] /\ clkseen'[u] = clkseen[u]
      /\ DOMAIN pull' = BoardPins
  BY <1>1 DEF PinsWork, PinsShape
<1>4. \A u \in GpioUsers : GPin(u)' = GPin(u) /\ (pc'[u] \in Pulling <=> pc[u] \in Pulling)
  BY <1>1, <1>2, <1>3 DEF GPin, Pulling
<1>5. \A p \in clkseen[t] : p \in entangled
  BY <1>1 DEF PinsWork, PinsPull, ClockSeen
<1>6. AloneAtPull'
  BY <1>1, <1>4 DEF PinsWork, PinsPull, AloneAtPull
<1>7. ClockOwned'
  BY <1>1, <1>3, <1>4, <1>5 DEF ClockOwned
<1>8. ClockSeen'
  BY <1>1, <1>3, <1>4 DEF PinsWork, PinsPull, ClockSeen
<1>9. ASSUME NEW u \in GpioUsers PROVE PullMade(u)'
  <2>1. CASE u = t
    <3>1. GPin(t) \notin entangled => GPin(t) \notin clk
      BY <1>1, <1>2 DEF PinsWork, PinsPull, ClockOwned, Pulling
    <3>2. GPin(t) \notin entangled => pull'[GPin(t)] = pud
      BY <1>1, <1>2, <3>1
    <3>. QED
      BY <1>1, <1>3, <1>4, <2>1, <3>2 DEF PinsWork, PinsPull, PullMade
  <2>2. CASE u # t
    BY <1>1, <1>2, <1>3, <1>4, <2>2 DEF PullMade, Pulling
  <2>. QED
    BY <2>1, <2>2
<1>10. ASSUME NEW p \in BoardPins PROVE AskedPull(p)'
  <2>1. asked[p] # "none" => GPin(t) # p
    BY <1>1 DEF PinsWork, PinsFsel, AskedFsel
  <2>2. asked[p] # "none" /\ p \notin entangled => pull'[p] = pull[p]
    BY <1>1, <1>5, <2>1
  <2>. QED
    BY <1>1, <2>2 DEF PinsWork, PinsPull, AskedPull
<1>11. PinsPull'
  BY <1>6, <1>7, <1>8, <1>9, <1>10 DEF PinsPull
<1>12. "off" \in GpioPlaces
  BY DEF GpioPlaces, Pulling
<1>. QED
  BY <1>1, <1>2, <1>3, <1>11, <1>12, GpioGoesOn

LEMMA PinsPudOff ==
  ASSUME PinsWork, NEW t \in GpioUsers, Board!PudOff(t)
  PROVE  PinsWork'
<1>1. /\ pc[t] = "off" /\ pc' = [pc EXCEPT ![t] = "unclk"]
      /\ UNCHANGED <<lock, fsel, clk, pull, job, at, clkseen, asked, lost, crossed, entangled>>
  BY DEF Board!PudOff, Board!Goto, Board!history
<1>2. /\ pc[t] \in Pulling /\ at[t] > 1 /\ DOMAIN pull = BoardPins
      /\ DOMAIN clkseen = Callers \cup GpioUsers
      /\ \A u \in GpioUsers : u # t /\ pc[u] \in Pulling => GPin(u) \in entangled
  BY <1>1, AtPull DEF Pulling
<1>3. pc'[t] = "unclk" /\ \A u \in GpioUsers : u # t => pc'[u] = pc[u]
  BY <1>1 DEF PinsWork, PinsShape
<1>4. \A u \in GpioUsers : GPin(u)' = GPin(u) /\ (pc'[u] \in Pulling <=> pc[u] \in Pulling)
  BY <1>1, <1>2, <1>3 DEF GPin, Pulling
<1>5. AloneAtPull'
  BY <1>1, <1>4 DEF PinsWork, PinsPull, AloneAtPull
<1>6. ClockOwned'
  BY <1>1, <1>3, <1>4 DEF PinsWork, PinsPull, ClockOwned
<1>7. ClockSeen'
  BY <1>1, <1>3, <1>4 DEF PinsWork, PinsPull, ClockSeen
<1>8. ASSUME NEW u \in GpioUsers PROVE PullMade(u)'
  BY <1>1, <1>2, <1>3, <1>4 DEF PinsWork, PinsPull, PullMade, Pulling
<1>9. ASSUME NEW p \in BoardPins PROVE AskedPull(p)'
  BY <1>1 DEF PinsWork, PinsPull, AskedPull
<1>10. PinsPull'
  BY <1>5, <1>6, <1>7, <1>8, <1>9 DEF PinsPull
<1>11. "unclk" \in GpioPlaces
  BY DEF GpioPlaces, Pulling
<1>. QED
  BY <1>1, <1>2, <1>10, <1>11, GpioGoesOn

LEMMA PinsClkClear ==
  ASSUME PinsWork, NEW t \in GpioUsers, Board!ClkClear(t)
  PROVE  PinsWork'
<1> DEFINE new == clkseen[t] \ {GPin(t)}
<1>1. /\ pc[t] = "clkclr" /\ Board!Return(t) /\ clk' = new
      /\ pull' = [p \in BoardPins |-> IF p \in new \ clk THEN pud ELSE pull[p]]
      /\ clkseen' = [clkseen EXCEPT ![t] = {}]
      /\ UNCHANGED <<lock, fsel, pud, at, lost, crossed, entangled>>
  BY DEF Board!ClkClear, Board!history, GPin, BoardPins
<1>2. /\ pc[t] \in Pulling /\ at[t] > 1 /\ GPin(t) \in BoardPins
      /\ \A u \in GpioUsers : u # t /\ pc[u] \in Pulling =>
             GPin(u) \in entangled /\ GPin(t) \in entangled
  BY <1>1, AtPull DEF Pulling
<1>3. /\ pc' = [pc EXCEPT ![t] = "out"] /\ job' = [job EXCEPT ![t] = Board!Idle]
      /\ asked' = [asked EXCEPT ![GPin(t)] = IF t \in crossed THEN "none" ELSE job[t].mode]
  BY <1>1 DEF Board!Return, Board!Goto, Board!NoMode, GPin
<1>4. /\ pc'[t] = "out" /\ clkseen'[t] = {} /\ DOMAIN clkseen' = Callers \cup GpioUsers
      /\ \A u \in GpioUsers : u # t => /\ pc'[u] = pc[u] /\ clkseen'[u] = clkseen[u]
                                       /\ job'[u] = job[u]
      /\ DOMAIN pull' = BoardPins
      /\ asked'[GPin(t)] = IF t \in crossed THEN "none" ELSE job[t].mode
      /\ \A q \in BoardPins : q # GPin(t) => asked'[q] = asked[q]
  BY <1>1, <1>2, <1>3 DEF PinsWork, PinsShape
<1>5. \A u \in GpioUsers : u # t => GPin(u)' = GPin(u)
  BY <1>4 DEF GPin
<1>6. \A p \in new : p \in entangled
  BY <1>1 DEF PinsWork, PinsPull, ClockSeen
<1>7. \A p \in BoardPins : p \notin entangled => pull'[p] = pull[p]
  BY <1>1, <1>6
<1>8. AloneAtPull'
  BY <1>1, <1>4, <1>5 DEF PinsWork, PinsPull, AloneAtPull, Pulling
<1>9. ClockOwned'
  BY <1>1, <1>6 DEF ClockOwned
<1>10. ClockSeen'
  BY <1>1, <1>4, <1>5 DEF PinsWork, PinsPull, ClockSeen
<1>11. ASSUME NEW u \in GpioUsers PROVE PullMade(u)'
  <2>1. CASE u = t
    BY <1>4, <2>1 DEF PullMade
  <2>2. CASE u # t
    BY <1>1, <1>2, <1>4, <1>5, <2>2 DEF PullMade, Pulling
  <2>. QED
    BY <2>1, <2>2
<1>12. ASSUME NEW p \in BoardPins PROVE AskedPull(p)'
  <2>1. CASE p # GPin(t)
    BY <1>1, <1>4, <1>7, <2>1 DEF PinsWork, PinsPull, AskedPull
  <2>2. CASE p = GPin(t)
    <3>1. p \notin entangled => \A m : job[t].mode = m => pull[p] = Board!mode_pull(m)
      BY <1>1, <2>2 DEF PinsWork, PinsPull, PullMade
    <3>. QED
      BY <1>1, <1>4, <1>7, <2>2, <3>1 DEF AskedPull
  <2>. QED
    BY <2>1, <2>2
<1>13. PinsPull'
  BY <1>8, <1>9, <1>10, <1>11, <1>12 DEF PinsPull
<1>. QED
  BY <1>1, <1>2, <1>4, <1>13, GpioReturns

LEMMA PinsNext ==
  ASSUME PinsWork, Board!Next
  PROVE  PinsWork'
<1>1. ASSUME NEW t \in Callers \cup GpioUsers, Board!FselRead(t) PROVE PinsWork'
  BY <1>1, PinsUnmoved DEF Board!FselRead, Board!history
<1>2. ASSUME NEW t \in Callers, Board!Steps(t) PROVE PinsWork'
  <2>1. pc[t] \in {"out", "lock", "acquire", "held", "release"}
    BY DEF PinsWork, PinsShape, CallerShape, CallerPlaces
  <2>2. ~ (Board!GpioFselDone(t) \/ Board!SetPud(t) \/ Board!ClkRead(t) \/ Board!ClkSet(t)
           \/ Board!PudOff(t) \/ Board!ClkClear(t))
    BY <2>1 DEF Board!GpioFselDone, Board!SetPud, Board!ClkRead, Board!ClkSet, Board!PudOff,
       Board!ClkClear
  <2>. QED
    BY <1>1, <1>2, <2>2, PinsAcquire, PinsAcquired, PinsRelease, PinsUnlock, PinsCallerWrites
    DEF Board!Steps
<1>3. ASSUME NEW t \in GpioUsers, Board!Steps(t) PROVE PinsWork'
  <2>1. pc[t] \notin {"lock", "acquire", "held", "release"}
    BY DEF PinsWork, PinsShape, GpioShape, GpioPlaces, Pulling
  <2>2. ~ (Board!Acquire(t) \/ Board!Acquired(t) \/ Board!Release(t) \/ Board!Unlock(t))
    BY <2>1 DEF Board!Acquire, Board!Acquired, Board!Release, Board!Unlock
  <2>. QED
    BY <1>1, <1>3, <2>2, PinsGpioWrites, PinsFselDone, PinsSetPud, PinsClkRead, PinsClkSet,
       PinsPudOff, PinsClkClear DEF Board!Steps
<1>4. ASSUME NEW t \in Callers, NEW b, Board!Call(t, b) PROVE PinsWork'
  <2>1. b \in BusNames
    BY <1>4 DEF Board!Call, BusNames
  <2>. QED
    BY <1>4, <2>1, PinsCall
<1>5. ASSUME NEW t \in GpioUsers, NEW p \in GpioPins, NEW mode \in GpioModes,
             Board!GpioInit(t, p, mode)
      PROVE  PinsWork'
  BY <1>5, PinsGpioInit
<1>. QED
  BY <1>2, <1>3, <1>4, <1>5 DEF Board!Next, Board!Threads

LEMMA PinsWorkAlways == Spec => [](part = "pins" => PinsWork)
<1> DEFINE I == part \in {"pins", "sensors", "flash"} /\ (part = "pins" => PinsWork)
<1>1. Init => I
  BY PinsInit DEF Init
<1>2. I /\ [Next]_vars => I'
  <2> SUFFICES ASSUME I, [Next]_vars PROVE I'
    OBVIOUS
  <2>1. CASE OnPins(Board!Next)
    BY <2>1, PinsNext DEF OnPins
  <2>2. CASE OnSensors(Sensors!Next) \/ OnFlash(Flash!Next)
    BY <2>2 DEF OnSensors, OnFlash
  <2>3. CASE UNCHANGED vars
    BY <2>3, PinsUnmoved DEF vars, pinsOnly
  <2>. QED
    BY <2>1, <2>2, <2>3 DEF Next
<1>3. I => (part = "pins" => PinsWork)
  OBVIOUS
<1>. QED
  BY <1>1, <1>2, <1>3, PTL DEF Spec

-----------------------------------------------------------------------------
(* The theorems. *)

\* A behaviour is one of one of the three parts.
LEMMA OnePart == Spec => [](part \in {"pins", "sensors", "flash"})
<1> DEFINE I == part \in {"pins", "sensors", "flash"}
<1>1. Init => I
  BY DEF Init
<1>2. I /\ [Next]_vars => I'
  BY DEF Next, OnPins, OnSensors, OnFlash, vars
<1>. QED
  BY <1>1, <1>2, PTL DEF Spec

\* i2c_acquire and spi_acquire keep every other thread out until the release, on
\* every way out of a driver function, for any number of callers and calls.
THEOREM HolderOnlyCorrect == Spec => []HolderOnly
<1>1. PinsWork => Board!BusExclusion
  <2>1. Board!Holding = Holding
    BY DEF Board!Holding, Holding
  <2>. QED
    BY <2>1 DEF PinsWork, PinsShape, CallerShape, Board!BusExclusion
<1>2. SensorsWork => Sensors!OneOnTheBus
  BY DEF SensorsWork, SensorTypes
<1>3. FlashWork => Flash!ExclusiveBus
  BY DEF FlashWork, Flash!ExclusiveBus
<1>4. ASSUME part \in {"pins", "sensors", "flash"}, part = "pins" => PinsWork,
             part = "sensors" => SensorsWork, part = "flash" => FlashWork
      PROVE  HolderOnly
  BY <1>1, <1>2, <1>3, <1>4 DEF HolderOnly
<1>. QED
  BY <1>4, OnePart, PinsWorkAlways, SensorsWorkAlways, FlashWorkAlways, PTL

\* A pin has the function and the pull its last user gave it unless another user
\* of its register has written back an old value of this very pin, or another
\* pull was being set beside its own: for any number of callers, who use all
\* three buses, and of gpio_init threads, on any pins that no bus has.
THEOREM PinsAsAskedCorrect == Spec => []PinsAsAsked
<1>1. ASSUME PinsWork
      PROVE  Board!PinsSelected /\ Board!PinsParked /\ Board!GpioAsAsked /\ Board!PullAsAsked
  <2>1. Board!PinsSelected
    <3> SUFFICES ASSUME NEW t \in Callers, pc[t] = "held", NEW k \in 1 .. Len(job[t].pins),
                        job[t].pins[k] \notin lost
                 PROVE  fsel[job[t].pins[k]] = "alt0"
      BY DEF Board!PinsSelected
    <3>1. /\ job[t].bus \in BusNames /\ job[t].pins = BusPin(job[t].bus) /\ job[t].fn = "alt0"
          /\ at[t] > Len(BusPin(job[t].bus)) /\ at[t] \in Nat
      BY <1>1 DEF PinsWork, PinsShape, CallerShape, Holding
    <3>2. Len(BusPin(job[t].bus)) \in Nat /\ k < at[t]
      BY <3>1, PinsOfBuses
    <3>. QED
      BY <1>1, <3>1, <3>2 DEF PinsWork, PinsFsel, CallerFsel, Holding
  <2>2. Board!PinsParked
    BY <1>1, PinsOfBuses DEF PinsWork, PinsFsel, Parked, Board!PinsParked, Board!Buses, Board!Free,
       BusPin
  <2>3. Board!GpioAsAsked
    BY <1>1 DEF PinsWork, PinsFsel, AskedFsel, Board!GpioAsAsked, Board!NoMode, BoardPins
  <2>4. Board!PullAsAsked
    BY <1>1 DEF PinsWork, PinsPull, AskedPull, Board!PullAsAsked, Board!NoMode, BoardPins
  <2>. QED
    BY <2>1, <2>2, <2>3, <2>4
<1>2. (part = "pins" => PinsWork) => PinsAsAsked
  BY <1>1 DEF PinsAsAsked
<1>. QED
  BY <1>2, PinsWorkAlways, PTL

=============================================================================
