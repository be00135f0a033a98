# TrustWasm: a TLA+ model of its asynchronous IO

TrustWasm runs WebAssembly applications inside an OP-TEE trusted application and gives them
asynchronous access to peripherals. An application sends a request and goes on; a thread inside
the secure kernel performs it; the runtime notices at a branch of the application's code that the
result is there and calls a handler, or the application waits for it as a future or a promise. This
directory models that path, from the native function an application calls down to the condition
variable the kernel thread sleeps on and the FIFO registers of the bus controllers, model-checks it
with TLC and proves its main invariants with TLAPS.

Paths below are relative to `src/`.

## 1. Inventory

| part | code | state | operations |
|---|---|---|---|
| IO helper PTA | `optee_os-3.21.0/core/pta/io_helper/`, `core/include/io_helper/` | per peripheral: bitmaps `io_helper_sigusing`, `io_helper_sigpending`, counter `req_nums`, `req_queues`, `io_helper_signal_table` (result, length, buffer of each number) | `START_LOOP`, `READ_REQ`, `READ_REQ_WITH_BUFFER`, `WRITE_REQ`, `WRITE_REQ_WITH_BUFFER`, `POLL`, `POLL_SUBSIGNAL`, `GET_DATA`; 23 request handlers |
| kernel synchronisation | `core/kernel/mutex.c`, `wait_queue.c` | mutex state, wait queue, condition variable | lock, read lock, unlock, wait, signal, init |
| loop host program | `optee_examples/pta_io_helper/host/main.c` | five threads | one `START_LOOP` per peripheral, never returns |
| runtime signal table | `runtime-modified/core/iwasm/interpreter/tz_io_sigtable.c` | `io_sigpending`, `recover_io_sigpending`, `in_handler`, `io_sigtable` | register a handler, scan and poll, save and restore the bitmap around a handler |
| checkpoint | `wasm_interp.h` (interpreter), `aot_poll_ready_signal` (compiled code) | none of its own | at a branch: scan, call one handler |
| adaptive checkpoint | the same files, `USE_ADAPTIVE_CHECKPOINT` | `io_queues` (an estimate per request), `exec_time_table`, `no_profile`, `wait_profile`, `profile_times` | skip polls until a request is expected to be finished |
| native functions | `optee_test-3.21.0/ta/native_tzio/tzio_lib.c` | none (a promise is peripheral and number packed in an int) | callback, future and promise requests, `get_async_data*`, `promise_set_callback`, `all_async_req_handled` |
| bus drivers | `core/drivers/rpi3/rpi3_{gpio,i2c,spi}.c` | a mutex per bus; hardware registers: pin functions, pulls, FIFOs, status flags | acquire, release, transfers, `gpio_init` |
| device drivers | `core/drivers/{bh1750,mpu6050,atk301,at24cxx,gnss,w25qxx,dht}/` | none of their own; the devices' | init, sample, read, write, program, erase |
| driver PTAs | `core/pta/*_service.c` | none | synchronous access for any session, at the same time as the loops |

**How they interact.** A native function invokes the PTA. The PTA is registered `TA_FLAG_CONCURRENT`:
commands of several sessions and the loop threads run in parallel, on shared arrays, under three
mutexes per peripheral. A request is handed to the loop through a queue and a condition variable;
its input lies in heap blocks that the command allocates and the handler frees. A result comes back
through the table entry of the request's *signal number*, which the loop writes without a mutex,
and the ready bit, which it sets afterwards. The runtime itself is single threaded, but its handlers
are called from inside the application's code and reach checkpoints themselves. The loops share buses,
pins and devices with the driver PTAs; a bus has a mutex, the registers that select pins have none.

**What is hard about it.** `get_data` checks the ready bit under a mutex and does its work after
releasing it. `poll` reads the bits and the counter under different mutexes. Numbers are reused at
once, and neither table is cleared. The result of `enqueue` is ignored. `START_LOOP` initialises
mutexes that may be in use. A handler can make its own peripheral pending. Drivers give the bus back
while a device works; transfers that time out leave bytes in FIFOs; registers of ten pins are read
and written back without a lock. `PROJECT.json` lists each hazard with its line and the properties
that cover it.

**What makes each part correct.** IO helper: each accepted request completes once, and its own
result is handed out once; numbers and buffers come back; `poll` tells the truth. Synchronisation:
exclusion, no lost wake-up, no panic, everybody returns. Runtime: handlers do not nest, no
registration is lost, a handler is called for the request it was registered for, each callback is
served. Drivers: what is reported with success happened, on the caller's own behalf, and every call
returns the bus.

## 2. Modules

| module | what it is |
|---|---|
| `AsyncIo` | abstract specification: what a peripheral promises (accept, complete, deliver once) |
| `IoHelper` | one peripheral of the PTA: clients' commands and the loop; refines `AsyncIo` |
| `QueueSync` | the queue mutex, the condition variable and the wait queue, step by step, with their initialisation |
| `SignalLocks` | the functions of `io_signal.h`, step by step over read and write locks |
| `ReqBuffers` | the heap blocks and object handles of a request, from the command to `get_data` |
| `IoSigtable` | the runtime: bitmaps, handler table, checkpoint, native functions, with an abstract IO helper |
| `AdaptiveCheckpoint` | `IoSigtable` in the build with `USE_ADAPTIVE_CHECKPOINT` |
| `PinMux` | acquire and release of the buses and `gpio_init` over the shared pin registers |
| `SensorBus` | the drivers of the devices on an I2C bus, called from several threads |
| `W25qFlash` | the flash driver and the chip |
| `SpiTransfer`, `I2cTransfer` | the transfer functions against the controllers' FIFOs and flags |
| `Dht` | the one-wire driver and its sensor, in time |
| `Transfers` | the three modules above as one specification (no common state) |
| `IoHelperProofs` | theorems about `IoHelper`: its numbers, its results and the refinement |
| `QueueSyncProofs`, `SignalLocksProofs`, `ReqBuffersProofs`, `IoSigtableProofs`, `AdaptiveCheckpointProofs` | theorems about the module of that name |
| `BusSharingProofs` | theorems about `PinMux`, `SensorBus` and `W25qFlash`, in the composition `MCBusSharing` |
| `TransfersProofs` | theorems about `SpiTransfer`, `I2cTransfer` and `Dht`, in the composition `Transfers` |
| `MC...` | instances for TLC; `MCBusSharing` also composes its three modules |

A definition whose comment says *Mutant* is a plausible mistake in the definition that follows it.
It is not part of any specification; it records which mistake each property detects.

How they fit together: `IoHelper` takes the functions of `io_signal.h` and the hand-over of a
request as single steps, which `SignalLocks` and `QueueSync` justify; `IoSigtable` takes the IO helper
as something that completes requests, which `IoHelper` and `AsyncIo` justify; `AdaptiveCheckpoint`
takes it to complete them in order, which is `CompletionOrder`; `SensorBus` and `W25qFlash` take a
transfer as one step that may fail, which `I2cTransfer` and `SpiTransfer` look into; all of those
take place between an acquire and a release of `PinMux`.

### IoHelper

A peripheral's state is independent of every other peripheral's, so the module has one. The
bitmaps are sets of numbers; `req_nums` keeps its wrap-around (`CounterMod`); a request is
`[id, signo, kind, by]`; a table entry is `[ret, len, buf]` plus the history field `req`; a length
is 0 or 1; a buffer is a block with the id of the request it was allocated for.

*Steps.* A section under a mutex is one step. `read_req` and its three siblings are
`AllocateSigno` (under the `sigusing` mutex) followed by `Enqueue` (under the queue mutex, with the
signal, and with the case where the node cannot be allocated). The loop is `LoopWait`,
`LoopDequeue`, `LoopHandle`, `LoopSetReady`. `poll` is `PollReady`, or `PollNothingReady` then
`PollReqNum`. `get_data` is `GetData` (the check), `GetDataTable` (the tests, in the code's order,
and the copy), `GetDataFree`, `GetDataReset`, `ReleaseSigno`. The paths of `get_data` that release
without freeing go straight from the tests to `ReleaseSigno`.

*Handlers.* The 23 handlers fall into families by what they may leave in the entry:
`ReadResults` (bytes or an error), `ObjectResults` (bytes, an allocated empty buffer, or an
error), `SpiResults` (bytes, nothing, or an error), `WriteResults` (every field written, or `ret`
alone if the bus cannot be acquired), and an unsupported request. A failing handler writes `ret`
only: length and buffer keep what the previous request left.

*Clients.* A client in `ByPoll` asks for the number `poll` answered (callbacks); any other asks for
numbers its own requests were given (futures and promises).

### QueueSync, SignalLocks

`QueueSync`: `mutex_lock`, `wq_wait_final`, `mutex_unlock` and `wq_wake_next`, `condvar_link` and
`condvar_sleep`, `condvar_signal` are the sections under spin locks of the functions of the same
names. Requesters run lock, enqueue, signal, unlock; loops run the two initialisations and then
test, wait or take, unlock. `StartFirst` says whether requests begin after the initialisation.

`SignalLocks`: each function of `io_signal.h` takes its locks (`locks_of`; `release_signo` two,
nested), reads what it will change, writes it, unlocks and wakes waiters round by round. Two clients
call any of them in any order, the loop calls `set_ready_signal`.

### ReqBuffers

The four submitting commands with each `malloc`, the number, the queue; a handler is one step that
frees what it frees; `get_data` has a step for each of its ways out. A table entry is `[ret, len,
buf]` as the code leaves it: a handler that fails writes `ret` only, and after the copy `get_data`
resets `len` and `ret` while `buf` keeps pointing to the block it has freed. Every allocation may
fail, a write or an object may be empty, an object may fail to open, describe itself or be read, a
bus may be refused, a type may not be supported. `lost` and `unfreed` record what the code is known
to drop and `handles` the objects it leaves open, so that the invariant can say that nothing else is.

### IoSigtable

The runtime's single thread is a program counter: running application code (`run`), between the
request and the registration of its handler (`register`), inside the poll loop of a promise
(`await`), scanning (`scan`), about to call (`call`), the scan after a handler in compiled code
(`rescan`). The scan is one step per poll because the loop threads finish requests between polls.
`frames` is the stack of handlers. Futures behave as promises that are never given a callback. A
null handler pointer makes `tzio_register_handler` fail after the request was sent; when such a
request finishes on a pending peripheral, compiled code follows a null pointer (`crashed`) and the
interpreter calls function 0.

### AdaptiveCheckpoint

Every action is the one of `IoSigtable` conjoined with what the build adds: a registration appends
an estimate, a call takes the oldest one and updates `exec_time_table`, a checkpoint scans only if
`profile` says yes. The IO helper completes requests in the order they were sent (`fifo`), which is
not always the order of the estimates. Time is abstracted to the moment at which the first estimate
of a peripheral runs out (`GuessEnds`); what `profile` reads in front of `io_queues` when nothing is
pending is a choice (`Garbage`: no estimate, one that has run out, one that has not and says any
number of checkpoints to skip). When `dequeue` finds no estimate, the code goes on with the
uninitialised type: any entry may be updated, or memory elsewhere, and `wild` records it.

### PinMux, SensorBus, W25qFlash

`PinMux`: a pin is configured by a read and a write of its register, two steps; acquire configures
the pins of the bus after taking its mutex, release parks them before giving it up; `gpio_init` has
the steps of the pull sequence. Three histories record what the missing lock does: `lost` (pins whose
function another user of the register has written back), `crossed` and `entangled` (overlapping
`gpio_init`). `SensorBus`: a driver function is a list of sessions between acquire and release, a
session a list of transfers, each of which may fail, and a read may never end (`device_holds`). The
device remembers who gave it its last command and its configuration; the answer's head is looked at
in the session that reads it. `W25qFlash`: a function is a list of steps, some of whose failures the
code ignores; a step succeeds or fails. There is no chip: as `SpiTransfer` shows, success of a
transfer does not tell whether a command without data has left the FIFO, nor is the status that a
register read returns the chip's, so nothing about the chip follows from what the driver returns.

### SpiTransfer, I2cTransfer, Dht

Driver and hardware are two processes. Bytes are named by their transfer and position, so that a
byte left over from another transfer is visible. A wait may time out although the controller gets on
(`slow`, chosen per transfer); a device may refuse a byte, stretch the clock too long or hold it. In
`Dht` each step is 5 us: driver and sensor advance together, and in a stall only the sensor does.

The sessions are the callers: what stands between acquire and release. `SpiAssumption` and
`I2cAssumption` say what these have in common. With I2C, `I2C_CONT` is not given to the first
transfer of a session: `at24cxx_read`, the GNSS driver and the functions on registers continue their
own address transfer. The PTAs pass the flags of an application on; none in the tree sets
`I2C_CONT`, and one that did would meet what a failed transfer of another caller has left. With SPI,
a `cont` transfer that follows another one only sends, and does not follow a register without data
(`w25qxx_page_program` is the one caller in the tree that continues); a first one may do anything,
since `spi_acquire` clears the FIFOs. `TimingAssumption` of `Dht` relates the delays in the code to
the sensor's pulses and to the time a thread may lose per bit; its conjuncts are what the fixed
delays of `dht.c` rely on, and the lengths of the run, which are those of the code and of a DHT
sensor in units of 5 us, satisfy it with 10 us to lose. The loops of `dht.c:127`, `170` and `173`
have no delay in them: they count turns of `gpio_get`, and the model counts time, so the results
about `Dht` hold only as far as `SPIN_TIMEOUT_US` turns take that many microseconds. On hardware where
a turn is shorter, the driver gives a good sensor up earlier than the model says.

## 3. Runs

| run | instance | shows |
|---|---|---|
| `io_helper` | 2 clients, 2 numbers, 3 requests, reads and object reads, failing allocation; 772k states | the safety properties, the refinement of `AsyncIo`, `QueuedComplete`: lost requests do not block the others |
| `io_helper_poll` | 1 client that takes what poll answers, 3 numbers, 4 requests, writes, SPI and unsupported ones | "still processing" is true; `AsyncIo` with its fairness: every request completes |
| `io_helper_shared` | 2 such clients | **violation** of `UsingCounted` |
| `queue_sync` | 2 requesters with 2 requests each, 1 loop | exclusion, no lost wake-up, termination of every command |
| `queue_sync_start` | 1 requester, 1 loop, unordered start | **violation** of `NoPanic` |
| `signal_locks` | 2 clients with 2 calls each, the loop, 2 numbers | no update lost, numbers unique, every function returns |
| `req_buffers` | 2 clients with 2 requests each of six kinds, 3 blocks, 2 numbers; 2.9M states | no block that will be used or freed has been freed or has two owners, nothing is left behind but on the known paths |
| `io_sigtable` | 2 peripherals, 2 numbers, 2 handlers, 3 requests, promises and null pointers, interpreter | no nesting, no lost registration; own handler, callbacks served, spinning ends |
| `io_sigtable_promise` | 1 peripheral, 2 requests, compiled code | **violation** of `PromiseKept` |
| `adaptive` | 2 peripherals, 2 numbers, 3 requests, callbacks and a promise; 197k states | an estimate per request, callbacks served |
| `transfers` | SPI: FIFOs of 2 and 3 bytes, 15 kinds of session; I2C: FIFO of 2, 9 driver functions; DHT: 3 bits; two sessions each; 305k states | success means own bytes, no false failure, every transfer returns |
| `bus_sharing` | 2 callers of I2C0, I2C1 and SPI0, 2 threads in `gpio_init` on pins 4 (in the buses' register) and 17; 2 calls in all on the pins, 1 per caller of every function on sensors and flash; 157k states | bus with its holder, pins as asked but for the races, own answers, every call returns |

`Transfers` and `MCBusSharing` are sums: the three modules of each have no common state, and a
behaviour is a behaviour of one of them (variable `part`). A name two modules use is one variable.

**Conditions.** Some properties are stated under a condition, because the code breaks them without
it (section *Disagreements*). `mixed`, in the runtime's runs: a polled peripheral has had a request
without a callback. `badfree`, in `ReqBuffers`: an unset pointer was freed. `lost` and `entangled`, in
`PinMux`: this very pin was written back by another user of its register, or its pull was set beside
another (two overlapping `gpio_init` of one pin, `crossed`, leave it with no mode that was asked for).
`overtaken`, in `SensorBus`: another command reached the device while the function had given
the bus back. `unheld`, in `W25qFlash`: a function went on after its acquire was refused. `Fits` and a
register without data, in `SpiTransfer`; a held clock, in `I2cTransfer` and in `CallsReturn`. Each
condition is a history variable or a case of the model and the runs reach it; the property says that
nothing else goes wrong. `Fits` counts the answers that an earlier transfer of the session has left
in the RX FIFO (`old`): a transfer with `cont` has only the rest of it.

**Bounds.** `MaxReq` caps the requests of a behaviour. With two numbers and three requests a number
is reused while the other is in flight, which is where a stale entry or bit would show; the
runtime's instances reuse numbers with both peripherals pending and with requests sent from
handlers. `CounterMod` is 8, more than the numbers and less than what a double release would need
to be hidden. Two calls per client let every function of `io_signal.h` meet every other, and a number
be released and allocated again. The FIFOs are smaller than the longest transfers; two sessions let
one meet what the other left. Three bits have a first, a middle and a last one. Two calls are
what it takes for two users of a register to undo each other's pins or to mix up their pulls, and for
a command to come between another caller's command and its answer. Three blocks are fewer than two
clients' requests and results can hold, so that allocations fail everywhere. Symmetry is
used for clients, handlers and blocks in safety runs only.

**Deadlock** is checked for `IoHelper` (its clients can always poll). It is not for the other
runs: loops wait for ever once the requests are exhausted, applications end, callers have
made their calls; what must not stop there is a liveness property.

**Fairness.** *IoHelper*: the loop thread and a command that has been entered go on (OP-TEE threads
are scheduled by the normal world, drivers return); no client has to invoke anything. *QueueSync*,
*SignalLocks*: each thread's steps; a thread in `notif_wait` moves only through the wake-ups of the
model. *IoSigtable*, *AdaptiveCheckpoint*: the IO helper completes requests (`io_helper_poll` is the
evidence); the runtime's thread goes on; time passes; the application keeps reaching branches, its
handlers take their result and return. These last are strong fairness, because a request or
a registration can come between, and are assumptions about the application: code that loops does so
through a branch, and the callback benchmarks under `test/benchmarks/` spin on
`all_async_req_handled` and call `get_async_data` in their handlers. A handler that never returns, or
leaves its result, does not satisfy them. *Drivers*: threads inside a driver go on, controllers
clock; a device may still hold the clock, and a read in which it does need not end. Strong fairness
for the acquire of a mutex that others take and give back, since its wait queue wakes waiters in order.

### Disagreements

Shown by runs:

1. `UsingCounted`: "req_nums is the number of signal using" (`io_signal.h:29`) fails once two
   runtimes take what `poll` answers on one peripheral. Both pass `is_ready_signal`, both release.
2. `NoPanic`: `if (!m->state) panic();` (`mutex.c:101`) is reached when `START_LOOP` initialises the
   queue mutex under a requester.
3. `PromiseKept`: "directly wait get data" (`test/async_promise/app/main.c:56`): on a peripheral that
   is still pending, a checkpoint gives the promise's result to the handler left in the table.

Met while modelling; the models have them, and the properties are conditional on them:

- *IO helper.* A request lost in `enqueue` keeps its number and `poll` answers "still processing" for
  ever. Input buffers are dropped at `TEE_ERROR_BUSY`, at a failed second `malloc`, at a lost request,
  where the SPI handler gives up, where the I2C write handler cannot acquire its bus and with a type
  that is not supported; the buffer of an empty result is dropped by `get_data`; an empty write leaves
  a pointer unset that the handler frees. A successful read of an object never closes it, nor does one
  whose `get_info` fails. `get_data` leaves `buf` pointing to the freed block. `poll_times` is changed
  under a read lock.
- *Adaptive checkpoint.* `profile` reads `io_queues[-1]` when nothing is pending; `REQ_TYPE_NONE` is
  one past `exec_time_table`; the oldest estimate is charged with whichever request was answered; if
  there is none, which mixing makes possible, `dequeue`'s answer is ignored and `exec_time_table` is
  indexed with an uninitialised `req.type`; a failed `enqueue` leaves a peripheral pending that never
  becomes due (`EnqueueFails`).
- *Pins.* The pins of both I2C buses and most of SPI0's are in GPFSEL0, and so are pins for
  `gpio_init`; threads on different buses undo each other's selection (`lost`). Two `gpio_init` at
  once mix up their pulls (`entangled`).
- *Devices.* Two callers of the fingerprint module or of the light sensor can take each other's
  answers, since the bus is free while the device works (`overtaken`).
- *Flash.* The write enable may still be in the FIFO when its transfer reports success, and the waits
  look at the byte that was clocked in with the command instead of the status; the last wait of a
  program or an erase and the read of `w25qxx_read_data` may fail and success is returned; most
  functions go on when `spi_acquire` refuses the chip select, and then unlock a mutex they do not hold
  (`unheld`), which can end in the panic of `mutex.c:101`. That a flash function succeeds says nothing
  about the chip, and no property claims it.
- *SPI.* A transfer that only receives, or sends more than the RX FIFO holds, times out; a
  register without data is not waited for; the first byte of a register read is the one clocked in
  with the register; `cont` does not keep the chip selected.
- *I2C.* A read from a device that holds the clock never returns and keeps the bus, so that every
  other user of it waits for ever; `TransfersReturn` and `CallsReturn` except it. `i2c_write_regs` uses two
  transactions. In code that is not modelled: a ten-bit write sends address bits as data, and
  `i2c_set_divider` overwrites the divider with the delays.
- *DHT.* Two waits share one counter, so a sensor with long pulses within the limit may be given up;
  `dht_init` reports a line that has become high in the last millisecond as low.

## 4. Proofs

TLAPS checks these for every value of the constants that satisfies the modules' assumptions: any
number of clients, threads, signal numbers, blocks, requests and calls. Each invariant below was
checked with TLC on the instances of section 3 before it was proved. Hypotheses of a theorem stand in
its ASSUME; each one excludes a case in which the code does break the property, and the last column
says where that is shown.

| module | theorems about | hypothesis | without it |
|---|---|---|---|
| `IoHelperProofs` | `TypeOK`, `UsingCounted`, `OnePlace`, `NoLostWakeup`, `FreesLiveBuffer`, `DataNotLeaked`, `CompletionOrder`, `PollIdleIsTrue`, `ImplementsAsyncIo` | `ExclusiveFetch`: a client that takes what poll answers is alone on the peripheral | run `io_helper_shared` |
| `IoHelperProofs` | `PollBusyIsTrue` | also that no allocation fails | a request lost in `enqueue` is counted for ever |
| `QueueSyncProofs` | `MutualExclusion`, `SomeoneComes`, `NoPanic`, `NobodyForgotten` | `StartedOnce`: one loop, started before the first request | run `queue_sync_start` |
| `SignalLocksProofs` | `NumbersCounted`, `NumbersUnique`, `SignalsKept` | none | |
| `ReqBuffersProofs` | `NoDanglingBuffer`, `OneOwner`, `NothingElseLeft` | none | |
| `IoSigtableProofs` | `TypeOK`, `NoNestedHandler`, `PendingKept`, `CallsOwnHandler`; `PromiseKept` while not `mixed` | none | run `io_sigtable_promise` for `PromiseKept` |
| `AdaptiveCheckpointProofs` | refinement of `IoSigtable`, `NoNestedHandler`, `PendingKept`, `AdaptiveTypeOK` | none | |
| `AdaptiveCheckpointProofs` | `EstimatePerRequest` | handlers take their result, no request is lost in `enqueue` | the request keeps its number, its estimate is used up or stays |
| `BusSharingProofs` | `HolderOnly`, `PinsAsAsked`, `OwnAnswer` | none: any number of callers of every bus and function and of `gpio_init` threads on any pins no bus has. The exceptions `lost`, `entangled`, `overtaken`, `unheld` are in the properties | *Disagreements*, pins, devices and flash |
| `TransfersProofs` | `OwnBytes`, `NoFalseFailure` | none beside the assumptions on sessions and pulses | a sensor with long pulses within the limit is given up (*Disagreements*, DHT) |

*IoHelperProofs.* Neither `UsingCounted` nor `OnePlace` is inductive. A release decrements the counter
whether or not the bit was set, so `UsingCounted` needs to know that the number released is in use,
which is `FetchesOwn`: a client inside `get_data` is at a ready number it was given. That in turn
rests on `Ownership` (a number in use belongs to one client) and `OnItsWay` (a request on its way is
the one that owns its number), and `OnePlace` rules out that the loop sets the ready bit of a number
that has been released. `IndInv` is the conjunction; it is preserved action by action. The
cardinality facts come from `FiniteSetTheorems`.

*Its second half.* `IndInv` says where a number is and whose; `DataInv` says what its table entry
holds. The table is never cleared and a failing handler leaves length and buffer of the previous
request, so the statement has two halves (`OwnEntry`): the entry of a number whose handler has
returned was written for its own request, and the entry of any other number in use does not point
to a buffer of its own request, so that a stale entry cannot pass for a result. `InGetData` carries
what `get_data` saw to the steps that rely on it after the mutex is released, `HeapExact` says which
buffers are allocated, `Identities` and `InOrder` are about the ids of requests. `RefinesAsyncIo` maps
each number to its abstract request: initial states map to initial states, `AllocateSigno` is the
abstract accept, `LoopSetReady` the completion, the step in which `get_data` releases the number the
delivery, and every other step is a stutter. Its liveness half is left to TLC.

*QueueSyncProofs.* The invariant ties the mutex's state to the program counters, the wait queue to the
threads that wait (`WaitersQueued`: each once, and nobody else), and says that only the loop waits for
the condition variable (`Sleepers`) and that it has seen an empty queue when it is about to sleep
(`LoopPlaces`). That last fact is why no signal is lost: the loop tests, joins the wait queue and
gives the mutex up without letting a requester in between. `SomeoneComes` is part of it;
`NobodyForgotten` is proved from it by an invariant of its own.

*SignalLocksProofs.* The functions are read-modify-writes of several steps. The invariant says which
threads hold which mutex and how (`HasUsing`, `HasPending`), that a writer is alone, and that what a
thread in its section has read is still the value of the variable. The counter then equals the
bits, and the numbers given out are distinct.

*ReqBuffersProofs.* The invariant says where each block is: with a command that is building its
request, in one request of the queue, in one entry that is a result to fetch, dropped on a known path,
or free. Entries that are not such results may point anywhere; what is kept about them is that their
length is 0, which is why a handler that fails and writes only `ret` cannot bring a freed block back.
The cases are the paths of the four commands, of the handlers and of `get_data`.

*IoSigtableProofs*, with no assumption about the application. The strengthening for `NoNestedHandler`
and `PendingKept` is `HandlerState` (inside a handler `io_sigpending` is empty, so no checkpoint
scans: this is why handlers cannot nest) and `RegistersUsed` (the request whose handler is being
registered has not been taken). For `CallsOwnHandler`, `OwnInv` adds that what the scan has found is
still ready when it is called, and that, while not `mixed`, the requests of a polled peripheral all
have callbacks, registered in the table under their own numbers. `PromiseKeptUnmixed` follows from the
same invariant: mixing promises and callbacks on one peripheral is the only way to the counterexample
of `io_sigtable_promise`.

*AdaptiveCheckpointProofs*: every behaviour of the adaptive build is one of the signal table; the
mapping is the identity on its variables, and each step is a step of `IoSigtable` or leaves them
alone, so the invariants carry over. `AdaptiveTypeOK` is proved beside it; it is about the shape of
the variables and bounds no index of the code. `EstInv` counts: the estimates of a peripheral are as
many as its requests that wait for their handler, in every state, also inside a handler that sends
new ones; from it follows that `dequeue` has found an estimate at every call, so that
`exec_time_table` is never indexed with an unset type, as long as promises and callbacks are not mixed.

*BusSharingProofs.* One invariant for each part. For the pins, `PinsWork` has three. `PinsShape` is
about the places, the mutexes and what has been read. `PinsFsel` says, of each pin that is not in
`lost`, how far its user has come with it, for the pins of a bus by the place of its holder and for
the others by the `gpio_init` that has it; a write of the register by anybody else either leaves the
pin as it is or puts it into `lost`. `PinsPull` does the same for the pull sequence: as long as a pin
is not `entangled`, the thread that sets it is alone between GPPUD and the clock, so the clock hands
over its pull. For the sensors, a first group of lemmas says what each transfer of each of the fifteen
functions is, by its place (`Placed`: the first transfer of a function that reads an answer is a
write, the first of one that configures is a configuration, only four functions give the bus back in
between); `SensorsWork` then says that a device keeps the command of a caller who has sent one and is
still on the bus, and of one who has given it back until he is `overtaken`, that what a sample's
reads have met is the configuration the device still has, and that a caller who has reconfigured a
device and is not back is still on the bus. For the flash, `FlashWork` says that, until `unheld`, the
mutex is locked while a thread is on the bus, that there is one such thread at most, and that once he
has made a transfer the last one on the bus was his.

*TransfersProofs.* FIFOs of any size, sessions of any number and length, any number of bits. A byte is
named by its transfer and position, and `Run(m, a, len)` is the sequence of bytes of transfer m from
position a on; the lemmas say what `Head`, `Tail`, `Append` and `\o` do to runs, which is all the
data there is. None of the properties is inductive, since they speak of a transfer that is over.

- `I2cInv` says where the bytes are during it: the device has a run from the first byte, the FIFO the
  run that follows, the rest is unwritten; or, for a read, returned and in the FIFO. `I2cFlags` ties
  the flags to this transfer. `I2cBetween` is what the next one needs: it clears FIFO and flags unless
  it has `I2C_CONT`, and then FIFO and flags are already empty, because the transfer it continues
  succeeded. That a success leaves nothing behind is part of `I2cResult`.
- `SpiInv` has two moving parts, how many bytes have been clocked out and how many answers have been
  taken (`SpiAt`). `SpiChain` and `SpiBetween` carry what the sessions guarantee to the start of a
  transfer that does not clear the FIFOs. A time-out without a late thread means that the answers do
  not fit, which is counted out in `SpiResult`.
- `DhtInv` is about time. The driver sees levels only; for each of its places the invariant says which
  pulse the sensor is in and how far, in terms of what the driver has counted and of the time it
  has lost (`AtSync` ... `AtSample`). The sample for a zero may fall into the next low pulse, so the
  sensor can be one bit ahead of the driver. The counter that two waits share is why `AtWaitHigh` and
  `AtSample` keep a lower bound on `time_out`.

*Only model-checked*: every liveness property and the fairness half of the refinements, which are out
of the prover's reach. Every invariant and every action property of a passing run is proved.
`bus_sharing` was also checked once with three calls on the two I2C buses (1.6M states).

## 5. Plan

Done: all modules of section 2 and the proofs of section 4. What could follow is a proof that
`SensorBus` and `W25qFlash`, which take a transfer as one step, are implemented by the transfers of
`I2cTransfer` and `SpiTransfer`; it needs those modules to share the devices' state.

## 6. Not modelled

- *Below the level of the models*: the 64-bit mask arithmetic of the bitmaps and the numbering of
  peripherals (sets here), the packing of a promise into an int, parsing, unit conversion and
  checksums of sample data, ten-bit I2C addresses, the speed of the buses.
- *No state of their own*: the synchronous native functions and the driver PTAs' argument checks and
  copies, checks that reject a call without a change of state, pointer validation, signatures, the
  timestamps kept for benchmarks, the runtime TA's session handling.
- *Not built or not there*: the bit-banged `rpi3_sim_i2c.c`, the IO helper as a user TA (the `#else`
  branches, whose TA is not in the repository).
- *Vendored*: WAMR's interpreter, loader and compiler, OP-TEE other than the primitives above, its
  test suite and crypto libraries. They are all but a few thousand of the repository's lines; the
  models cover the part that is TrustWasm's own.
