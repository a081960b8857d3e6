# Formal models of the arm-motion tracking glove

This directory holds TLA+ models of the program in this repository (the
senior-design project *TDuke94/Senior-Design-2018-2019*): a wearable of inertial
sensors whose motions are judged by a program on a PC. The models are written
from the source; every definition that stands for code is listed, with the lines
it stands for, under `map` in `PROJECT.json`. TLC checks the models on small
instances (`*.cfg`), and TLAPS checks the proofs in the `*Proofs.tla` modules,
which hold for every value of the constants.

- [The system](#the-system)
- [Inventory of the components](#inventory-of-the-components)
- [Modules](#modules)
- [Runs](#runs)
- [Fairness](#fairness)
- [Proofs](#proofs)
- [What the code does that its text does not say](#what-the-code-does-that-its-text-does-not-say)
- [What is only model-checked, and what is not modelled](#what-is-only-model-checked-and-what-is-not-modelled)
- [Plan](#plan)

## The system

    sensors --I2C--> MSP430 --I2C--> Zynq board --SPI--> ESP32 --Bluetooth--> GUI on a PC
                        \___________________SPI___________^
                         (later version, without the board)

| part | source | role |
|---|---|---|
| MSP430 | `MSP_ICM/`, first version `I2C/I2C.c` | polls five ICM sensors through a multiplexer at the pace of a timer, sends a frame |
| Zynq board | `SeniorDesign/src/` | FreeRTOS application: receives frames as an I2C slave, turns them into quaternions in a pipeline of tasks, sends them over SPI |
| ESP32 | `ESP32/SPI_BT/` | SPI slave, forwards what it gets over a Bluetooth serial connection |
| GUI | `Unity/SD2-GUI-V1/Assets/` | reads the serial line, filters, calibrates and judges the motion: postures (`testing.cs`) or conducting (`ConductingEval.cs`) |

Two versions of the chain are in the repository. In the first the MSP430 writes 18
bytes to the Zynq board at I2C address 0x70; in the second it sends frames of 36
bytes, flagged with 'A', over SPI straight to the ESP32. The models cover the
parts of both.

## Inventory of the components

**Zynq: task pipeline** (`dispatch.c`, `IMU_Pipeline.c`, parts of
`I2C_manager.c` and `SPI_Manager.c`, `main.c`).
*State:* five queues of ten pointers; six tasks, each with its loop, a delay flag
and the pointers it holds; the FreeRTOS heap of 64 KB. *Operations:* test the
queue, receive, allocate, compute, send, free. *Interaction:* the tasks share
nothing but queues and the heap. *Hard:* one processor, two priorities (I2C_Task is
above the rest and polls), sends with and without a time-out, pointers that change
owner, an allocator that ends the program when it fails. *Correct when* frames
leave in order and none is lost, no task follows a dead pointer, no stage blocks
where the code takes for granted that it does not, the input is throttled when
the output is slow, and every frame arrives.

**Zynq: I2C slave** (`I2C_manager.c` and the Xilinx driver beneath it).
*State:* the registers and the FIFO of the device, the driver's buffer pointer and
count, the globals `ReceiveComplete`, `SlaveRead` and `ReadBuffer`. *Operations:*
`SlaveReadData()`, three interrupt handlers, three callbacks. *Hard:* the task polls
variables that interrupts set; a flag is cleared after the call it announces;
the frame is longer than the FIFO; `XIic_Stop()` may refuse; the master gives up
after a time-out of its own. *Correct when* a frame passed on is a transfer, each
once and in order, and no wake-up is lost.

**Zynq: SPI output and pose LED** (`SPI_Manager.c`). *State:* `WriteBuffer`, which
`I2C_manager.c` defines as well; the reference pose, the counter and the LED of
`evaluate()`. *Hard:* two tasks write one array without knowing; the transfer is
longer than the array; a counter that must saturate at both ends. *Correct when* a
frame on the wire is the frame composed, and the LED follows the pose within bounds.

**MSP430: I2C master** (`msp430_i2c.c`, `msp430_clock.c`). *State:* the transfer
structure `i2c`, the USCI peripheral, the millisecond clock. *Operations:* read,
write, the I2C interrupt, the timer interrupt. *Hard:* the program sleeps until an
interrupt, the last of which may come before it sleeps; STOP must be prepared a
byte ahead; a NAK ends a transfer like its last byte does; the time-out races a
late byte; the clock is read in two halves, and sums of times overflow. *Correct when* a call that succeeds
moved every byte, none is written behind the buffer, a device is given up when its
time is over, and every call returns.

**MSP430: sampling loop** (`MSP_ICM/main.c`, `mpu_get_accel_reg()` of `inv_mpu.c`).
*State:* `timerFlag`, the multiplexer, the readings. *Hard:* any of the three
calls per sensor may fail and nobody looks; a tick may come anywhere. *Correct
when* a fault stays with its sensor, no tick is lost and frames keep coming.

**ESP32: Bluetooth bridge** (`example_spp_initiator_demo.c`). *State:* the
connection handle, `writeAvailable`, the receive buffer. *Operations:* the forwarding
loop of `app_main()`; the callback `esp_spp_cb()`, one case per event. *Hard:* loop and
callback run in two tasks without a lock, and the loop reads the handle twice;
connections come and go and the callback learns of it late; 28 bytes are written from a
buffer of 21 that a short transaction fills in part. *Correct when* what is forwarded is
one transaction, the handle is never NULL at its use, and the newest client is served.

**GUI: frame parser** (`parseAccel()`). *State:* what waits on the line, the
sample array. *Hard:* the reader begins anywhere, is cut off by time-outs, and
throws away what has arrived after every frame; bytes may be lost. *Correct when*
an accepted frame is one frame of the glove, in place.

**GUI: filter and calibration** (`kinematicFilter()`, `calibrate()`, two buttons).
*State:* the last good frame, flags and counters, the array that is averaged.
*Hard:* two state machines on one stream, restarted by buttons at any time.
*Correct when* an outlier never goes on but a real jump does, and what is judged
was calibrated in one piece.

**GUI: posture verdict** (`booleanDebounce()`, `booleanDisplay()`). *State:* a ring
of three verdicts, what is shown. *Correct when* it neither flickers nor holds.

**GUI: conducting evaluator** (`findDirection()`, tempo). *State:* the time-out
after a motion, the ring of ten intervals. *Correct when* a motion is counted once
and the tempo is the mean of the last intervals since a pause.

**Zynq: quaternion library** (`MathLibrary.c`): pure functions on vectors and
quaternions, without a state. *Correct when* lengths are kept, the comparison of two
poses is relative, and the axes derived from a cross product are perpendicular.

The remaining parts (experiments that nothing calls, prototypes, superseded
versions, menus, vendored code) are listed in `PROJECT.json` with the reason each is
left out. `hazards` there lists what is hard to test in this code, at its line.

## Modules

| module | models | composes |
|---|---|---|
| `FrameChannel` | the promise of the pipeline: a bounded, lossless, ordered channel that may stop for good | |
| `Pipeline` | six tasks, five queues, priorities, delays, heap | implements `FrameChannel` |
| `I2cSlave` | master, device, driver, interrupt handlers and the task that polls | |
| `SpiTask` | `SPI_Task`: the shared `WriteBuffer` byte by byte, the transfer, `evaluate()` and the LED | |
| `Quaternions` | what the running tasks use of `MathLibrary.c` | |
| `MCSpiTask` | | `SpiTask` with the poses of `Quaternions` |
| `I2cCall` | the promise of the I2C driver: what one call moves and returns | |
| `I2cMaster` | program, interrupt handlers, timer, USCI and device | implements `I2cCall` |
| `Bridge` | the ESP32: forwarding loop, callback, Bluetooth stack and clients | |
| `Sampler` | timer interrupt and polling loop | uses the outcomes of `I2cCall` |
| `GuiParser` | serial line and `parseAccel()` | |
| `GuiFilter`, `GuiJudge`, `GuiTempo` | the parts of `Update()` after the parser | |
| `Gui` | both scenes | `GuiFilter`, `GuiJudge`, `GuiTempo` |

Definitions marked `Slip:` are not the code. Each is a variant of the definition
after it with a plausible mistake in it; replacing the definition by the variant must
make a property fail (`mutants` in `PROJECT.json`). Variables marked *history*
record what a property is about and influence nothing.

### Pipeline

An entry of a queue is the number of a frame; the kind of buffer the pointer
designates depends on the queue only. `pc[t]` follows the loop of each task: *check*
(`uxQueueMessagesWaiting`, `uxQueueSpacesAvailable`), *receive*, *process* (the
`pvPortMalloc` calls), *send*, *free*, *delay* (`vTaskDelay`). A stage runs only
while I2C_Task sleeps (`Runs`), because I2C_Task has the higher priority and
polls while it waits. `vApplicationMallocFailedHook()` stops everything. The stages
of `IMU_Pipeline.c` differ only in what they allocate, free and forward, and share
one set of actions. What they compute is abstracted. The heap is counted in
blocks of one size.

### I2cSlave

A byte is its transfer and its position. The interrupts of the device are levels
(`Pending`); the three handlers are the three actions of `Interrupt`. An enabled
interrupt is taken before the next instruction of the task (`TaskStep` requires
`~Irq`), and `SlowBus` says that at most one event happens on the bus per turn of
the polling loop: at 100 kHz a byte takes some 90 us, a turn of the loop less than one.
The master's transfers may time out (`Abort`), in which case a device that
holds the clock does not see a STOP.

### SpiTask and Quaternions

`SpiTask` names a byte by where it comes from: its frame, the header, the final
zero, I2C_Task's reply or the memory behind the array. I2C_Task preempts SPI_Task
between any two bytes and writes its reply in one step; `XSpiPs_PolledTransfer()` takes
one byte after the other, so a reply may hit a frame while it is on the wire. After the
transfer, `evaluate()` compares a pose, or NaN, with the reference. To the module a
pose is a value and the comparison `acos(...) < 1.25` a relation `Near` that needs
no property at all; `MCSpiTask` gives it integer quaternions and the comparison as
the library computes it.

`Quaternions` works in exact integers: a quaternion is not normalised, and where the
code divides by a length the model multiplies by its square. The threshold on the
angle is the one on the square of its cosine.

### I2cMaster and Sampler

`I2cMaster` has three actors: the calling program, which runs when it is awake and no
interrupt is pending; the interrupt handlers, which cannot be interrupted; and the
peripheral with the device behind it, which shifts bytes at any time. A handler that
waits for the bus (`while (UCTXSTT)`, `while (UCTXSTP)`) is a state of `isr`. Two
clock readings bound a call; each reading takes two steps, of which the compiler may do
either half first. The clock is `Word * Word` wide: its low word carries, and it starts
again at zero, as does the sum that `cur` is compared with. A call that is given up
prepares the STOP (`GiveUp`) and then sets `STATE_WAITING` (`Abandon`), and an interrupt may
come in between. At most one tick falls
between two sleeps, as the program takes less than a millisecond there, and a call is
begun only while the bounded time has room for its time-out and a round of the low
word. The reset after a time-out is one step, its two delays of a millisecond included: no
interrupt of the peripheral is enabled in it.

`I2cCall` is what a caller may rely on: bytes move one after the other while the call is
under way; it returns 0 when all have moved or the device refused one, and -1 when
it gives up, which may be at any time. A read is refused at its beginning only (its address or the register), so that
a refused read stores nothing. The last byte of a write may be refused when the call has
returned 0, since the driver does not wait for its acknowledgement. `I2cMaster`
implements this with `busy` as `pc # "idle"` and its own variables for the rest; the
history variables `refused` and `reads` are there for it.

`Sampler` uses a call of that driver as one step with three outcomes: ok, time-out,
and refused, which looks like ok to the caller. That there are no others, and
that a refused read leaves the caller's buffer alone, is what `I2cCall` says. A byte refused
late is refused all the same: the step's outcome is what the call turns out to be, and the
driver counts such a NAK for the next call, which is to the same sensor. A reading is the
sensor it came from and whether it is of this round.

### Bridge

A byte of the receive buffer is where it comes from (`memset`, the last transaction, an
earlier one, memory behind the buffer) and whether it is an 'A'. The loop's two reads of the
handle are two steps, `Test` and `Write`, with the callback in between. The stack queues
one event for each thing that happens to a connection, up to `MaxEvents`, and the
callback takes them in order; a write event may come at any time, since the number of
writes under way is not counted. What a client gets on a closed or congested connection
is nothing, and nobody looks. The MSP430 sends an unframed stream of bytes; how the
slave cuts it into transactions the repository does not say, and any length is taken.

### The GUI

`GuiParser` gives every byte its place of origin, so that a property can say where a
sample should have come from; of a sample that is stored only the origin is kept (`Origin`).
The history variable `misled` records that the call under way took a data byte of 65
for a flag. The line delivers what `MSP_ICM/main.c` sends, byte for byte, and may lose
bytes of it. The forwarding loop in `ESP32/SPI_BT/` is not such a line: it takes at most
20 bytes of a transaction and forwards them in a write of 28 (283, 321), drops a
transaction that does not begin with "AA" (300-301), and its callback writes two zeros when a
congestion ends (146-149). A frame of 36 bytes does not pass it whole, so the
properties of the parser say nothing of the two together; what the loop itself keeps
to is in `Bridge`. In `GuiFilter` a history variable, `cancelled`, records that
the release button took back a calibration before its first frame: the only way to
judge frames without one. `GuiFilter` reduces a frame to the axis that is
furthest from its last good value. `GuiJudge` takes as its input the set of
motions a frame fits (the tolerances of `Solfege.Evaluate()` and `Keyboard.Evaluate()`,
`testing.cs:687-748`), `GuiTempo` whether a frame is a motion; time is counted in frames. The
tempo is shown by every judged frame unless it is not a number, which it is after a pause:
then the button keeps the old one until the next motion (`Display`).

`Gui` composes them as `Update()` does: the filter always runs; a frame that a
calibration uses up goes no further; the others are judged, by `GuiJudge` in the
posture scene and by `GuiTempo` in the conducting scene. In the conducting scene a
rejected or calibrating frame is time that passes. The calibration buttons hold
a reference to the `testing` script and act in the posture scene only.

## Runs

| run | instance | states | shows |
|---|---|---|---|
| `pipeline_safety` | queues of 2, 8 blocks, 1 IMU | 1.25 M | the safety invariants and that `Pipeline` implements `FrameChannel` |
| `pipeline_live` | queues of 1, 4 blocks | 42 k | a frame that entered Queue_1 is transmitted or the heap runs out; it always does run out, and bounds the frames transmitted |
| `pipeline_leak` | queues of 1, 8 blocks | | *violation*: blocks stay allocated for frames that have left |
| `spi_task` | frames of 6 bytes, replies of 3, one byte behind the buffer; five quaternions; LED out at 3, saturation at 4; nine frames | 167 k | a stray reply damages the first bytes at most, and only of the frame in work; the LED recovers, goes out and tolerates outliers in time; the reference never moves and what is compared with it is relative to it |
| `bridge` | two connections, two events waiting, transactions of 3, buffer of 4, writes of 5 | 89 k | a forwarded frame is one transaction and filler; the handle is valid at its use; the newest client that stays is served for ever |
| `i2c_slave` | frames of 6, FIFO of 4, five transfers, two aborted | 220 k | whole frames in order and no hanging transfer until one times out; no replay, no overrun ever |
| `i2c_master` | 2 calls, up to 3 bytes, time-out 2, words of 8, from time 50 to 72: across a carry at 56 and the end of the clock at 64 | 836 k | implements `I2cCall`; no overrun, given up in time but at a carry, every call returns unless the clock ends under it |
| `i2c_master_nak` | 1 call of 1 byte | | *violation*: a refused call returns 0 |
| `sampler` | 3 sensors | 24 k | faults stay with their sensor, no tick is lost, frames keep coming |
| `gui` | frames {1, 4, 7} with filter 3, calibration of 2, debounce 3, 3 intervals, time-out 2, pause 4 | 783 k | no unconfirmed jump, no sticking, one-piece calibration, steady and prompt verdict, no rapid beat, a tempo on the button that is that of the last intervals |
| `gui_switch` | the same | | *violation*: PASS for a motion nobody made |
| `gui_parser` | frames of 2 sensors of 2 samples, both read, data bytes 0 and 65, 2 frames, 1 byte lost of each | 2.9 M | unless a data byte was taken for a flag, whole frames while nothing is lost, and damage confined to the last sensor otherwise |

### Why the bounds are enough

- *Pipeline.* Order can only go wrong in a queue of two entries or more, and
  eight blocks let frames be under way in several stages before the heap is
  exhausted. The leak ends every run, so no bound on frames is needed. For liveness
  queues of one entry make every stage block; the heap bounds the run. `FramesArrive`
  quantifies over as many frames as the heap has blocks, more than can ever enter.
- *I2cSlave.* The code distinguishes three cases of the bytes still expected: more than
  the FIFO holds, fewer, none. A frame of 6 on a FIFO of 4 meets all of them, as
  18 on 16 does. Five transfers allow two to be broken with whole ones before,
  between and after.
- *SpiTask.* The smallest frame that has bytes within and beyond the reply's reach in its
  body, and a byte behind the buffer. 3 and 4 keep the distance of the real 9 and 10
  (`Threshold`, `Limit`), and nine frames take the counter up to its limit, down and
  up again. The five poses contain two near ones about different axes, a far one, and
  a quaternion and its negative. The history counters stop at 5, above every number
  they are compared with. The proofs hold for all sizes.
- *Bridge.* A transaction is shorter than the buffer, which is shorter than a write, as in
  the source. Two connections overtake each other; with two events waiting the
  callback is behind a close and an open.
- *I2cMaster.* Lengths 1, 2 and more are what the handler tells apart. The second call
  meets what the first one left in the peripheral. The time-out fits into a
  word, as 2500 ms (`I2C_TIMEOUT_MS`) fit into 65.5 s; calls begin at every
  phase of a word, before, at and after its carry, and up to the end of the clock. A
  time-out and the three ticks around it are shorter than a word, so that a part of
  the calls meets no carry and `Patient` says something of them; how much of a word that
  leaves is a matter of size, and `GivenUpInTime` holds for all sizes.
- *Sampler.* A sensor with neighbours on both sides; several rounds, as the bound is
  on the sensors only.
- *Gui.* 4 is near to 1 and to 7, which are far apart, so a value may drift as
  well as jump. A calibration of two frames can be restarted in its middle. Three
  intervals let a pause happen at every index of the ring. `MaxPause` is above
  both `Threshold` and the calibration, and longer pauses are treated alike by the code.
- *GuiParser.* Two sensors of two samples are the smallest shape in which the
  index arithmetic (flags, samples, `frameBreakCount`) is not the identity. Both are
  read, as `testing.cs` reads all five; that `ConductingEval.cs` reads one sensor of
  five is a matter of the proofs, which take any number of sensors read
  (`IMUCount \in 1 .. Sensors`). The
  buffer of three bytes is shorter than a frame, so a reader always waits in the middle.
  The parser tells three kinds of bytes apart: 65, which is a flag or looks like one, 0, two
  of which end the frame, and the others. 65 stands for these as well, since where it is not
  looked at as a flag it is treated as any byte but 0.

Deadlock is checked in every run except the three in which the system really may
stop: the parser's line ends after `MaxFrames` frames, and the master makes no more
than `MaxCalls` calls.

## Fairness

- *Pipeline.* Weak fairness of I2C_Task and of `Wake` (the tick interrupt). Strong
  fairness of each stage: I2C_Task preempts it over and over, but FreeRTOS resumes
  tasks of equal priority in turn (`configUSE_TIME_SLICING` 1), so a stage that can run
  again and again does. That I2C_Task makes progress assumes a master that goes on sending.
- *I2cSlave.* Weak fairness of task and interrupt handlers, and of a master that is
  in a transfer.
- *I2cMaster.* Weak fairness of program, handlers and timer. The bus is fair only to a
  handler that waits for a START or a STOP: the device may hold the clock for ever
  otherwise, and the time-out must cope. A device that holds the clock
  while a handler waits stops the program; the code has no defence, and the model
  assumes it away.
- *Bridge.* Weak fairness of the loop and of the callback, which are tasks of their own.
  Strong fairness of a transaction that carries the header: the loop waits for the sender
  again and again (`spi_slave_transmit` with `portMAX_DELAY`), and the claim is about a glove
  that goes on sending frames, however many broken transactions come in between.
  Nothing is assumed of connections and clients.
- *Sampler.* Weak fairness of timer and loop; the driver returns, by `CallReturns`.

The other specifications state safety only.

## Proofs

Assumptions are the named `ASSUME`s of the modules: sizes are positive, `NoPose` is no
pose, and so on. `Gui` assumes `TimeoutValue <= GravityCount` (13 and 60 in the source).

**`PipelineProofs`**, for every queue length, heap and number of IMUs. None of the
safety properties is inductive by itself. What ties them together is counting:
`put[t]`, the frames task *t* has passed on, determines with the program counters the
content of every queue (`FlowInv`), of every pointer held (`HeldInv`), of the wire
(`WireInv`) and which buffers must be allocated (`HeapInv`). `I2cInv` says that the
free entry I2C_Task saw is still there. `Invariance` proves that the conjunction
`IInv` is invariant, with one lemma per action; the rest follows: `FramesInOrder`,
`NothingDropped`, `ReceivesSucceed`, `MemorySafe`, `Throttled`, `BacklogFirst`,
`Mortal`, `TypeCorrect`. `Refinement` proves `Spec => Channel!Spec`: a send of
I2C_Task accepts a frame, which `Throttled` allows, a transmission delivers the next one,
the hook stops the channel, and every other step stutters.

**`SpiTaskProofs`.** Two invariants, one for each half of the state. `FrameInv` says which
cells of the buffer are what they should be at each point of the loop, unless a
reply came in between; `Confined` follows for all sizes. `PoseInv` squeezes the
counter between the runs of near and far comparisons; `LedRecovers`, `LedGoesOut`,
`LedTolerant` and `FixedReference` hold for all thresholds and for any relation `Near`.

The rest of the module is about the quaternion library: identities of polynomials, one
component at a time. `VerdictIsRelative` says that turning two poses by a third changes
no comparison, and with it `TurnedTogether` holds for any set of integer quaternions
(`TurningChangesNothing`). `CrossIsAskew` says exactly when the vector that
`crossProduct()` returns is not perpendicular to its first argument.

**`I2cSlaveProofs`**, for every length of a transfer, every depth of the FIFO and any number
of transfers.
`FifoInv`: the interrupt of a byte is only enabled while the depth register has
been set for the bytes still expected, so the FIFO holds no more of them than are
expected, and `NothingBehindTheBuffer` follows. `QuietInv` is what the slow
bus gives: a transfer that ends while the task polls is seen before the next one
begins. `OrderInv`: all bytes passed on precede those in the FIFO and in
`ReadBuffer`, whoever timed out; hence `NothingTwice`. `StageInv` says what of the
transfer in work is in the FIFO, in `ReadBuffer` and in `output` at each stage, as long as
no transfer timed out; hence `TransfersArriveWhole`.

**`I2cMasterProofs`**, for every length, every time-out and every width of the clock's words,
whatever the device refuses, holds or answers. None of the properties is inductive.
`CountOK`: bytes moved, bytes expected and the one the handler has in
hand add up to what was asked for. `BusOK`: while a byte comes in the handler
expects at least one, and more than one unless the STOP is prepared; it is what keeps the
handler from storing one too many. Hence `NothingStoredBehind`.
`CallInv` adds what the promise of a call needs: a read has turned the bus round (its
register written, the peripheral receiving) before it stores a byte (`ReadsOK`,
`TurnedOK`), so a refusal finds nothing stored (`RefusedOK`), and between two calls
nothing is left in the peripheral but the last byte of a write (`QuietOK`). `Refinement`
proves `Spec => Abstract!Spec`: a handler that takes or stores a byte is a `Transfer`
(`TransferStep`), a NAK on the bus a `Refuse` (`RefuseStep`), the program begins, returns
or gives up (`ProgramStep`), and every other step stutters. `ReadsAreAllOrNothing` says of
the implementation what follows from the promise: a call that returned 0 moved every byte or was
refused, and a refused read moved none.
For `GivenUpInTime` the moment the call began is a parameter: `Waited(t0)` relates both
readings of the clock to it, word by word, and says that no tick has been missed. The lemmas
`ReadingIsATime` and `ExpiryIsExact` are the arithmetic of a clock that is read in halves
and compared after it may have wrapped.

**`BridgeProofs`.** The buffer holds the beginning of one transaction and filler from the end
of it on (`FramesShaped`), because the loop clears it every time; the handle, once
set, is one of the stack's (`HandleValid`), because nothing ever resets it.

**`GuiParserProofs`**, for every number of sensors in a frame, however many of them are read,
every number of samples, every stream and any data bytes. `WholeFrame` says where bytes came from, and nothing in the
parser's state does; so the invariant follows bytes. `Gap` says of a byte that comes *n*
bytes after another how much of the frame may be missing in between, and `Followed`
that this holds of everything behind a byte, in the buffer and still to be sent. It
survives a send, a loss and a read (`SendLine`, `LoseLine`, `ReadLine`), so the reader may
look at it when the byte arrives. `Reading(b)`: the reader began with the flag *b*, has read
`Count` bytes since, and the samples of each sensor that a flag followed are in their
places. `FlagFound` is the step that makes it so: as fewer bytes are missing than lie
between two flags, the flag that is read where the next one should be is the next one, and
so nothing before it was lost; and *b* was the first flag of its frame,
because after any other one a flag would have come too late. Hence `AcceptedIsWhole` (no
byte lost) and `FlagsConfine` (fewer than `2 * Axes` of a frame). The bound is exact: TLC
finds damage in another sensor as soon as `2 * Axes` bytes of a frame may be lost.
All of this is said of calls that no data byte misled, which the step that reads a
flag may assume; `NeverMisled` adds that with no data byte of 65 on the line there is no other call.

**`GuiProofs`.** For the filter and the calibration, `Filtered`: what goes on is the last good
value, and the number of frames replaced is what the counter says. `Collected`: the array is
filled from its end, one slot per frame since the calibration began. Hence `AtMostTwo`,
`CalibratedAlways` and `JumpsAreConfirmed`. `ScenesFilter`: a scene implements `FilterSpec`, so that these
theorems hold in it. `RapidMotionsIgnored` needs both parts: in a scene the time-out
runs no faster than time (`Patient`), and it holds at the first judged frame because
until then the calibration has taken as much time as it has frames (`Warming`), which
are no fewer than the time-out. Without the calibration a scene could count a
first beat of one frame. For the verdict, the ring is the last verdicts, newest first
before `dbCounter` (`Mirrored`), and what is shown never contradicts a whole ring
(`Shown`); `AgreementIsShown` and `OneFrameChangesNothing` hold for every length of the ring.
For the tempo, `RingIsRecent`: the ring of intervals holds those since the last
pause, newest first from `timeIndex` down, and zeros (`Remembered`), the tempo
is what was computed of just this ring, and the button shows it unless it is not a number.

**`SamplerProofs`.** `Polled`: the sensors polled so far have their own readings of
this round unless they failed, and the multiplexer is right unless switching it did.
Hence `FaultsConfined` and `TicksKept` for every number of sensors.

## What the code does that its text does not say

Three of these are shown by a run:

- *The pipeline leaks* (`pipeline_leak`). `QVectorToQuaternionTask` frees the array of
  pointers, not the structures; `Mortal` bounds the frames the program can transmit,
  and `LeakIsFatal` says that it ends in the hook.
- *A refused I2C transfer returns 0* (`i2c_master_nak`), though the header says
  "0 if successful".
- *PASS outlives the motion it was about* (`gui_switch`): the ring of verdicts is not
  cleared when another motion is selected.

Others were met while modelling; the properties state what holds in spite of them:

- Two files define `WriteBuffer`, so a reply nobody sends replaces the header and the
  first float of a frame; `DamageConfined` bounds the damage.
- After the master timed out, `SlaveReadData()` returns a partial frame that goes on
  like a whole one; `WholeFrames` holds until then, `NoReplay` always.
- `pollIMU()` ignores a failed switch of the multiplexer, and sends another sensor's
  reading for this one; `FaultConfined` says nothing of a sensor whose own calls failed.
- `msp430_get_clock_ms()` reads a 32-bit count in two halves with interrupts on. At a
  carry, every 65.5 s, the reading may be one the clock never showed: a call may be given
  up at once, or a minute late. `start + I2C_TIMEOUT_MS` overflows with the clock, after
  49 days: a call then may wait for the next round. `Patient` excepts the
  first case, `CallReturns` the second, and each fails without its exception.
- The bridge copies every frame with `sprintf(outbuf, "%s", recvbuf)` (line 311). Nothing
  reads the copy, and it is not modelled; but neither the filler 0xA5 nor a transaction need
  have a zero byte, so it may read behind `recvbuf[21]` and write behind `outbuf[28]`. The
  model assumes that a zero byte comes in time, and no property covers it.
- The forwarding loop and the frame of 36 bytes do not fit together (see
  [The GUI](#the-gui)).
- The bridge goes on writing to a closed connection until the next one opens, and a
  comment proposes to "make the handle null" there; as the loop tests the handle and
  reads it again, that would be a race (`HandleStaysValid` fails for this variant).
- `crossProduct()` has the sign of B x A in its second component, so the East and North
  axes that `QVectorToQuaternionTask` derives are not perpendicular (`CrossIsAskew`).
- `evaluate()` does not take a quaternion and its negative for one orientation: after a
  change of sign the arm counts as far away (`behind` in `MCSpiTask`).
- Part of the arithmetic is not what it is named for: `lerpQ()` weighs both ends with `1 - t`,
  so that after normalising `GYRO_LERP_GAIN` has no effect; `fromMatrix()` reads outside
  its 3x3 matrix to choose a branch; `QVectorToQuaternionTask` copies `quaternion[4..7]`
  of an array of four (`IMU_Pipeline.c:257`); `inverseQ()`, which nothing that runs calls,
  returns the inverse with the wrong sign of its real part. These are plain mistakes
  in what a stage computes, which `Pipeline` abstracts from.
- A data byte of 65 looks like a flag to the parser. `WholeFrame` and `DamageConfined` except a
  call that took one for a flag, and only that call: they hold again from the next one on.
  Without the exception both fail. `NeverMisled` is the converse, that nothing but such
  a byte can mislead the reader.

## What is only model-checked, and what is not modelled

Liveness (`FramesArrive`, `LeakIsFatal`, `TransfersEnd`, `CallReturns`,
`FramesKeepComing`, `NewestIsServed`) is checked by TLC only: the prover does not treat fairness.
Every safety invariant and action property of the runs is stated by a theorem but one:
`TempoIsRecent` equates two folds, over the ring and over the intervals, which
would need induction over data. `RingIsRecent` proves all that the code's state has to
do with it; what is left to TLC is that a sum does not depend on where in the ring it
starts. `Backpressure`, on the other hand, is only proved: the smallest instance in which the pipeline fills up has 6.6
million states.

Not modelled: what the pipeline stages compute (interpolation, swing and twist, square
roots and trigonometry of floats), rounding, the set-up of devices
before the scheduler starts (`main()` ignores whether it failed), the display but for the
verdict and the tempo, `calcVelocity()` with its average (`testing.cs:484-510`), and the
components listed as `not_modelled` in `PROJECT.json`.

## Plan

The order is by importance: what carries every frame first, then the two ends, then
what is computed.

1. *Done:* pipeline and its abstract channel; the I2C slave; `SPI_Task` and its quaternions;
   the I2C master, with its clock; the sampling loop; the ESP32 bridge; the GUI; all
   with proofs of their safety.
2. *Done since:* the promise of an I2C call (`I2cCall`) and its refinement by `I2cMaster`,
   which is where the sampler's outcomes come from; the parser with data bytes of any value.
3. *Not planned:* the parts listed as `not_modelled`: nothing calls them, or they have no state.
