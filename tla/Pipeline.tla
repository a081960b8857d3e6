------------------------------ MODULE Pipeline ------------------------------
(***************************************************************************)
(* The FreeRTOS application of the Zynq board: the six tasks and five      *)
(* queues that dispatchPipeline() creates (SeniorDesign/src/dispatch.c),   *)
(* the loop of each task, and the FreeRTOS heap their buffers live in.     *)
(*                                                                         *)
(*   I2C_Task -Q1-> Setup -Q2-> VectQuat -Q3-> Filter -Q4-> Slerp -Q5-> SPI *)
(*                                                                         *)
(* A frame is the set of samples of one I2C transfer, named by its number  *)
(* of arrival.  Every queue carries pointers; an entry is the frame whose  *)
(* buffer the pointer designates, and the kind of that buffer depends only *)
(* on the queue.  One processor: I2C_Task has the higher priority and spins *)
(* while it waits for the I2C master, so the five other tasks run only     *)
(* while it sleeps in vTaskDelay(1).                                       *)
(***************************************************************************)
EXTENDS Naturals, Sequences, FiniteSets

CONSTANTS
    QueueLength,    \* entries of each queue
    HeapBlocks,     \* blocks the FreeRTOS heap can serve
    ImuCount        \* IMU_COUNT: IMUs whose samples make a frame

ASSUME QueueLengthAssumption == QueueLength \in Nat \ {0}
ASSUME HeapBlocksAssumption == HeapBlocks \in Nat
ASSUME ImuCountAssumption == ImuCount \in Nat \ {0}

I2c      == 0
Setup    == 1
VectQuat == 2
Filter   == 3
Slerp    == 4
Spi      == 5

Stages == Setup .. Spi
Tasks  == I2c .. Spi

VARIABLES
    pc,         \* where each task is in its loop
    queue,      \* queue[s]: the input queue of stage s
    held,       \* held[s]: the frame InArray/InBuffer points to, 0 for NULL
    heap,       \* the allocated blocks
    put,        \* put[t]: frames task t has passed on (history)
    dropped,    \* frames freed because Queue_1 was full (history)
    wire,       \* the frames transmitted over SPI, oldest first (history)
    halted      \* vApplicationMallocFailedHook() was entered

vars == <<pc, queue, held, heap, put, dropped, wire, halted>>

-----------------------------------------------------------------------------
(* The heap.  A block is named by its kind, the frame it belongs to and, for *)
(* the IMU_Data_Int structures, the IMU.                                     *)

\* Kind of the buffer stage s receives.
InKind == [s \in Stages |->
    CASE s = Setup    -> "raw"      \* outputArray of I2C_Task, 18 bytes
      [] s = VectQuat -> "ptrs"     \* IMU_Data_Int *[IMU_COUNT]
      [] s = Filter   -> "quat8"    \* float[8 * IMU_COUNT]
      [] s = Slerp    -> "quat8"    \* the same array, changed in place
      [] s = Spi      -> "quat4"]   \* float[4 * IMU_COUNT]

Block(kind, f) == <<kind, f, 0>>

ImuBlocks(f) == {<<"imu", f, i>> : i \in 1 .. ImuCount}

\* What each stage allocates to process frame f; what it computes is not
\* modelled here.
SetupAllocates(f)    == {Block("ptrs", f)} \cup ImuBlocks(f)
VectQuatAllocates(f) == {Block("quat8", f)}
FilterAllocates(f)   == {}
SlerpAllocates(f)    == {Block("quat4", f)}

Allocated(s, f) ==
    CASE s = Setup    -> SetupAllocates(f)
      [] s = VectQuat -> VectQuatAllocates(f)
      [] s = Filter   -> FilterAllocates(f)
      [] s = Slerp    -> SlerpAllocates(f)

HasRoom(blocks) == Cardinality(heap) + Cardinality(blocks) <= HeapBlocks

\* pvPortMalloc(): a request that does not fit enters the hook, where
\* interrupts are off and nothing runs any more.
Malloc(blocks, s, next) ==
    \/ /\ HasRoom(blocks)
       /\ heap' = heap \cup blocks
       /\ pc' = [pc EXCEPT ![s] = next]
       /\ UNCHANGED halted
    \/ /\ ~HasRoom(blocks)
       /\ halted' = TRUE
       /\ UNCHANGED <<heap, pc>>

-----------------------------------------------------------------------------
(* The queues: xQueueSend() appends, xQueueReceive() takes the head.         *)

\* Slip: the unsigned count of free entries is compared with "< 0".
NeverFull(s) == FALSE

\* uxQueueSpacesAvailable() = 0, which is also when a send waits.
Full(s) == Len(queue[s]) = QueueLength

\* Slip: xQueueSendToFront().
EnqueuedInFront(s, f) == <<f>> \o queue[s]

Enqueued(s, f) == Append(queue[s], f)

-----------------------------------------------------------------------------
Init ==
    /\ pc = [t \in Tasks |-> IF t = I2c THEN "check" ELSE "start"]
    /\ queue = [s \in Stages |-> <<>>]
    /\ held = [s \in Stages |-> 0]
    /\ heap = {}
    /\ put = [t \in Tasks |-> 0]
    /\ dropped = 0
    /\ wire = <<>>
    /\ halted = FALSE

(* I2C_Task. *)

\* The frame I2C_Task is about to enqueue.
Arriving == put[I2c] + dropped + 1

\* Slip: no test for a free entry.
ListenAnyway == "receive"

\* A full Queue_1 sends the task to sleep for a tick; otherwise it listens.
ListenOrSleep == IF Full(Setup) THEN "delay" ELSE "receive"

I2cCheck ==
    /\ ~halted
    /\ pc[I2c] = "check"
    /\ pc' = [pc EXCEPT ![I2c] = ListenOrSleep]
    /\ UNCHANGED <<queue, held, heap, put, dropped, wire, halted>>

\* SlaveReadData() returns with a frame, which is copied to a new buffer.
I2cReceive ==
    /\ ~halted
    /\ pc[I2c] = "receive"
    /\ Malloc({Block("raw", Arriving)}, I2c, "send")
    /\ UNCHANGED <<queue, held, put, dropped, wire>>

\* xQueueSend() with no timeout: a full queue drops the frame.
I2cSend ==
    /\ ~halted
    /\ pc[I2c] = "send"
    /\ pc' = [pc EXCEPT ![I2c] = "check"]
    /\ \/ /\ ~Full(Setup)
          /\ queue' = [queue EXCEPT ![Setup] = Enqueued(Setup, Arriving)]
          /\ put' = [put EXCEPT ![I2c] = @ + 1]
          /\ UNCHANGED <<heap, dropped>>
       \/ /\ Full(Setup)
          /\ heap' = heap \ {Block("raw", Arriving)}
          /\ dropped' = dropped + 1
          /\ UNCHANGED <<queue, put>>
    /\ UNCHANGED <<held, wire, halted>>

\* The tick interrupt ends a vTaskDelay(), at any time, even while I2C_Task
\* spins: a task that wakes is ready, it does not run yet.
Wake(t) ==
    /\ ~halted
    /\ pc[t] = "delay"
    /\ pc' = [pc EXCEPT ![t] = "check"]
    /\ UNCHANGED <<queue, held, heap, put, dropped, wire, halted>>

-----------------------------------------------------------------------------
(* The five stages, which share one loop. *)

\* Slip: all six tasks are created with the same priority.
RunsAtAnyTime(s) == ~halted

\* A stage gets the processor only while I2C_Task sleeps.
Runs(s) == ~halted /\ pc[I2c] = "delay"

\* DelayFlag is set when a stage starts: its first act is to sleep.
StageStart(s) ==
    /\ Runs(s)
    /\ pc[s] = "start"
    /\ pc' = [pc EXCEPT ![s] = "delay"]
    /\ UNCHANGED <<queue, held, heap, put, dropped, wire, halted>>

\* Slip: no test, as in the version that is commented out.
ReceiveAtOnce(s) == "receive"

\* Slip: the "continue" falls out of the test.
AlwaysContinue(s) == "delay"

AfterCheck(s) == IF queue[s] = <<>> THEN "delay" ELSE "receive"

\* uxQueueMessagesWaiting(): an empty queue sets DelayFlag.  Every stage but
\* VectQuat clears its pointer first.
StageCheck(s) ==
    /\ Runs(s)
    /\ pc[s] = "check"
    /\ pc' = [pc EXCEPT ![s] = AfterCheck(s)]
    /\ held' = IF s = VectQuat THEN held ELSE [held EXCEPT ![s] = 0]
    /\ UNCHANGED <<queue, heap, put, dropped, wire, halted>>

\* xQueueReceive() of a pointer: it blocks while the queue is empty, except
\* that SPI_Task waits 5 ticks only, ignores the outcome and goes on with NULL.
StageReceive(s) ==
    /\ Runs(s)
    /\ pc[s] = "receive"
    /\ queue[s] # <<>> \/ s = Spi
    /\ IF queue[s] = <<>>
         THEN UNCHANGED <<held, queue>>
         ELSE /\ held' = [held EXCEPT ![s] = Head(queue[s])]
              /\ queue' = [queue EXCEPT ![s] = Tail(@)]
    /\ pc' = [pc EXCEPT ![s] = "process"]
    /\ UNCHANGED <<heap, put, dropped, wire, halted>>

\* The buffer of the result is allocated and filled.
StageProcess(s) ==
    /\ Runs(s)
    /\ s # Spi
    /\ pc[s] = "process"
    /\ Malloc(Allocated(s, held[s]), s, "send")
    /\ UNCHANGED <<queue, held, put, dropped, wire>>

\* Slip: the filter frees the array it forwards, as the other stages do.
AlwaysFree(s) == "free"

AfterSend(s) == IF s = Filter THEN "check" ELSE "free"

\* xQueueSend() with portMAX_DELAY: it blocks while the queue is full.  The
\* filter forwards the array it received and has nothing to free.
StageSend(s) ==
    /\ Runs(s)
    /\ s # Spi
    /\ pc[s] = "send"
    /\ ~Full(s + 1)
    /\ queue' = [queue EXCEPT ![s + 1] = Enqueued(s + 1, held[s])]
    /\ put' = [put EXCEPT ![s] = @ + 1]
    /\ pc' = [pc EXCEPT ![s] = AfterSend(s)]
    /\ UNCHANGED <<held, heap, dropped, wire, halted>>

\* SPI_Task composes the frame and sends it on the wire.
SpiTransmit ==
    /\ Runs(Spi)
    /\ pc[Spi] = "process"
    /\ wire' = Append(wire, held[Spi])
    /\ put' = [put EXCEPT ![Spi] = @ + 1]
    /\ pc' = [pc EXCEPT ![Spi] = "free"]
    /\ UNCHANGED <<queue, held, heap, dropped, halted>>

\* VectQuat frees the structures too, as it should.
FreesAll(s) == {Block(InKind[s], held[s])}
    \cup (IF s = VectQuat THEN ImuBlocks(held[s]) ELSE {})

\* VectQuat frees the array of pointers and not the structures they designate.
Frees(s) == {Block(InKind[s], held[s])}

\* vPortFree() of the input buffer.
StageFree(s) ==
    /\ Runs(s)
    /\ pc[s] = "free"
    /\ heap' = heap \ Frees(s)
    /\ pc' = [pc EXCEPT ![s] = "check"]
    /\ UNCHANGED <<queue, held, put, dropped, wire, halted>>

\* vApplicationMallocFailedHook() loops for ever.
MallocFailedHook ==
    /\ halted
    /\ UNCHANGED vars

-----------------------------------------------------------------------------
I2cStep == I2cCheck \/ I2cReceive \/ I2cSend

StageStep(s) ==
    \/ StageStart(s)
    \/ StageCheck(s)
    \/ StageReceive(s)
    \/ StageProcess(s)
    \/ StageSend(s)
    \/ StageFree(s)

Next ==
    \/ I2cStep
    \/ \E t \in Tasks : Wake(t)
    \/ \E s \in Stages : StageStep(s)
    \/ SpiTransmit
    \/ MallocFailedHook

Spec == Init /\ [][Next]_vars

(* The master keeps sending frames and the scheduler runs the highest      *)
(* ready task (weak fairness of I2C_Task), ticks keep coming (weak fairness *)
(* of Wake), and round robin among equal priorities resumes after the task *)
(* that ran last, so a stage that can run again and again does run (strong *)
(* fairness: I2C_Task preempts the stages over and over).                  *)
Fairness ==
    /\ WF_vars(I2cStep)
    /\ \A t \in Tasks : WF_vars(Wake(t))
    /\ \A s \in Stages \ {Spi} : SF_vars(StageStep(s))
    /\ SF_vars(StageStep(Spi) \/ SpiTransmit)

FairSpec == Spec /\ Fairness

-----------------------------------------------------------------------------
(* Properties. *)

\* Frames stage s has taken from its queue.
Taken(s) == put[s] + (IF pc[s] \in {"process", "send"} THEN 1 ELSE 0)

Labels == {"start", "delay", "check", "receive", "process", "send", "free"}

\* Type correctness of every variable of the tasks and the queues.
TypeOK ==
    /\ pc \in [Tasks -> Labels]
    /\ queue \in [Stages -> Seq(Nat)]
    /\ held \in [Stages -> Nat]
    /\ put \in [Tasks -> Nat]
    /\ dropped \in Nat
    /\ wire \in Seq(Nat)
    /\ halted \in BOOLEAN

\* What SPI_Task transmits is frame 1, 2, 3, ...: five queues and six tasks
\* neither lose, repeat nor reorder a frame.
InOrder == wire = [k \in 1 .. Len(wire) |-> k]

\* I2C_Task tests for a free entry before it listens on the bus and enqueues
\* with no timeout after it: in between, the entry cannot have been taken, so
\* no frame that was read is thrown away.
NoFrameDropped == dropped = 0

\* A stage tests uxQueueMessagesWaiting() before it receives; the message
\* cannot have gone in between, so no receive blocks and SPI_Task never times
\* out with a NULL pointer.
ReceiveNeverBlocks == \A s \in Stages : pc[s] = "receive" => queue[s] # <<>>

\* Every pointer in a queue, and every pointer a stage may still follow or
\* free, designates an allocated block: no use after free, no double free.
PointersLive ==
    /\ \A s \in Stages : \A k \in 1 .. Len(queue[s]) :
            Block(InKind[s], queue[s][k]) \in heap
    /\ \A s \in Stages : pc[s] \in {"process", "send", "free"} =>
            Block(InKind[s], held[s]) \in heap
    /\ pc[VectQuat] = "process" => ImuBlocks(held[VectQuat]) \subseteq heap

\* The pipeline holds at most five full queues and one frame per stage, so
\* the I2C master is throttled and buffers cannot pile up without bound.
Capacity == 5 * QueueLength + 5
Backpressure == put[I2c] - put[Spi] <= Capacity

\* I2C_Task outranks the stages and spins between two sleeps: no frame moves
\* until Queue_1 has been full once.
NothingBeforeBacklog ==
    Taken(Setup) > 0 => put[I2c] >= QueueLength

\* VectQuat leaks the IMU_Data_Int structures of each frame, so the heap
\* bounds the number of frames the program can ever transmit.
LifetimeBound == put[Spi] * ImuCount <= HeapBlocks

\* Once a frame has left the board and its last buffer was given back, no
\* block of it is allocated: what the comments "if failed, free to avoid a
\* leak" and "free the pointer so no leak occurs" are for.
NoLeak ==
    \A b \in heap : b[2] > put[Spi] \/ (b[2] = put[Spi] /\ pc[Spi] = "free")

\* A frame that entered Queue_1 reaches the wire, unless the heap runs out
\* first.
FramesArrive ==
    \A f \in 1 .. HeapBlocks :
        (put[I2c] >= f) ~> (put[Spi] >= f \/ halted)

\* With a master that keeps sending, the program ends in the hook.
LeakIsFatal == <>halted

\* The pipeline is a bounded, lossless, ordered channel.
Channel == INSTANCE FrameChannel WITH
    accepted <- put[I2c], wire <- wire, stopped <- halted
ImplementsChannel == Channel!Spec
-----------------------------------------------------------------------------
(* The inductive invariant the safety proofs rest on.  Counting frames is   *)
(* what ties the parts together: put[] and the program counters determine   *)
(* the content of every queue, every live pointer and the wire.             *)

\* Frames whose input buffer stage s has freed.
Freed(s) == IF pc[s] = "free" THEN put[s] - 1 ELSE put[s]

\* Frames for which task t has allocated its output buffer.
Made(t) == put[t] + (IF pc[t] = "send" THEN 1 ELSE 0)

ControlInv ==
    /\ pc[I2c] \in {"delay", "check", "receive", "send"}
    /\ pc[Filter] # "free"
    /\ pc[Spi] # "send"
    /\ ReceiveNeverBlocks

\* Queue s holds, in order, the frames passed to it and not yet taken.
FlowAt(s) ==
    /\ Len(queue[s]) <= QueueLength
    /\ Taken(s) + Len(queue[s]) = put[s - 1]
    /\ \A k \in 1 .. Len(queue[s]) : queue[s][k] = Taken(s) + k

FlowInv == \A s \in Stages : FlowAt(s)

\* A stage works on the frame after the last one it passed on, or frees it.
HeldInv ==
    \A s \in Stages :
        /\ pc[s] \in {"process", "send"} => held[s] = put[s] + 1
        /\ pc[s] = "free" => held[s] = put[s] /\ put[s] > 0

\* Nothing but I2C_Task fills Queue_1: the free entry it saw is still there.
I2cInv ==
    /\ dropped = 0
    /\ pc[I2c] \in {"receive", "send"} => Len(queue[Setup]) < QueueLength
    /\ (pc[I2c] = "delay" \/ Taken(Setup) > 0) => put[I2c] >= QueueLength

WireInv ==
    /\ Len(wire) = put[Spi]
    /\ \A k \in 1 .. Len(wire) : wire[k] = k

\* A buffer lives from the task that makes it to the stage that frees it; the
\* IMU_Data_Int structures live for ever.
HeapInv ==
    /\ IsFiniteSet(heap)
    /\ Cardinality(heap) <= HeapBlocks
    /\ \A f \in Freed(Setup) + 1 .. Made(I2c) : Block("raw", f) \in heap
    /\ \A f \in Freed(VectQuat) + 1 .. Made(Setup) : Block("ptrs", f) \in heap
    /\ \A f \in Freed(Slerp) + 1 .. Made(VectQuat) : Block("quat8", f) \in heap
    /\ \A f \in Freed(Spi) + 1 .. Made(Slerp) : Block("quat4", f) \in heap
    /\ \A f \in 1 .. Made(Setup) : ImuBlocks(f) \subseteq heap

IInv == TypeOK /\ ControlInv /\ FlowInv /\ HeldInv /\ I2cInv /\ WireInv /\ HeapInv
=============================================================================
