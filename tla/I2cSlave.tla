------------------------------ MODULE I2cSlave ------------------------------
(***************************************************************************)
(* How a frame reaches the Zynq over I2C.  The MSP430 is the bus master;   *)
(* SlaveReadData() of I2C_manager.c, the callbacks it registered and the   *)
(* Xilinx driver beneath (xiic.c, xiic_slave.c, xiic_intr.c) make the Zynq *)
(* the slave.  Task and interrupt handler share ReceiveComplete, SlaveRead *)
(* and ReadBuffer.  The interrupts of the device are levels: "addressed",  *)
(* "not addressed", "more bytes than the occupancy depth"; with that many  *)
(* bytes in its FIFO the device holds the clock.                           *)
(*                                                                         *)
(* A byte is <<transfer, position>>.  The bus is slow (SlowBus): an event  *)
(* on it takes some 90 us at 100 kHz, longer than an interrupt and one     *)
(* turn of the polling loop of a task at the highest priority.             *)
(***************************************************************************)
EXTENDS Naturals, Sequences, FiniteSets

CONSTANTS
    FrameSize,      \* RECEIVE_COUNT: bytes of a transfer
    FifoDepth,      \* IIC_RX_FIFO_DEPTH
    MaxFrames,      \* bound of the model: transfers the master begins
    MaxAborts       \* bound of the model: transfers that time out

ASSUME SizeAssumption == FrameSize \in Nat \ {0} /\ FifoDepth \in Nat \ {0}
ASSUME BoundAssumption == MaxFrames \in Nat /\ MaxAborts \in Nat

VARIABLES
    \* the master
    busy,               \* a transfer is going on
    frame,              \* the transfers begun
    sent,               \* the bytes of the current one on the bus
    aborted,            \* the transfers that timed out
    \* the device
    on,                 \* XIic_Start() enabled it
    addressed,          \* ADDR_AS_SLAVE of the status register
    fifo,               \* the received bytes
    rfd,                \* receive FIFO depth register: throttle above it
    noAck,              \* bytes are not acknowledged
    enabled,            \* interrupts enabled
    global,             \* global interrupt enable
    \* the driver and the program
    armed,              \* RecvBufferPtr is not NULL
    recvCount,          \* RecvByteCount
    slaveRead,          \* SlaveRead
    receiveComplete,    \* ReceiveComplete: 1 while waiting
    readBuffer,         \* ReadBuffer
    \* the task
    pc,
    moved,              \* the bus moved since the last turn of the loop
    output,             \* outputArray, as far as it is copied
    delivered           \* the arrays passed to Queue_1 (history)

masterVars == <<busy, frame, sent, aborted>>
deviceVars == <<on, addressed, fifo, rfd, noAck, enabled, global>>
sharedVars == <<armed, recvCount, slaveRead, receiveComplete, readBuffer>>
taskVars   == <<pc, moved, output, delivered>>
vars == <<masterVars, deviceVars, sharedVars, taskVars>>

Empty == <<0, 0>>
Cleared == [k \in 1 .. FrameSize |-> Empty]

Init ==
    /\ busy = FALSE
    /\ frame = 0
    /\ sent = 0
    /\ aborted = {}
    /\ on = FALSE
    /\ addressed = FALSE
    /\ fifo = <<>>
    /\ rfd = 0
    /\ noAck = FALSE
    /\ enabled = {}
    /\ global = FALSE
    /\ armed = FALSE
    /\ recvCount = 0
    /\ slaveRead = 0
    /\ receiveComplete = 0
    /\ readBuffer = Cleared
    /\ pc = "idle"
    /\ moved = FALSE
    /\ output = <<>>
    /\ delivered = <<>>

-----------------------------------------------------------------------------
(* Interrupts.                                                             *)

Throttled == Len(fifo) > rfd

Pending ==
    {i \in enabled : \/ i = "AAS" /\ addressed
                     \/ i = "NAAS" /\ ~addressed
                     \/ i = "RX" /\ Throttled}

Irq == global /\ Pending # {}

\* ReadBuffer after n bytes of the FIFO went to RecvBufferPtr.
Stored(n) ==
    LET next == FrameSize - recvCount
    IN  [k \in 1 .. FrameSize |->
           IF k \in next + 1 .. next + n THEN fifo[k - next] ELSE readBuffer[k]]

\* Slip: the FIFO always waits until it is full.
FullDepth(n) == FifoDepth - 1

\* When the next interrupt comes: with the last byte, or a full FIFO.
Depth(n) == IF n > FifoDepth THEN FifoDepth - 1 ELSE IF n = 0 THEN 0 ELSE n - 1

\* AddrAsSlaveHandler() and StatusHandler().
AddrAsSlave ==
    /\ Irq /\ Pending = {"AAS"}
    /\ enabled' = (enabled \ {"AAS"}) \cup {"NAAS"}
    /\ slaveRead' = 1
    /\ UNCHANGED <<masterVars, on, addressed, fifo, rfd, noAck, global, armed, recvCount,
                   receiveComplete, readBuffer, taskVars>>

\* RecvSlaveData(): a byte too many is thrown away and no more are accepted.
RecvSlaveData ==
    /\ Irq /\ "RX" \in Pending /\ "NAAS" \notin Pending
    /\ fifo' = <<>>
    /\ \/ /\ recvCount = 0
          /\ noAck' = TRUE
          /\ rfd' = 0
          /\ UNCHANGED <<recvCount, readBuffer>>
       \/ /\ recvCount > 0
          /\ readBuffer' = Stored(Len(fifo))
          /\ recvCount' = recvCount - Len(fifo)
          /\ rfd' = Depth(recvCount')
          /\ UNCHANGED noAck
    /\ UNCHANGED <<masterVars, on, addressed, enabled, global, armed, slaveRead,
                   receiveComplete, taskVars>>

\* NotAddrAsSlaveHandler() and ReceiveHandler(), or SendHandler() before the
\* first XIic_SlaveRecv().
NotAddrAsSlave ==
    /\ Irq /\ "NAAS" \in Pending
    /\ readBuffer' = IF recvCount > Len(fifo) THEN Stored(Len(fifo)) ELSE readBuffer
    /\ fifo' = <<>>
    /\ rfd' = 0
    /\ noAck' = FALSE
    /\ enabled' = (enabled \ (IF armed THEN {"NAAS", "RX"} ELSE {"NAAS"})) \cup {"AAS"}
    /\ receiveComplete' = IF armed THEN 0 ELSE receiveComplete
    /\ recvCount' = 0
    /\ UNCHANGED <<masterVars, on, addressed, global, armed, slaveRead, taskVars>>

Interrupt == AddrAsSlave \/ RecvSlaveData \/ NotAddrAsSlave

-----------------------------------------------------------------------------
(* The task: SlaveReadData() and the copy in I2C_Task.                     *)

\* Slip: without "Verify Clear".
VerifyNothing ==
    /\ pc = "idle"
    /\ moved' = FALSE
    /\ pc' = "begin"
    /\ UNCHANGED <<masterVars, deviceVars, sharedVars, output, delivered>>

\* "Verify Clear".
VerifyClear ==
    /\ pc = "idle"
    /\ readBuffer' = Cleared
    /\ moved' = FALSE
    /\ pc' = "begin"
    /\ UNCHANGED <<masterVars, deviceVars, armed, recvCount, slaveRead, receiveComplete,
                   output, delivered>>

Begin ==
    /\ pc = "begin"
    /\ receiveComplete' = 1
    /\ pc' = "start"
    /\ UNCHANGED <<masterVars, deviceVars, armed, recvCount, slaveRead, readBuffer,
                   moved, output, delivered>>

\* Slip: the interrupts stay as XIic_Stop() left them.
StartSilent ==
    /\ pc = "start"
    /\ on' = TRUE
    /\ noAck' = FALSE
    /\ rfd' = 0
    /\ enabled' = {"AAS"}
    /\ pc' = "while"
    /\ UNCHANGED <<masterVars, addressed, fifo, global, sharedVars, moved, output, delivered>>

\* XIic_Start() and XIic_IntrGlobalEnable().
Start ==
    /\ pc = "start"
    /\ on' = TRUE
    /\ noAck' = FALSE
    /\ rfd' = 0
    /\ enabled' = {"AAS"}
    /\ global' = TRUE
    /\ pc' = "while"
    /\ UNCHANGED <<masterVars, addressed, fifo, sharedVars, moved, output, delivered>>

While ==
    /\ pc = "while"
    /\ pc' = IF receiveComplete = 1 THEN "look" ELSE "disable"
    /\ moved' = FALSE
    /\ UNCHANGED <<masterVars, deviceVars, sharedVars, output, delivered>>

Look ==
    /\ pc = "look"
    /\ pc' = IF slaveRead = 1 THEN "recv" ELSE "while"
    /\ UNCHANGED <<masterVars, deviceVars, sharedVars, moved, output, delivered>>

\* XIic_SlaveRecv() returns at once when the device is not addressed.
SlaveRecv ==
    /\ pc = "recv"
    /\ pc' = IF addressed THEN "arm" ELSE "clear"
    /\ UNCHANGED <<masterVars, deviceVars, sharedVars, moved, output, delivered>>

Arm ==
    /\ pc = "arm"
    /\ armed' = TRUE
    /\ recvCount' = FrameSize
    /\ rfd' = Depth(FrameSize)
    /\ enabled' = enabled \cup {"RX"}
    /\ global' = TRUE
    /\ pc' = "clear"
    /\ UNCHANGED <<masterVars, on, addressed, fifo, noAck, slaveRead, receiveComplete,
                   readBuffer, moved, output, delivered>>

Clear ==
    /\ pc = "clear"
    /\ slaveRead' = 0
    /\ pc' = "while"
    /\ UNCHANGED <<masterVars, deviceVars, armed, recvCount, receiveComplete, readBuffer,
                   moved, output, delivered>>

Disable ==
    /\ pc = "disable"
    /\ global' = FALSE
    /\ pc' = "stop"
    /\ UNCHANGED <<masterVars, on, addressed, fifo, rfd, noAck, enabled, sharedVars,
                   moved, output, delivered>>

\* XIic_Stop() enables the interrupts again when the device is addressed.
Stop ==
    /\ pc = "stop"
    /\ global' = addressed
    /\ pc' = "copy"
    /\ UNCHANGED <<masterVars, on, addressed, fifo, rfd, noAck, enabled, sharedVars,
                   moved, output, delivered>>

\* One byte into outputArray; after the last one it goes to Queue_1.
Copy ==
    /\ pc = "copy"
    /\ LET copied == Append(output, readBuffer[Len(output) + 1])
       IN  IF Len(copied) = FrameSize
             THEN /\ delivered' = Append(delivered, copied)
                  /\ output' = <<>>
                  /\ pc' = "idle"
             ELSE /\ output' = copied
                  /\ UNCHANGED <<delivered, pc>>
    /\ UNCHANGED <<masterVars, deviceVars, sharedVars, moved>>

\* An enabled interrupt is taken before the next instruction of the task.
TaskStep ==
    /\ ~Irq
    /\ \/ VerifyClear \/ Begin \/ Start
       \/ While \/ Look \/ SlaveRecv \/ Arm \/ Clear
       \/ Disable \/ Stop \/ Copy

-----------------------------------------------------------------------------
(* The master.                                                             *)

\* One event on the bus per turn of the loop and per way from the loop to the
\* end of the copy; any number while the task waits for room in Queue_1.
SlowBus == ~Irq /\ (moved => pc = "idle")

Event == SlowBus /\ moved' = TRUE /\ UNCHANGED <<pc, output, delivered>>

\* START and the address; a repeated START when the last transfer timed out
\* and the device did not see it end.
Address ==
    /\ Event /\ ~busy /\ on
    /\ frame < MaxFrames
    /\ frame' = frame + 1
    /\ sent' = 0
    /\ busy' = ~noAck
    /\ addressed' = ~noAck
    /\ UNCHANGED <<aborted, on, fifo, rfd, noAck, enabled, global, sharedVars>>

\* A byte that is not acknowledged ends the transfer.
SendByte ==
    /\ Event /\ busy /\ ~Throttled
    /\ sent < FrameSize
    /\ IF noAck
         THEN /\ busy' = FALSE
              /\ addressed' = FALSE
              /\ UNCHANGED <<sent, fifo>>
         ELSE /\ fifo' = Append(fifo, <<frame, sent + 1>>)
              /\ sent' = sent + 1
              /\ UNCHANGED <<busy, addressed>>
    /\ UNCHANGED <<frame, aborted, on, rfd, noAck, enabled, global, sharedVars>>

\* STOP.
Finish ==
    /\ Event /\ busy /\ ~Throttled
    /\ sent = FrameSize
    /\ busy' = FALSE
    /\ addressed' = FALSE
    /\ UNCHANGED <<frame, sent, aborted, on, fifo, rfd, noAck, enabled, global, sharedVars>>

\* The master gives up after I2C_TIMEOUT_MS and moves the lines like a STOP,
\* which is none while the device holds the clock.
Abort ==
    /\ Event /\ busy /\ Cardinality(aborted) < MaxAborts
    /\ aborted' = aborted \cup {frame}
    /\ busy' = FALSE
    /\ addressed' = Throttled
    /\ UNCHANGED <<frame, sent, on, fifo, rfd, noAck, enabled, global, sharedVars>>

MasterStep == SendByte \/ Finish

Next == TaskStep \/ Interrupt \/ Address \/ MasterStep \/ Abort

Spec == Init /\ [][Next]_vars

FairSpec == Spec /\ WF_vars(TaskStep) /\ WF_vars(Interrupt) /\ WF_vars(MasterStep)

-----------------------------------------------------------------------------
Whole(n) == [k \in 1 .. FrameSize |-> <<n, k>>]

\* "Wait for AAS interrupt and completion of data reception": what the task
\* passes on are the transfers of the master, whole, each once and in order,
\* as long as none timed out.
WholeFrames == aborted = {} => \A i \in 1 .. Len(delivered) : delivered[i] = Whole(i)

\* Whatever times out, no byte is passed on twice, and what is passed on later
\* is not older: "Verify Clear" leaves nothing of an earlier transfer behind.
NoReplay ==
    \A i, j \in 1 .. Len(delivered) : \A k, m \in 1 .. FrameSize :
        LET a == delivered[i][k]
            b == delivered[j][m]
        IN  i < j /\ Empty \notin {a, b} =>
                a[1] < b[1] \/ (a[1] = b[1] /\ a[2] < b[2])

\* The driver never writes behind ReadBuffer.
NoOverrun == "RX" \in enabled /\ Throttled => recvCount = 0 \/ Len(fifo) <= recvCount

\* No wake-up is lost: every transfer that was begun ends, as long as none
\* timed out.
TransfersEnd == busy /\ aborted = {} ~> ~busy \/ aborted # {}
=============================================================================
