--------------------------- MODULE I2cSlaveProofs ---------------------------
(***************************************************************************)
(* What SlaveReadData() promises, for every length of a transfer, every    *)
(* depth of the FIFO and any number of transfers: nothing is written       *)
(* behind ReadBuffer, nothing is passed on twice, and what is passed on    *)
(* are whole transfers as long as none timed out.                          *)
(***************************************************************************)
EXTENDS I2cSlave, TLAPS

Byte  == (Nat \ {0}) \X (Nat \ {0})
Bytes == Byte \cup {Empty}
Array == [1 .. FrameSize -> Bytes]

Loop    == {"while", "look", "recv", "arm", "clear"}
Passing == {"disable", "stop", "copy"}

ControlOK ==
    /\ busy \in BOOLEAN /\ frame \in Nat /\ sent \in 0 .. FrameSize
    /\ addressed \in BOOLEAN
    /\ busy => addressed /\ frame > 0
    /\ rfd \in Nat
    /\ noAck \in BOOLEAN
    /\ enabled \subseteq {"AAS", "NAAS", "RX"}
    /\ global \in BOOLEAN /\ armed \in BOOLEAN
    /\ recvCount \in 0 .. FrameSize
    /\ slaveRead \in {0, 1} /\ receiveComplete \in {0, 1}
    /\ pc \in {"idle", "begin", "start"} \cup Loop \cup Passing
    /\ moved \in BOOLEAN

DataOK ==
    /\ fifo \in Seq(Byte)
    /\ readBuffer \in Array
    /\ output \in Seq(Bytes) /\ Len(output) < FrameSize
    /\ delivered \in Seq(Array)

TypeOK == ControlOK /\ DataOK

\* The FIFO never holds more than the depth register was ever set for, and
\* not more than is still to come while its interrupt is enabled.
DepthInv ==
    /\ rfd <= Depth(FrameSize)
    /\ Len(fifo) <= Depth(FrameSize) + 1
    /\ "RX" \in enabled => armed
    /\ "RX" \in enabled /\ recvCount > 0 => rfd = Depth(recvCount) /\ Len(fifo) <= recvCount

-----------------------------------------------------------------------------
(* Interrupts and the FIFO. *)

LEMMA AppendType ==
    ASSUME NEW S, NEW s \in Seq(S), NEW e \in S
    PROVE  /\ Append(s, e) \in Seq(S)
           /\ Len(Append(s, e)) = Len(s) + 1
           /\ \A k \in 1 .. Len(s) : Append(s, e)[k] = s[k]
           /\ Append(s, e)[Len(s) + 1] = e
  OBVIOUS

LEMMA DepthBounds ==
    ASSUME NEW n \in 0 .. FrameSize
    PROVE  /\ Depth(n) \in Nat /\ Depth(n) <= Depth(FrameSize)
           /\ n > 0 => Depth(n) + 1 <= n
  BY SizeAssumption DEF Depth

\* What waits when no interrupt is taken.
LEMMA IrqMeans ==
    ASSUME TypeOK
    PROVE  Irq <=> /\ global
                   /\ \/ "AAS" \in enabled /\ addressed
                      \/ "NAAS" \in enabled /\ ~addressed
                      \/ "RX" \in enabled /\ Throttled
<1>1. ASSUME NEW i \in Pending
      PROVE  \/ "AAS" \in enabled /\ addressed
             \/ "NAAS" \in enabled /\ ~addressed
             \/ "RX" \in enabled /\ Throttled
  BY <1>1 DEF Pending
<1>2. /\ "AAS" \in enabled /\ addressed => "AAS" \in Pending
      /\ "NAAS" \in enabled /\ ~addressed => "NAAS" \in Pending
      /\ "RX" \in enabled /\ Throttled => "RX" \in Pending
  BY DEF Pending
<1> QED BY <1>1, <1>2 DEF Irq

LEMMA StoredType ==
    ASSUME TypeOK PROVE Stored(Len(fifo)) \in Array
<1> DEFINE next == FrameSize - recvCount
<1>1. next \in Nat
  BY SizeAssumption DEF TypeOK, ControlOK
<1>2. ASSUME NEW k \in 1 .. FrameSize, k \in next + 1 .. next + Len(fifo)
      PROVE  fifo[k - next] \in Byte
  BY <1>1, <1>2 DEF TypeOK, DataOK
<1> QED BY <1>1, <1>2 DEF Stored, TypeOK, DataOK, Array, Bytes

LEMMA InitType == Init => TypeOK /\ DepthInv
<1> USE SizeAssumption
<1> SUFFICES ASSUME Init PROVE TypeOK /\ DepthInv
  OBVIOUS
<1>1. ControlOK
  <2>1. 0 \in 0 .. FrameSize
    OBVIOUS
  <2>2. pc \in {"idle", "begin", "start"} \cup Loop \cup Passing
    BY DEF Init
  <2> QED BY <2>1, <2>2 DEF Init, ControlOK
<1>2. DataOK
  BY DEF Init, DataOK, Array, Cleared, Bytes
<1>3. DepthInv
  BY DEF Init, DepthInv, Depth
<1> QED BY <1>1, <1>2, <1>3 DEF TypeOK

\* A copied byte, and the array it completes.
LEMMA CopyMeans ==
    ASSUME TypeOK, Copy
    PROVE  \E copied \in Seq(Bytes) :
              /\ copied = Append(output, readBuffer[Len(output) + 1])
              /\ Len(copied) = Len(output) + 1
              /\ Len(copied) = FrameSize =>
                    /\ copied \in Array
                    /\ delivered' = Append(delivered, copied)
                    /\ output' = <<>> /\ pc' = "idle"
              /\ Len(copied) # FrameSize =>
                    /\ Len(copied) < FrameSize
                    /\ output' = copied /\ UNCHANGED <<delivered, pc>>
<1> DEFINE copied == Append(output, readBuffer[Len(output) + 1])
<1>1. copied \in Seq(Bytes) /\ Len(copied) = Len(output) + 1 /\ Len(copied) <= FrameSize
  BY SizeAssumption DEF TypeOK, DataOK, Array
<1>2. copied \in [1 .. Len(copied) -> Bytes]
  <2> HIDE DEF copied
  <2> QED BY <1>1
<1>3. /\ Len(copied) = FrameSize =>
            /\ delivered' = Append(delivered, copied)
            /\ output' = <<>> /\ pc' = "idle"
      /\ Len(copied) # FrameSize =>
            /\ Len(copied) < FrameSize
            /\ output' = copied /\ UNCHANGED <<delivered, pc>>
  <2>1. Len(copied) # FrameSize => Len(copied) < FrameSize
    <3> HIDE DEF copied
    <3> QED BY <1>1, SizeAssumption
  <2> QED BY <2>1 DEF Copy
<1>4. Len(copied) = FrameSize => copied \in Array
  BY <1>2 DEF Array
<1> QED BY <1>1, <1>3, <1>4

LEMMA StepControl == TypeOK /\ DepthInv /\ [Next]_vars => ControlOK'
<1> USE SizeAssumption DEF TypeOK, ControlOK, masterVars, deviceVars, sharedVars, taskVars
<1> SUFFICES ASSUME TypeOK, DepthInv, [Next]_vars PROVE ControlOK'
  OBVIOUS
<1>1. CASE AddrAsSlave
  BY <1>1 DEF AddrAsSlave
<1>2. CASE RecvSlaveData
  <2>1. CASE recvCount = 0
    BY <1>2, <2>1 DEF RecvSlaveData
  <2>2. CASE recvCount > 0
    <3>1. Len(fifo) <= recvCount /\ Len(fifo) \in Nat
      BY <1>2, <2>2 DEF DataOK, DepthInv, RecvSlaveData, Pending
    <3>2. recvCount' \in 0 .. FrameSize /\ rfd' \in Nat
      BY <1>2, <2>2, <3>1, DepthBounds DEF RecvSlaveData
    <3> QED BY <1>2, <2>2, <3>2 DEF RecvSlaveData
  <2> QED BY <2>1, <2>2
<1>3. CASE NotAddrAsSlave
  <2>1. enabled' \subseteq {"AAS", "NAAS", "RX"} /\ receiveComplete' \in {0, 1}
    BY <1>3 DEF NotAddrAsSlave
  <2>2. recvCount' = 0 /\ rfd' = 0 /\ noAck' \in BOOLEAN
    BY <1>3 DEF NotAddrAsSlave
  <2>3. UNCHANGED <<busy, frame, sent, addressed, global, armed, slaveRead, pc, moved>>
    BY <1>3 DEF NotAddrAsSlave
  <2> QED BY <2>1, <2>2, <2>3
<1>4. CASE VerifyClear
  BY <1>4 DEF VerifyClear
<1>5. CASE Begin
  BY <1>5 DEF Begin
<1>6. CASE Start
  BY <1>6 DEF Start, Loop
<1>7. CASE While
  BY <1>7 DEF While, Loop, Passing
<1>8. CASE Look
  BY <1>8 DEF Look, Loop
<1>9. CASE SlaveRecv
  BY <1>9 DEF SlaveRecv, Loop
<1>10. CASE Arm
  BY <1>10, DepthBounds DEF Arm, Loop
<1>11. CASE Clear
  BY <1>11 DEF Clear, Loop
<1>12. CASE Disable
  BY <1>12 DEF Disable, Passing
<1>13. CASE Stop
  BY <1>13 DEF Stop, Passing
<1>14. CASE Copy
  <2>1. pc' \in {"idle", pc}
    BY <1>14, CopyMeans
  <2> QED BY <1>14, <2>1 DEF Copy
<1>15. CASE Address
  BY <1>15 DEF Address, Event
<1>16. CASE SendByte
  <2>1. sent' \in {sent, sent + 1} /\ sent < FrameSize
    BY <1>16 DEF SendByte
  <2>2. busy' \in BOOLEAN /\ addressed' \in BOOLEAN /\ (busy' => addressed')
    BY <1>16 DEF SendByte
  <2> QED BY <1>16, <2>1, <2>2 DEF SendByte, Event
<1>17. CASE Finish
  BY <1>17 DEF Finish, Event
<1>18. CASE Abort
  <2>1. Throttled \in BOOLEAN
    BY DEF Throttled
  <2> QED BY <1>18, <2>1 DEF Abort, Event
<1>19. CASE UNCHANGED vars
  BY <1>19 DEF vars
<1> QED BY <1>1, <1>2, <1>3, <1>4, <1>5, <1>6, <1>7, <1>8, <1>9, <1>10, <1>11, <1>12,
           <1>13, <1>14, <1>15, <1>16, <1>17, <1>18, <1>19
        DEF Next, TaskStep, Interrupt, MasterStep

LEMMA StepData == TypeOK /\ [Next]_vars => DataOK'
<1> USE SizeAssumption DEF DataOK, masterVars, deviceVars, sharedVars, taskVars
<1> SUFFICES ASSUME TypeOK, [Next]_vars PROVE DataOK'
  OBVIOUS
<1>0. DataOK
  BY DEF TypeOK
<1>1. CASE RecvSlaveData
  BY <1>0, <1>1, StoredType DEF RecvSlaveData
<1>2. CASE NotAddrAsSlave
  BY <1>0, <1>2, StoredType DEF NotAddrAsSlave
<1>3. CASE VerifyClear
  BY <1>0, <1>3 DEF VerifyClear, Cleared, Array, Bytes
<1>4. CASE Copy
  <2>1. PICK copied \in Seq(Bytes) :
              /\ Len(copied) = Len(output) + 1
              /\ Len(copied) = FrameSize =>
                    copied \in Array /\ delivered' = Append(delivered, copied) /\ output' = <<>>
              /\ Len(copied) # FrameSize =>
                    Len(copied) < FrameSize /\ output' = copied /\ UNCHANGED delivered
    BY <1>4, CopyMeans
  <2>2. CASE Len(copied) = FrameSize
    <3>1. delivered' \in Seq(Array)
      <4>1. copied \in Array /\ delivered' = Append(delivered, copied)
        BY <2>1, <2>2, Zenon
      <4> QED BY <1>0, <4>1, AppendType, Zenon
    <3>2. output' = <<>>
      BY <2>1, <2>2
    <3>3. output' \in Seq(Bytes) /\ Len(output') < FrameSize
      BY <3>2
    <3> QED BY <1>0, <1>4, <3>1, <3>3 DEF Copy
  <2>3. CASE Len(copied) # FrameSize
    BY <1>0, <1>4, <2>1, <2>3 DEF Copy
  <2> QED BY <2>1, <2>2, <2>3
<1>5. CASE SendByte
  <2>1. <<frame, sent + 1>> \in Byte
    BY <1>5 DEF TypeOK, ControlOK, SendByte, Byte
  <2>2. fifo' = fifo \/ fifo' = Append(fifo, <<frame, sent + 1>>)
    BY <1>5 DEF SendByte
  <2>3. fifo' \in Seq(Byte)
    BY <1>0, <2>1, <2>2, AppendType, Zenon
  <2> QED BY <1>0, <1>5, <2>3 DEF SendByte, Event
<1>6. CASE UNCHANGED <<fifo, readBuffer, output, delivered>>
  BY <1>0, <1>6
<1>7. AddrAsSlave \/ Begin \/ Start \/ While \/ Look \/ SlaveRecv \/ Arm \/ Clear \/ Disable \/ Stop
         \/ Address \/ Finish \/ Abort \/ UNCHANGED vars
        => UNCHANGED <<fifo, readBuffer, output, delivered>>
  BY DEF AddrAsSlave, Begin, Start, While, Look, SlaveRecv, Arm, Clear, Disable, Stop,
         Address, Finish, Abort, Event, vars
<1> QED BY <1>1, <1>2, <1>3, <1>4, <1>5, <1>6, <1>7 DEF Next, TaskStep, Interrupt, MasterStep

LEMMA StepDepth == TypeOK /\ DepthInv /\ [Next]_vars => DepthInv'
<1> USE SizeAssumption DEF DepthInv, masterVars, deviceVars, sharedVars, taskVars
<1> SUFFICES ASSUME TypeOK, DepthInv, [Next]_vars PROVE DepthInv'
  OBVIOUS
<1>0. /\ rfd \in Nat /\ recvCount \in 0 .. FrameSize
      /\ Len(fifo) \in Nat /\ Len(<<>>) = 0
      /\ FrameSize \in 0 .. FrameSize
  BY DEF TypeOK, ControlOK, DataOK
<1>1. CASE AddrAsSlave
  BY <1>1 DEF AddrAsSlave
<1>2. CASE RecvSlaveData
  <2>1. fifo' = <<>> /\ UNCHANGED <<enabled, armed>>
    BY <1>2 DEF RecvSlaveData
  <2>2. CASE recvCount = 0
    <3>1. rfd' = 0 /\ recvCount' = 0
      BY <1>2, <2>2 DEF RecvSlaveData
    <3> QED BY <1>0, <2>1, <3>1, DepthBounds
  <2>3. CASE recvCount > 0
    <3>1. rfd' = Depth(recvCount') /\ recvCount' = recvCount - Len(fifo)
      BY <1>2, <2>3 DEF RecvSlaveData
    <3>2. Len(fifo) <= recvCount
      BY <1>2, <2>3 DEF RecvSlaveData, Pending
    <3>3. recvCount' \in 0 .. FrameSize
      BY <1>0, <3>1, <3>2
    <3> QED BY <1>0, <2>1, <3>1, <3>3, DepthBounds
  <2> QED BY <1>0, <2>2, <2>3
<1>3. CASE NotAddrAsSlave
  <2>1. fifo' = <<>> /\ rfd' = 0 /\ recvCount' = 0 /\ armed' = armed
    BY <1>3 DEF NotAddrAsSlave
  <2>2. "RX" \in enabled' => armed
    BY <1>3 DEF NotAddrAsSlave
  <2> QED BY <1>0, <2>1, <2>2, DepthBounds
<1>4. CASE Start
  BY <1>0, <1>4, DepthBounds DEF Start
<1>5. CASE Arm
  <2>1. /\ armed' = TRUE /\ recvCount' = FrameSize /\ rfd' = Depth(FrameSize)
        /\ fifo' = fifo
    BY <1>5 DEF Arm
  <2> QED BY <1>0, <2>1, DepthBounds
<1>6. CASE SendByte
  <2>1. UNCHANGED <<rfd, recvCount, enabled, armed>> /\ Len(fifo) <= rfd
    BY <1>0, <1>6 DEF SendByte, Throttled
  <2>2. Len(fifo') \in {Len(fifo), Len(fifo) + 1}
    <3>1. fifo' = fifo \/ fifo' = Append(fifo, <<frame, sent + 1>>)
      BY <1>6 DEF SendByte
    <3>2. <<frame, sent + 1>> \in Byte
      BY <1>6 DEF TypeOK, ControlOK, SendByte, Byte
    <3> QED BY <3>1, <3>2, AppendType DEF TypeOK, DataOK
  <2> QED BY <1>0, <2>1, <2>2, DepthBounds
<1>7. CASE UNCHANGED <<rfd, fifo, enabled, armed, recvCount>>
  BY <1>7
<1>8. VerifyClear \/ Begin \/ While \/ Look \/ SlaveRecv \/ Clear \/ Disable \/ Stop \/ Copy
         \/ Address \/ Finish \/ Abort \/ UNCHANGED vars
        => UNCHANGED <<rfd, fifo, enabled, armed, recvCount>>
  BY DEF VerifyClear, Begin, While, Look, SlaveRecv, Clear, Disable, Stop, Copy,
         Address, Finish, Abort, Event, vars
<1> QED BY <1>1, <1>2, <1>3, <1>4, <1>5, <1>6, <1>7, <1>8
        DEF Next, TaskStep, Interrupt, MasterStep

\* The inductive invariant of the FIFO and the types, as one.
FifoInv == TypeOK /\ DepthInv

LEMMA Fifo == Spec => []FifoInv
<1>1. Init => FifoInv
  BY InitType DEF FifoInv
<1>2. FifoInv /\ [Next]_vars => FifoInv'
  BY StepControl, StepData, StepDepth DEF FifoInv, TypeOK
<1> QED BY <1>1, <1>2, PTL DEF Spec

\* The interrupt handler never stores more bytes than the task asked for, for
\* every length of a transfer and every depth of the FIFO: the depth register
\* follows RecvByteCount.
THEOREM NothingBehindTheBuffer == Spec => []NoOverrun
<1>1. FifoInv => NoOverrun
  BY DEF FifoInv, TypeOK, ControlOK, DepthInv, NoOverrun
<1> QED BY <1>1, Fifo, PTL

-----------------------------------------------------------------------------
(* The bus is slow. *)

\* Between two turns of the loop the bus does one thing at most; when it ends
\* the transfer, nothing happens until the array is passed on.
QuietInv ==
    /\ pc \in Loop => global
    /\ pc \in Loop \cup {"start"} =>
         /\ global /\ "NAAS" \in enabled /\ ~addressed => moved
         /\ receiveComplete = 0 =>
              moved /\ ~addressed /\ "NAAS" \notin enabled /\ fifo = <<>>
    /\ pc \in Passing => fifo = <<>> /\ (busy => moved)

LEMMA StepQuiet == FifoInv /\ QuietInv /\ [Next]_vars => QuietInv'
<1> USE SizeAssumption DEF QuietInv, Loop, Passing, masterVars, deviceVars, sharedVars, taskVars
<1> SUFFICES ASSUME FifoInv, QuietInv, [Next]_vars PROVE QuietInv'
  OBVIOUS
<1>0. /\ TypeOK /\ moved \in BOOLEAN /\ addressed \in BOOLEAN /\ global \in BOOLEAN
      /\ busy => addressed
      /\ Len(<<>>) = 0
  BY DEF FifoInv, TypeOK, ControlOK
<1>i. ~Irq => /\ global /\ "AAS" \in enabled => ~addressed
              /\ global /\ "NAAS" \in enabled => addressed
  BY <1>0, IrqMeans
<1>1. CASE AddrAsSlave
  <2>1. addressed
    BY <1>1 DEF AddrAsSlave, Pending
  <2> QED BY <1>0, <1>1, <2>1 DEF AddrAsSlave
<1>2. CASE RecvSlaveData
  BY <1>0, <1>2 DEF RecvSlaveData, Pending
<1>3. CASE NotAddrAsSlave
  <2>1. "NAAS" \in enabled /\ ~addressed /\ global
    BY <1>3 DEF NotAddrAsSlave, Pending, Irq
  <2>2. "NAAS" \notin enabled'
    BY <1>3 DEF NotAddrAsSlave
  <2>4. fifo' = <<>>
    BY <1>3 DEF NotAddrAsSlave
  <2>3. UNCHANGED <<pc, moved, addressed, global, busy>>
    BY <1>3 DEF NotAddrAsSlave
  <2> QED BY <1>0, <2>1, <2>2, <2>3, <2>4
<1>4. CASE VerifyClear
  BY <1>4 DEF VerifyClear
<1>5. CASE Begin /\ ~Irq
  BY <1>0, <1>i, <1>5 DEF Begin
<1>6. CASE Start
  BY <1>0, <1>6 DEF Start
<1>7. CASE While /\ ~Irq
  <2>1. CASE receiveComplete = 1
    BY <1>0, <1>i, <1>7, <2>1 DEF While
  <2>2. CASE receiveComplete = 0
    BY <1>0, <1>i, <1>7, <2>2 DEF While
  <2> QED BY <2>1, <2>2 DEF FifoInv, TypeOK, ControlOK
<1>8. CASE Look \/ SlaveRecv \/ Clear
  BY <1>8 DEF Look, SlaveRecv, Clear
<1>9. CASE Arm
  BY <1>9 DEF Arm
<1>10. CASE Disable \/ Stop
  BY <1>10 DEF Disable, Stop
<1>11. CASE Copy
  <2>1. pc' \in {"idle", pc} /\ pc = "copy"
    BY <1>0, <1>11, CopyMeans DEF Copy
  <2> QED BY <1>11, <2>1 DEF Copy
<1>12. CASE Address \/ SendByte \/ Finish \/ Abort
  <2>1. moved' = TRUE /\ (moved => pc = "idle") /\ pc' = pc
    BY <1>12 DEF Address, SendByte, Finish, Abort, Event, SlowBus
  <2>2. pc \notin Loop \cup {"start"} \/ receiveComplete = 1
    BY <2>1 DEF FifoInv, TypeOK, ControlOK
  <2>3. UNCHANGED <<global, receiveComplete>>
    BY <1>12 DEF Address, SendByte, Finish, Abort
  <2>4. pc \in Passing => fifo' = fifo
    BY <1>12, <2>1 DEF Address, SendByte, Finish, Abort
  <2> QED BY <2>1, <2>2, <2>3, <2>4
<1>13. CASE UNCHANGED vars
  BY <1>13 DEF vars
<1> QED BY <1>1, <1>2, <1>3, <1>4, <1>5, <1>6, <1>7, <1>8, <1>9, <1>10, <1>11, <1>12, <1>13
        DEF Next, TaskStep, Interrupt, MasterStep

-----------------------------------------------------------------------------
(* The order of the bytes. *)

\* The byte is one of the first n of transfer f, or of an earlier one, or none.
KnownAt(b, f, n) == b = Empty \/ b[1] < f \/ (b[1] = f /\ b[2] <= n)

Precedes(a, b) == a = Empty \/ b = Empty \/ a[1] < b[1] \/ (a[1] = b[1] /\ a[2] < b[2])

\* Bytes move from the bus to the FIFO, to ReadBuffer and into an array, and
\* those of an array that was passed on are older than all behind it; only
\* from the copy to "Verify Clear" does ReadBuffer still hold what is in one.
OrderInv ==
    /\ \A m \in 1 .. Len(fifo) : KnownAt(fifo[m], frame, sent)
    /\ \A m \in 1 .. FrameSize : KnownAt(readBuffer[m], frame, sent)
    /\ \A i \in 1 .. Len(delivered) : \A k \in 1 .. FrameSize :
         /\ KnownAt(delivered[i][k], frame, sent)
         /\ \A m \in 1 .. Len(fifo) : Precedes(delivered[i][k], fifo[m])
         /\ pc # "idle" => \A m \in 1 .. FrameSize : Precedes(delivered[i][k], readBuffer[m])
    /\ pc # "copy" => output = <<>>
    /\ \A m \in 1 .. Len(output) : output[m] = readBuffer[m]
    /\ \A i, j \in 1 .. Len(delivered) : \A k, m \in 1 .. FrameSize :
         i < j => Precedes(delivered[i][k], delivered[j][m])

LEMMA StoredBytes ==
    ASSUME TypeOK, NEW m \in 1 .. FrameSize
    PROVE  \/ Stored(Len(fifo))[m] = readBuffer[m]
           \/ \E l \in 1 .. Len(fifo) : Stored(Len(fifo))[m] = fifo[l]
<1> DEFINE next == FrameSize - recvCount
<1>1. next \in Nat /\ Len(fifo) \in Nat
  BY SizeAssumption DEF TypeOK, ControlOK, DataOK
<1>2. CASE m \in next + 1 .. next + Len(fifo)
  <2>1. m - next \in 1 .. Len(fifo)
    BY <1>1, <1>2
  <2> QED BY <1>2, <2>1 DEF Stored
<1>3. CASE m \notin next + 1 .. next + Len(fifo)
  BY <1>3 DEF Stored
<1> QED BY <1>2, <1>3

\* What an interrupt does to the bytes.
LEMMA StoreOrder ==
    ASSUME FifoInv, QuietInv, OrderInv, fifo' = <<>>,
           \A m \in 1 .. FrameSize :
              readBuffer'[m] = readBuffer[m] \/ \E l \in 1 .. Len(fifo) : readBuffer'[m] = fifo[l],
           UNCHANGED <<frame, sent, pc, output, delivered>>
    PROVE  OrderInv'
<1>1. \A m \in 1 .. FrameSize : KnownAt(readBuffer'[m], frame', sent')
  BY DEF OrderInv, KnownAt
<1>2. ASSUME NEW i \in 1 .. Len(delivered), NEW k \in 1 .. FrameSize, pc # "idle",
             NEW m \in 1 .. FrameSize
      PROVE  Precedes(delivered[i][k], readBuffer'[m])
  <2>1. Precedes(delivered[i][k], readBuffer[m])
    BY <1>2 DEF OrderInv
  <2>2. \A l \in 1 .. Len(fifo) : Precedes(delivered[i][k], fifo[l])
    BY DEF OrderInv
  <2>3. readBuffer'[m] = readBuffer[m] \/ \E l \in 1 .. Len(fifo) : readBuffer'[m] = fifo[l]
    OBVIOUS
  <2> QED BY <2>1, <2>2, <2>3
<1>3. ASSUME NEW m \in 1 .. Len(output) PROVE output[m] = readBuffer'[m]
  <2>1. pc = "copy" /\ m \in 1 .. FrameSize
    BY SizeAssumption DEF OrderInv, FifoInv, TypeOK, DataOK
  <2>2. fifo = <<>>
    BY <2>1 DEF QuietInv, Passing
  <2>3. readBuffer'[m] = readBuffer[m]
    BY <2>1, <2>2
  <2> QED BY <2>3 DEF OrderInv
<1>4. \A m \in 1 .. Len(fifo') : FALSE
  OBVIOUS
<1> QED BY <1>1, <1>2, <1>3, <1>4 DEF OrderInv, KnownAt

LEMMA NewestByte ==
    ASSUME ControlOK, NEW b \in Bytes, KnownAt(b, frame, sent)
    PROVE  Precedes(b, <<frame, sent + 1>>)
<1>1. b = Empty \/ (b[1] \in Nat /\ b[2] \in Nat)
  BY DEF Bytes, Byte
<1> QED BY <1>1 DEF ControlOK, KnownAt, Precedes

LEMMA KnownAfter ==
    ASSUME ControlOK, ControlOK', NEW b \in Bytes, KnownAt(b, frame, sent),
           frame' > frame \/ (frame' = frame /\ sent' >= sent)
    PROVE  KnownAt(b, frame', sent')
<1>1. b = Empty \/ (b[1] \in Nat /\ b[2] \in Nat)
  BY DEF Bytes, Byte
<1> QED BY <1>1 DEF ControlOK, KnownAt

LEMMA BytesTypes ==
    ASSUME DataOK
    PROVE  /\ \A m \in 1 .. Len(fifo) : fifo[m] \in Bytes
           /\ \A m \in 1 .. FrameSize : readBuffer[m] \in Bytes
           /\ \A i \in 1 .. Len(delivered) : \A k \in 1 .. FrameSize : delivered[i][k] \in Bytes
<1>1. \A m \in 1 .. Len(fifo) : fifo[m] \in Bytes
  BY DEF DataOK, Bytes
<1>2. \A m \in 1 .. FrameSize : readBuffer[m] \in Bytes
  BY DEF DataOK, Array
<1>3. ASSUME NEW i \in 1 .. Len(delivered) PROVE \A k \in 1 .. FrameSize : delivered[i][k] \in Bytes
  <2>1. delivered[i] \in Array
    BY DEF DataOK
  <2> QED BY <2>1 DEF Array
<1> QED BY <1>1, <1>2, <1>3

LEMMA CopiedBytes ==
    ASSUME TypeOK, OrderInv, NEW copied, copied = Append(output, readBuffer[Len(output) + 1])
    PROVE  \A m \in 1 .. Len(copied) : copied[m] = readBuffer[m]
<1> SUFFICES ASSUME NEW m \in 1 .. Len(copied) PROVE copied[m] = readBuffer[m]
  OBVIOUS
<1>1. output \in Seq(Bytes) /\ Len(output) \in Nat /\ readBuffer[Len(output) + 1] \in Bytes
  BY SizeAssumption DEF TypeOK, DataOK, Array
<1>2. /\ Len(copied) = Len(output) + 1
      /\ \A k \in 1 .. Len(output) : copied[k] = output[k]
      /\ copied[Len(output) + 1] = readBuffer[Len(output) + 1]
  BY <1>1, AppendType
<1>3. m \in 1 .. Len(output) \/ m = Len(output) + 1
  BY <1>1, <1>2
<1> QED BY <1>2, <1>3 DEF OrderInv

LEMMA StepOrder == FifoInv /\ QuietInv /\ OrderInv /\ FifoInv' /\ [Next]_vars => OrderInv'
<1> USE SizeAssumption DEF masterVars, deviceVars, sharedVars, taskVars
<1> SUFFICES ASSUME FifoInv, QuietInv, OrderInv, FifoInv', [Next]_vars PROVE OrderInv'
  OBVIOUS
<1>0. TypeOK /\ ControlOK /\ DataOK /\ ControlOK' /\ DataOK'
  BY DEF FifoInv, TypeOK
<1>1. CASE RecvSlaveData
  <2>1. fifo' = <<>> /\ UNCHANGED <<frame, sent, pc, output, delivered>>
    BY <1>1 DEF RecvSlaveData
  <2>2. readBuffer' = readBuffer \/ readBuffer' = Stored(Len(fifo))
    BY <1>1 DEF RecvSlaveData
  <2> QED BY <1>0, <2>1, <2>2, StoredBytes, StoreOrder
<1>2. CASE NotAddrAsSlave
  <2>1. fifo' = <<>> /\ UNCHANGED <<frame, sent, pc, output, delivered>>
    BY <1>2 DEF NotAddrAsSlave
  <2>2. readBuffer' = readBuffer \/ readBuffer' = Stored(Len(fifo))
    BY <1>2 DEF NotAddrAsSlave
  <2> QED BY <1>0, <2>1, <2>2, StoredBytes, StoreOrder
<1>3. CASE VerifyClear
  <2>1. \A m \in 1 .. FrameSize : readBuffer'[m] = Empty
    BY <1>3 DEF VerifyClear, Cleared
  <2>2. output = <<>> /\ UNCHANGED <<frame, sent, fifo, output, delivered>>
    BY <1>3 DEF VerifyClear, OrderInv
  <2> QED BY <2>1, <2>2 DEF OrderInv, KnownAt, Precedes
<1>4. CASE Copy
  <2>1. /\ pc = "copy" /\ fifo = <<>>
        /\ UNCHANGED <<frame, sent, fifo, readBuffer>>
    BY <1>4 DEF Copy, QuietInv, Passing
  <2>2. PICK copied \in Seq(Bytes) :
              /\ copied = Append(output, readBuffer[Len(output) + 1])
              /\ Len(copied) = Len(output) + 1
              /\ Len(copied) = FrameSize =>
                    /\ copied \in Array /\ delivered' = Append(delivered, copied)
                    /\ output' = <<>> /\ pc' = "idle"
              /\ Len(copied) # FrameSize =>
                    /\ output' = copied /\ UNCHANGED <<delivered, pc>>
    BY <1>0, <1>4, CopyMeans
  <2>3. \A m \in 1 .. Len(copied) : copied[m] = readBuffer[m]
    BY <1>0, <2>2, CopiedBytes
  <2>4. CASE Len(copied) # FrameSize
    <3>1. output' = copied /\ UNCHANGED <<delivered, pc>>
      BY <2>2, <2>4
    <3>2. \A m \in 1 .. Len(output') : output'[m] = readBuffer'[m]
      BY <2>1, <2>3, <3>1
    <3>3. pc' = "copy"
      BY <2>1, <3>1
    <3> QED BY <2>1, <3>1, <3>2, <3>3 DEF OrderInv
  <2>5. CASE Len(copied) = FrameSize
    <3>1. copied \in Array /\ delivered' = Append(delivered, copied) /\ output' = <<>>
      BY <2>2, <2>5
    <3>2. /\ Len(delivered') = Len(delivered) + 1
          /\ \A i \in 1 .. Len(delivered) : delivered'[i] = delivered[i]
          /\ delivered'[Len(delivered) + 1] = copied
      BY <1>0, <3>1, AppendType DEF DataOK
    <3>3. ASSUME NEW i \in 1 .. Len(delivered'), NEW k \in 1 .. FrameSize
          PROVE  KnownAt(delivered'[i][k], frame, sent)
      BY <2>3, <2>5, <3>2, SMTT(20) DEF OrderInv, DataOK
    <3>4. ASSUME NEW i \in 1 .. Len(delivered'), NEW j \in 1 .. Len(delivered'), i < j,
                 NEW k \in 1 .. FrameSize, NEW m \in 1 .. FrameSize
          PROVE  Precedes(delivered'[i][k], delivered'[j][m])
      <4>1. Len(delivered) \in Nat
        BY <1>0 DEF DataOK
      <4>2. i \in 1 .. Len(delivered) /\ delivered'[i] = delivered[i]
        BY <3>2, <3>4, <4>1
      <4>3. CASE j \in 1 .. Len(delivered)
        BY <3>2, <3>4, <4>2, <4>3 DEF OrderInv
      <4>4. CASE j = Len(delivered) + 1
        <5>1. delivered'[j][m] = readBuffer[m]
          BY <2>3, <2>5, <3>2, <4>4
        <5> QED BY <2>1, <4>2, <5>1 DEF OrderInv
      <4> QED BY <3>2, <4>1, <4>3, <4>4
    <3>5. pc' = "idle" /\ Len(output') = 0 /\ Len(fifo') = 0
      BY <2>1, <2>2, <2>5, <3>1
    <3>6. \A m \in 1 .. FrameSize : KnownAt(readBuffer'[m], frame', sent')
      BY <2>1 DEF OrderInv, KnownAt
    <3>7. \A i \in 1 .. Len(delivered') : \A k \in 1 .. FrameSize : KnownAt(delivered'[i][k], frame', sent')
      BY <2>1, <3>3 DEF KnownAt
    <3> QED BY <3>1, <3>4, <3>5, <3>6, <3>7 DEF OrderInv
  <2> QED BY <2>4, <2>5
<1>5. CASE Address
  <2>1. UNCHANGED <<fifo, readBuffer, pc, output, delivered>> /\ frame' = frame + 1
    BY <1>5 DEF Address, Event
  <2>2. ASSUME NEW b \in Bytes, KnownAt(b, frame, sent) PROVE KnownAt(b, frame', sent')
    BY <1>0, <2>1, <2>2, KnownAfter DEF ControlOK
  <2> QED BY <1>0, <2>1, <2>2, BytesTypes DEF OrderInv
<1>6. CASE SendByte
  <2>1. UNCHANGED <<readBuffer, pc, output, delivered, frame>>
    BY <1>6 DEF SendByte, Event
  <2>2. CASE noAck
    <3>1. UNCHANGED <<sent, fifo>>
      BY <1>6, <2>2 DEF SendByte
    <3> QED BY <2>1, <3>1 DEF OrderInv, KnownAt
  <2>3. CASE ~noAck
    <3> DEFINE byte == <<frame, sent + 1>>
    <3>1. fifo' = Append(fifo, byte) /\ sent' = sent + 1
      BY <1>6, <2>3 DEF SendByte
    <3>2. byte \in Byte
      BY <1>0, <1>6 DEF ControlOK, SendByte, Byte
    <3>3. KnownAt(byte, frame', sent')
      BY <1>0, <2>1, <3>1 DEF KnownAt, ControlOK
    <3>4. ASSUME NEW b \in Bytes, KnownAt(b, frame, sent) PROVE KnownAt(b, frame', sent') /\ Precedes(b, byte)
      <4>1. KnownAt(b, frame', sent')
        BY <1>0, <2>1, <3>1, <3>4, KnownAfter DEF ControlOK
      <4> QED BY <1>0, <3>4, <4>1, NewestByte
    <3> HIDE DEF byte
    <3>5. /\ Len(fifo') = Len(fifo) + 1 /\ Len(fifo) \in Nat
          /\ \A m \in 1 .. Len(fifo) : fifo'[m] = fifo[m]
          /\ fifo'[Len(fifo) + 1] = byte
      BY <1>0, <3>1, <3>2, AppendType DEF DataOK
    <3>6. ASSUME NEW m \in 1 .. Len(fifo')
          PROVE  (m \in 1 .. Len(fifo) /\ fifo'[m] = fifo[m]) \/ fifo'[m] = byte
      BY <3>5
    <3>7. ASSUME NEW m \in 1 .. Len(fifo') PROVE KnownAt(fifo'[m], frame', sent')
      <4>1. CASE m \in 1 .. Len(fifo) /\ fifo'[m] = fifo[m]
        <5>1. KnownAt(fifo[m], frame, sent) /\ fifo[m] \in Bytes
          BY <1>0, <4>1, BytesTypes DEF OrderInv
        <5> QED BY <3>4, <4>1, <5>1
      <4>2. CASE fifo'[m] = byte
        BY <3>3, <4>2
      <4> QED BY <3>6, <4>1, <4>2
    <3>8. \A m \in 1 .. FrameSize : KnownAt(readBuffer'[m], frame', sent')
      BY <1>0, <2>1, <3>4, BytesTypes DEF OrderInv
    <3>9. ASSUME NEW i \in 1 .. Len(delivered), NEW k \in 1 .. FrameSize
          PROVE  /\ KnownAt(delivered[i][k], frame', sent')
                 /\ \A m \in 1 .. Len(fifo') : Precedes(delivered[i][k], fifo'[m])
      <4>1. KnownAt(delivered[i][k], frame, sent) /\ delivered[i][k] \in Bytes
        BY <1>0, BytesTypes DEF OrderInv
      <4>2. KnownAt(delivered[i][k], frame', sent') /\ Precedes(delivered[i][k], byte)
        BY <3>4, <4>1
      <4>3. \A m \in 1 .. Len(fifo) : Precedes(delivered[i][k], fifo[m])
        BY DEF OrderInv
      <4> QED BY <3>6, <4>2, <4>3
    <3> QED BY <2>1, <3>7, <3>8, <3>9 DEF OrderInv
  <2> QED BY <2>2, <2>3
<1>7. CASE /\ UNCHANGED <<frame, sent, fifo, readBuffer, output, delivered>>
           /\ (pc # "copy" /\ pc # "idle") \/ pc' = pc
  BY <1>7 DEF OrderInv, KnownAt
<1>8. AddrAsSlave \/ Begin \/ Start \/ While \/ Look \/ SlaveRecv \/ Arm \/ Clear \/ Disable \/ Stop
         \/ Finish \/ Abort \/ UNCHANGED vars
        => /\ UNCHANGED <<frame, sent, fifo, readBuffer, output, delivered>>
           /\ (pc # "copy" /\ pc # "idle") \/ pc' = pc
  BY DEF AddrAsSlave, Begin, Start, While, Look, SlaveRecv, Arm, Clear, Disable, Stop,
         Finish, Abort, Event, vars
<1> QED BY <1>1, <1>2, <1>3, <1>4, <1>5, <1>6, <1>7, <1>8
        DEF Next, TaskStep, Interrupt, MasterStep

\* What the invariants above say together.
SlaveInv == FifoInv /\ QuietInv /\ OrderInv

LEMMA Slave == Spec => []SlaveInv
<1>1. Init => SlaveInv
  <2> SUFFICES ASSUME Init PROVE SlaveInv
    OBVIOUS
  <2>1. FifoInv
    BY InitType DEF FifoInv
  <2>2. QuietInv
    BY DEF Init, QuietInv, Loop, Passing
  <2>3. OrderInv
    <3>1. fifo = <<>> /\ output = <<>> /\ delivered = <<>> /\ readBuffer = Cleared
      BY DEF Init
    <3> QED BY <3>1 DEF OrderInv, KnownAt, Cleared
  <2> QED BY <2>1, <2>2, <2>3 DEF SlaveInv
<1>2. SlaveInv /\ [Next]_vars => SlaveInv'
  BY StepControl, StepData, StepDepth, StepQuiet, StepOrder DEF SlaveInv, FifoInv, TypeOK
<1> QED BY <1>1, <1>2, PTL DEF Spec

\* However many transfers time out, and wherever in a byte, in the FIFO or in
\* the loop of the task they do: no byte is passed on in two arrays, and a later
\* array holds later bytes.
THEOREM NothingTwice == Spec => []NoReplay
<1>1. SlaveInv => NoReplay
  <2> SUFFICES ASSUME SlaveInv,
                      NEW i \in 1 .. Len(delivered), NEW j \in 1 .. Len(delivered),
                      NEW k \in 1 .. FrameSize, NEW m \in 1 .. FrameSize,
                      i < j, Empty \notin {delivered[i][k], delivered[j][m]}
               PROVE  \/ delivered[i][k][1] < delivered[j][m][1]
                      \/ /\ delivered[i][k][1] = delivered[j][m][1]
                         /\ delivered[i][k][2] < delivered[j][m][2]
    BY DEF NoReplay
  <2>1. Precedes(delivered[i][k], delivered[j][m])
    BY DEF SlaveInv, OrderInv
  <2> QED BY <2>1 DEF Precedes
<1> QED BY <1>1, Slave, PTL

-----------------------------------------------------------------------------
(* Whole transfers. *)

\* m transfers are over, and the next one has not begun.
Silent(m) == frame = m /\ ~busy /\ ~addressed /\ fifo = <<>> /\ "NAAS" \notin enabled

\* Transfer m has begun, and the device holds its first byte.
Held(m) ==
    /\ frame = m /\ busy /\ addressed
    /\ sent \in {0, 1} /\ Len(fifo) = sent
    /\ sent = 1 => fifo[1] = <<m, 1>>

Unarmed == "RX" \notin enabled /\ recvCount = 0 /\ rfd = 0

Passed == Len(delivered)

\* Not in SlaveReadData()'s loop: the array before is passed on.
Away ==
    /\ Unarmed
    /\ \/ Silent(Passed) /\ slaveRead = 0
       \/ Held(Passed + 1)

\* In the loop, before XIic_SlaveRecv().
Listening ==
    /\ Unarmed
    /\ receiveComplete = 1
    /\ \/ /\ Silent(Passed) /\ slaveRead = 0 /\ enabled = {"AAS"}
          /\ pc \in {"while", "look"}
       \/ /\ Held(Passed + 1)
          /\ enabled = {"AAS"} \/ (enabled = {"NAAS"} /\ slaveRead = 1)
          /\ pc \in {"while", "look"} \/ (pc \in {"recv", "arm"} /\ enabled = {"NAAS"})

Arrived == FrameSize - recvCount

\* SlaveRead is cleared on the way back to the loop.
Returning ==
    \/ pc = "clear" /\ slaveRead = 1
    \/ pc \in {"while", "look"} /\ slaveRead = 0

\* After it: the bytes of the transfer are in ReadBuffer and in the FIFO.
Receiving ==
    /\ enabled = {"NAAS", "RX"}
    /\ receiveComplete = 1
    /\ frame = Passed + 1
    /\ rfd = Depth(recvCount)
    /\ sent = Arrived + Len(fifo)
    /\ \A k \in 1 .. Arrived : readBuffer[k] = <<frame, k>>
    /\ \A k \in 1 .. Len(fifo) : fifo[k] = <<frame, Arrived + k>>
    /\ addressed <=> busy
    /\ busy \/ recvCount = 0
    /\ Returning

\* The transfer is over, and the loop about to end.
Received ==
    /\ Unarmed
    /\ receiveComplete = 0
    /\ Silent(Passed + 1)
    /\ readBuffer = Whole(Passed + 1)
    /\ Returning

\* From the loop to the end of the copy; the next transfer may have begun.
PassedOn ==
    /\ Unarmed
    /\ readBuffer = Whole(Passed + 1)
    /\ \/ Silent(Passed + 1) /\ slaveRead = 0
       \/ Held(Passed + 2) /\ sent = 0

StageInv ==
    /\ ~noAck
    /\ pc = "start" => receiveComplete = 1
    /\ pc \in {"idle", "begin", "start"} => Away
    /\ pc \in Loop => Listening \/ Receiving \/ Received
    /\ pc \in Passing => PassedOn

LEMMA AddressedStage == FifoInv /\ StageInv /\ AddrAsSlave => StageInv'
<1> SUFFICES ASSUME FifoInv, StageInv, AddrAsSlave PROVE StageInv'
  OBVIOUS
<1>1. addressed /\ "AAS" \in enabled
  <2>1. "AAS" \in Pending
    BY DEF AddrAsSlave
  <2> QED BY <2>1 DEF Pending
<1>2. /\ enabled' = (enabled \ {"AAS"}) \cup {"NAAS"} /\ slaveRead' = 1
      /\ UNCHANGED <<busy, frame, sent, addressed, fifo, rfd, noAck, recvCount, receiveComplete,
                     readBuffer, pc, delivered>>
  BY DEF AddrAsSlave, masterVars, taskVars
<1> QED BY <1>1, <1>2 DEF StageInv, Away, Listening, Receiving, Received, PassedOn, Silent, Held, Unarmed, Passed,
              Loop, Passing

\* Nothing is read twice: the handler empties the FIFO behind what it has read.
LEMMA ReadStage == FifoInv /\ StageInv /\ RecvSlaveData => StageInv'
<1> USE SizeAssumption
<1> SUFFICES ASSUME FifoInv, StageInv, RecvSlaveData PROVE StageInv'
  OBVIOUS
<1>0. TypeOK /\ recvCount \in 0 .. FrameSize /\ sent \in 0 .. FrameSize /\ Len(fifo) \in Nat /\ rfd \in Nat
  BY DEF FifoInv, TypeOK, ControlOK, DataOK
<1>1. "RX" \in enabled /\ Len(fifo) > rfd
  BY DEF RecvSlaveData, Pending, Throttled
<1>2. pc \in Loop /\ Receiving
  BY <1>0, <1>1 DEF StageInv, Away, Listening, Received, PassedOn, Unarmed, TypeOK, ControlOK
<1>3. recvCount > 0 /\ Len(fifo) <= recvCount
  <2>1. sent = FrameSize - recvCount + Len(fifo)
    BY <1>2 DEF Receiving, Arrived
  <2>2. Len(fifo) > 0
    BY <1>0, <1>1
  <2> QED BY <1>0, <2>1, <2>2
<1>4. /\ fifo' = <<>> /\ readBuffer' = Stored(Len(fifo))
      /\ recvCount' = recvCount - Len(fifo) /\ rfd' = Depth(recvCount') /\ noAck' = noAck
      /\ UNCHANGED <<busy, frame, sent, addressed, enabled, slaveRead, receiveComplete, pc, delivered>>
  BY <1>0, <1>3 DEF RecvSlaveData, masterVars, taskVars
<1>5. Arrived \in Nat /\ Arrived' = Arrived + Len(fifo) /\ Arrived' <= FrameSize
  BY <1>0, <1>3, <1>4 DEF Arrived
<1>6. ASSUME NEW k \in 1 .. Arrived' PROVE readBuffer'[k] = <<frame, k>>
  <2>0. k \in 1 .. FrameSize
    BY <1>5, <1>0
  <2>1. CASE k \in 1 .. Arrived
    <3>1. k \notin Arrived + 1 .. Arrived + Len(fifo)
      BY <1>0, <1>5, <2>1
    <3>2. readBuffer'[k] = readBuffer[k]
      BY <1>4, <2>0, <3>1 DEF Stored, Arrived
    <3> QED BY <1>2, <2>1, <3>2 DEF Receiving
  <2>2. CASE k \in Arrived + 1 .. Arrived + Len(fifo)
    <3>1. readBuffer'[k] = fifo[k - Arrived]
      BY <1>4, <2>0, <2>2 DEF Stored, Arrived
    <3>2. k - Arrived \in 1 .. Len(fifo) /\ Arrived + (k - Arrived) = k
      BY <1>0, <1>5, <2>2
    <3> QED BY <1>2, <3>1, <3>2 DEF Receiving
  <2> QED BY <1>0, <1>5, <2>1, <2>2
<1>7. Len(fifo') = 0 /\ \A k \in 1 .. Len(fifo') : FALSE
  BY <1>4
<1>8. Receiving'
  <2>1. sent' = Arrived' + Len(fifo')
    BY <1>0, <1>2, <1>4, <1>5, <1>7 DEF Receiving
  <2>2. busy' \/ recvCount' = 0
    BY <1>0, <1>2, <1>3, <1>4 DEF Receiving
  <2>3. Returning' /\ Passed' = Passed
    BY <1>2, <1>4 DEF Receiving, Returning, Passed
  <2> QED BY <1>2, <1>4, <1>6, <1>7, <2>1, <2>2, <2>3 DEF Receiving
<1>9. pc \notin {"idle", "begin", "start"} /\ pc \notin Passing /\ ~noAck
  BY <1>2 DEF Loop, Passing, StageInv
<1> QED BY <1>4, <1>8, <1>9 DEF StageInv

\* "Not addressed" comes when all bytes are in ReadBuffer.
LEMMA EndedStage == FifoInv /\ StageInv /\ NotAddrAsSlave => StageInv'
<1> USE SizeAssumption
<1> SUFFICES ASSUME FifoInv, StageInv, NotAddrAsSlave PROVE StageInv'
  OBVIOUS
<1>0. TypeOK /\ recvCount \in 0 .. FrameSize /\ sent \in 0 .. FrameSize /\ Len(fifo) \in Nat
  BY DEF FifoInv, TypeOK, ControlOK, DataOK
<1>1. "NAAS" \in enabled /\ ~addressed
  BY DEF NotAddrAsSlave, Pending
<1>2. pc \in Loop /\ Receiving
  BY <1>0, <1>1 DEF StageInv, Away, Listening, Received, PassedOn, Silent, Held, TypeOK, ControlOK
<1>3. ~busy /\ recvCount = 0 /\ armed
  BY <1>1, <1>2 DEF Receiving, FifoInv, DepthInv
<1>4. Arrived = FrameSize /\ sent = FrameSize
  BY <1>0, <1>2, <1>3 DEF Receiving, Arrived
<1>5. /\ fifo' = <<>> /\ rfd' = 0 /\ noAck' = FALSE
      /\ receiveComplete' = 0 /\ recvCount' = 0
      /\ UNCHANGED <<busy, frame, sent, addressed, slaveRead, readBuffer, pc, delivered>>
  BY <1>0, <1>3 DEF NotAddrAsSlave, masterVars, taskVars
<1>6. enabled' = {"AAS"}
  <2>1. enabled' = (enabled \ {"NAAS", "RX"}) \cup {"AAS"}
    BY <1>3 DEF NotAddrAsSlave
  <2>2. enabled = {"NAAS", "RX"}
    BY <1>2 DEF Receiving
  <2> QED BY <2>1, <2>2
<1>7. readBuffer' = Whole(Passed + 1)
  <2>1. \A k \in 1 .. FrameSize : readBuffer[k] = <<Passed + 1, k>>
    BY <1>2, <1>4 DEF Receiving
  <2>2. readBuffer \in [1 .. FrameSize -> Bytes]
    BY <1>0 DEF TypeOK, DataOK, Array
  <2> QED BY <1>5, <2>1, <2>2 DEF Whole
<1>8. Received'
  <2>1. frame = Passed + 1 /\ Returning /\ Passed' = Passed
    BY <1>2, <1>5 DEF Receiving, Passed
  <2>2. Returning'
    BY <1>5, <2>1 DEF Returning
  <2> QED BY <1>1, <1>3, <1>5, <1>6, <1>7, <2>1, <2>2 DEF Received, Silent, Unarmed
<1>9. pc \notin {"idle", "begin", "start"} /\ pc \notin Passing
  BY <1>2 DEF Loop, Passing
<1> QED BY <1>5, <1>8, <1>9 DEF StageInv

\* The task on its way into the loop.
LEMMA EnterStage == FifoInv /\ StageInv /\ (VerifyClear \/ Begin \/ Start) => StageInv'
<1> USE DEF StageInv, Away, Listening, Silent, Held, Unarmed, Passed, Loop, Passing,
            masterVars, deviceVars, sharedVars
<1> SUFFICES ASSUME FifoInv, StageInv, VerifyClear \/ Begin \/ Start PROVE StageInv'
  OBVIOUS
<1>1. CASE VerifyClear
  BY <1>1 DEF VerifyClear
<1>2. CASE Begin
  BY <1>2 DEF Begin
<1>3. CASE Start
  BY <1>3 DEF Start
<1> QED BY <1>1, <1>2, <1>3

\* The task in the loop: it finds SlaveRead set only after "addressed".
LEMMA LoopStage ==
    FifoInv /\ QuietInv /\ StageInv /\ ~Irq /\ (While \/ Look \/ SlaveRecv \/ Clear) => StageInv'
<1> USE DEF StageInv, Listening, Receiving, Received, PassedOn, Returning, Arrived,
            Silent, Held, Unarmed, Passed, Loop, Passing, masterVars, deviceVars, sharedVars
<1> SUFFICES ASSUME FifoInv, QuietInv, StageInv, ~Irq, While \/ Look \/ SlaveRecv \/ Clear
             PROVE  StageInv'
  OBVIOUS
<1>0. /\ slaveRead \in {0, 1} /\ pc \in Loop => global
      /\ global /\ "AAS" \in enabled => ~addressed
  BY IrqMeans DEF FifoInv, TypeOK, ControlOK, QuietInv
<1>1. CASE While
  BY <1>1 DEF While
<1>2. CASE Look
  <2>1. slaveRead = 1 => Held(Passed + 1) /\ Listening /\ enabled = {"NAAS"}
    BY <1>0, <1>2 DEF Look
  <2> QED BY <1>0, <1>2, <2>1 DEF Look
<1>3. CASE SlaveRecv
  BY <1>3 DEF SlaveRecv
<1>4. CASE Clear
  BY <1>4 DEF Clear
<1> QED BY <1>1, <1>2, <1>3, <1>4

\* XIic_SlaveRecv() finds at most one byte in the FIFO, the first.
LEMMA ArmStage == FifoInv /\ StageInv /\ Arm => StageInv'
<1> USE SizeAssumption
<1> SUFFICES ASSUME FifoInv, StageInv, Arm PROVE StageInv'
  OBVIOUS
<1>1. Listening /\ Held(Passed + 1) /\ enabled = {"NAAS"} /\ slaveRead = 1
  BY DEF StageInv, Arm, Loop, Listening, Receiving, Received, Returning
<1>2. /\ recvCount' = FrameSize /\ rfd' = Depth(FrameSize) /\ pc' = "clear"
      /\ enabled' = {"NAAS", "RX"}
      /\ UNCHANGED <<busy, frame, sent, addressed, fifo, noAck, slaveRead, receiveComplete, delivered>>
  BY <1>1 DEF Arm, masterVars
<1>3. Arrived' = 0
  BY <1>2 DEF Arrived
<1>4. ASSUME NEW k \in 1 .. Len(fifo) PROVE fifo[k] = <<frame, 0 + k>>
  <2>1. sent = 1 /\ k = 1
    BY <1>1 DEF Held
  <2> QED BY <1>1, <2>1 DEF Held
<1>5. Receiving'
  <2>1. sent' = Arrived' + Len(fifo')
    BY <1>1, <1>2, <1>3 DEF Held
  <2>2. \A k \in 1 .. Arrived' : FALSE
    BY <1>3
  <2> QED BY <1>1, <1>2, <1>3, <1>4, <2>1, <2>2 DEF Receiving, Listening, Held, Returning, Passed
<1> QED BY <1>2, <1>5 DEF StageInv, Loop, Passing

\* The task on its way back, with the array in ReadBuffer.
LEMMA LeaveStage == FifoInv /\ StageInv /\ (Disable \/ Stop) => StageInv'
  BY DEF Disable, Stop, StageInv, PassedOn, Silent, Held, Unarmed, Passed, Loop, Passing,
         masterVars, deviceVars, sharedVars

LEMMA CopyStage == FifoInv /\ StageInv /\ Copy => StageInv'
<1> SUFFICES ASSUME FifoInv, StageInv, Copy PROVE StageInv'
  OBVIOUS
<1>1. /\ pc = "copy" /\ PassedOn /\ ~noAck
      /\ UNCHANGED <<busy, frame, sent, addressed, fifo, rfd, noAck, enabled, recvCount,
                     slaveRead, receiveComplete, readBuffer>>
  BY DEF Copy, StageInv, Passing, masterVars, deviceVars, sharedVars
<1>2. PICK copied \in Seq(Bytes) :
              /\ Len(copied) = FrameSize =>
                    copied \in Array /\ delivered' = Append(delivered, copied) /\ pc' = "idle"
              /\ Len(copied) # FrameSize => UNCHANGED <<delivered, pc>>
  BY CopyMeans DEF FifoInv
<1>3. CASE Len(copied) = FrameSize
  <2>1. Passed' = Passed + 1 /\ Passed \in Nat
    BY <1>2, <1>3, AppendType DEF Passed, FifoInv, TypeOK, DataOK
  <2>2. Away'
    BY <1>1, <2>1 DEF Away, PassedOn, Unarmed, Silent, Held
  <2> QED BY <1>1, <1>2, <1>3, <2>2 DEF StageInv, Loop, Passing
<1>4. CASE Len(copied) # FrameSize
  BY <1>1, <1>2, <1>4 DEF StageInv, PassedOn, Unarmed, Silent, Held, Passed, Loop, Passing
<1> QED BY <1>3, <1>4

\* The master begins a transfer only after the device saw the last one end.
LEMMA AddressStage == FifoInv /\ QuietInv /\ StageInv /\ Address => StageInv'
<1> SUFFICES ASSUME FifoInv, QuietInv, StageInv, Address PROVE StageInv'
  OBVIOUS
<1>1. ~busy /\ ~Irq /\ (moved => pc = "idle") /\ ~noAck
  BY DEF Address, Event, SlowBus, StageInv
<1>2. /\ busy' /\ addressed' /\ frame' = frame + 1 /\ sent' = 0
      /\ UNCHANGED <<fifo, rfd, noAck, enabled, recvCount, slaveRead, receiveComplete, readBuffer,
                     pc, delivered>>
  BY <1>1 DEF Address, Event, sharedVars
<1>3. Len(<<>>) = 0 /\ frame \in Nat /\ Passed' = Passed /\ Passed \in Nat
  BY <1>2 DEF FifoInv, TypeOK, ControlOK, DataOK, Passed
<1>4. ~(pc \in Loop /\ Receiving)
  <2> SUFFICES ASSUME pc \in Loop, Receiving PROVE FALSE
    OBVIOUS
  <2>1. global /\ "NAAS" \in enabled /\ ~addressed
    BY <1>1 DEF Receiving, QuietInv
  <2> QED BY <1>1, <2>1, IrqMeans DEF FifoInv
<1>5. ~(pc \in Loop /\ Received)
  BY <1>1 DEF Received, QuietInv, Loop
<1>6. ASSUME NEW m, Silent(m), m \in Nat PROVE Held(m + 1)'
  BY <1>2, <1>3, <1>6 DEF Silent, Held
<1>7. CASE pc \in {"idle", "begin", "start"}
  <2>1. Unarmed /\ Silent(Passed)
    BY <1>1, <1>7 DEF StageInv, Away, Held
  <2>2. Away'
    BY <1>2, <1>3, <1>6, <2>1 DEF Away, Unarmed
  <2> QED BY <1>1, <1>2, <1>7, <2>2 DEF StageInv, Loop, Passing
<1>8. CASE pc \in Loop
  <2>1. Listening /\ Silent(Passed)
    BY <1>1, <1>4, <1>5, <1>8 DEF StageInv, Listening, Held
  <2>2. enabled = {"AAS"} /\ pc \in {"while", "look"}
    BY <1>1, <2>1 DEF Listening, Held
  <2>3. Listening'
    BY <1>2, <1>3, <1>6, <2>1, <2>2 DEF Listening, Unarmed
  <2> QED BY <1>1, <1>2, <1>8, <2>3 DEF StageInv, Loop, Passing
<1>9. CASE pc \in Passing
  <2>1. Unarmed /\ Silent(Passed + 1) /\ readBuffer = Whole(Passed + 1)
    BY <1>1, <1>9 DEF StageInv, PassedOn, Held
  <2>2. Held(Passed + 2)'
    BY <1>2, <1>3, <2>1 DEF Silent, Held
  <2>3. PassedOn'
    BY <1>2, <1>3, <2>1, <2>2 DEF PassedOn, Unarmed
  <2> QED BY <1>1, <1>2, <1>9, <2>3 DEF StageInv, Loop, Passing
<1> QED BY <1>7, <1>8, <1>9 DEF FifoInv, TypeOK, ControlOK

LEMMA SendStage == FifoInv /\ QuietInv /\ StageInv /\ SendByte => StageInv'
<1> SUFFICES ASSUME FifoInv, QuietInv, StageInv, SendByte PROVE StageInv'
  OBVIOUS
<1> DEFINE byte == <<frame, sent + 1>>
<1>1. busy /\ (moved => pc = "idle") /\ ~noAck /\ Len(fifo) <= rfd
  <2>1. Len(fifo) \in Nat /\ rfd \in Nat
    BY DEF FifoInv, TypeOK, ControlOK, DataOK
  <2> QED BY <2>1 DEF SendByte, Event, SlowBus, StageInv, Throttled
<1>2. /\ fifo' = Append(fifo, byte) /\ sent' = sent + 1
      /\ UNCHANGED <<busy, addressed, frame, rfd, noAck, enabled, recvCount, slaveRead,
                     receiveComplete, readBuffer, pc, delivered>>
  BY <1>1 DEF SendByte, Event, sharedVars
<1>3. fifo \in Seq(Byte) /\ byte \in Byte /\ frame \in Nat /\ sent \in Nat /\ recvCount \in 0 .. FrameSize
  BY DEF FifoInv, TypeOK, ControlOK, DataOK, SendByte, Byte
<1>4. /\ Len(fifo') = Len(fifo) + 1 /\ Len(fifo) \in Nat
      /\ \A k \in 1 .. Len(fifo) : fifo'[k] = fifo[k]
      /\ fifo'[Len(fifo) + 1] = byte
  <2> HIDE DEF byte
  <2> QED BY <1>2, <1>3, AppendType
<1>5. pc \notin Passing /\ ~Received /\ ~Silent(Passed)
  BY <1>1 DEF QuietInv, Received, Silent, Passing
<1>6. ASSUME NEW m, Held(m), rfd = 0 PROVE Held(m)'
  <2>1. Len(fifo) = 0 /\ sent = 0 /\ frame = m
    BY <1>1, <1>4, <1>6 DEF Held
  <2>2. fifo'[1] = <<m, 1>>
    BY <1>4, <2>1
  <2> QED BY <1>2, <1>4, <1>6, <2>1, <2>2 DEF Held
<1>7. CASE pc \in {"idle", "begin", "start"}
  <2>1. Unarmed /\ Held(Passed + 1)
    BY <1>5, <1>7 DEF StageInv, Away
  <2>2. Away'
    BY <1>2, <1>6, <2>1 DEF Away, Unarmed, Passed
  <2> QED BY <1>1, <1>2, <1>7, <2>2 DEF StageInv, Loop, Passing
<1>8. CASE pc \in Loop /\ Listening
  <2>1. Held(Passed + 1) /\ Unarmed
    BY <1>5, <1>8 DEF Listening
  <2>2. Listening'
    BY <1>2, <1>5, <1>6, <1>8, <2>1 DEF Listening, Unarmed, Passed
  <2> QED BY <1>1, <1>2, <1>8, <2>2 DEF StageInv, Loop, Passing
<1>9. CASE pc \in Loop /\ Receiving
  <2>1. Arrived' = Arrived /\ Arrived \in Nat /\ Passed' = Passed
    BY <1>2, <1>3, SizeAssumption DEF Arrived, Passed
  <2>2. sent' = Arrived' + Len(fifo')
    BY <1>2, <1>3, <1>4, <1>9, <2>1 DEF Receiving
  <2>3. ASSUME NEW k \in 1 .. Len(fifo') PROVE fifo'[k] = <<frame, Arrived + k>>
    <3>1. CASE k \in 1 .. Len(fifo)
      BY <1>4, <1>9, <3>1 DEF Receiving
    <3>2. CASE k = Len(fifo) + 1
      <4>1. sent + 1 = Arrived + k
        BY <1>3, <1>4, <1>9, <2>1, <3>2 DEF Receiving
      <4> QED BY <1>4, <3>2, <4>1
    <3> QED BY <1>4, <3>1, <3>2
  <2>4. Receiving'
    BY <1>2, <1>9, <2>1, <2>2, <2>3 DEF Receiving, Returning
  <2> QED BY <1>1, <1>2, <1>9, <2>4 DEF StageInv, Loop, Passing
<1> QED BY <1>5, <1>7, <1>8, <1>9 DEF StageInv, FifoInv, TypeOK, ControlOK

\* STOP comes after the last byte was read: until then the device holds SCL.
LEMMA FinishStage == FifoInv /\ QuietInv /\ StageInv /\ Finish => StageInv'
<1> USE SizeAssumption
<1> SUFFICES ASSUME FifoInv, QuietInv, StageInv, Finish PROVE StageInv'
  OBVIOUS
<1>1. busy /\ ~noAck /\ Len(fifo) <= rfd /\ Len(fifo) \in Nat /\ recvCount \in 0 .. FrameSize
  <2>1. Len(fifo) \in Nat /\ rfd \in Nat /\ recvCount \in 0 .. FrameSize
    BY DEF FifoInv, TypeOK, ControlOK, DataOK
  <2> QED BY <2>1 DEF Finish, Event, SlowBus, StageInv, Throttled
<1>2. /\ sent = FrameSize /\ busy' = FALSE /\ addressed' = FALSE
      /\ UNCHANGED <<frame, sent, fifo, rfd, noAck, enabled, recvCount, slaveRead,
                     receiveComplete, readBuffer, pc, delivered>>
  BY DEF Finish, Event, sharedVars
<1>3. ASSUME NEW m, rfd = 0 PROVE ~Held(m)
  BY <1>1, <1>2, <1>3 DEF Held
<1>4. pc \in Loop /\ Receiving
  BY <1>1, <1>3 DEF StageInv, Away, Listening, Received, PassedOn, Unarmed, Silent, FifoInv, TypeOK, ControlOK
<1>5. recvCount = 0
  <2>1. Len(fifo) = recvCount
    BY <1>1, <1>2, <1>4 DEF Receiving, Arrived
  <2>2. recvCount > 0 => Depth(recvCount) + 1 <= recvCount /\ Depth(recvCount) \in Nat
    BY <1>1, DepthBounds
  <2> QED BY <1>1, <1>4, <2>1, <2>2 DEF Receiving
<1>6. Receiving'
  BY <1>2, <1>4, <1>5 DEF Receiving, Returning, Arrived, Passed
<1> QED BY <1>1, <1>2, <1>4, <1>6 DEF StageInv, Loop, Passing

\* Until a transfer times out.
WholeInv == aborted = {} => WholeFrames /\ StageInv

LEMMA StepWhole == SlaveInv /\ WholeInv /\ [Next]_vars => WholeInv'
<1> SUFFICES ASSUME SlaveInv, WholeInv, [Next]_vars, aborted' = {}
             PROVE  WholeFrames' /\ StageInv'
  BY DEF WholeInv
<1>1. ~Abort
  BY DEF Abort
<1>2. aborted = {}
  BY <1>1 DEF Next, TaskStep, VerifyClear, Begin, Start, While, Look, SlaveRecv, Arm, Clear,
              Disable, Stop, Copy, Interrupt, AddrAsSlave, RecvSlaveData, NotAddrAsSlave,
              Address, MasterStep, SendByte, Finish, masterVars, vars
<1>3. WholeFrames /\ StageInv /\ FifoInv /\ QuietInv
  BY <1>2 DEF WholeInv, SlaveInv
<1>4. StageInv'
  <2>1. UNCHANGED vars => StageInv'
    BY <1>3 DEF vars, masterVars, deviceVars, sharedVars, taskVars, StageInv, Away, Listening,
                Receiving, Received, PassedOn, Returning, Unarmed, Silent, Held, Passed, Arrived
  <2> QED BY <1>1, <1>3, <2>1, AddressedStage, ReadStage, EndedStage, EnterStage, LoopStage, ArmStage,
             LeaveStage, CopyStage, AddressStage, SendStage, FinishStage
          DEF Next, TaskStep, Interrupt, MasterStep
<1>5. WholeFrames'
  <2>1. CASE Copy
    <3>1. readBuffer = Whole(Passed + 1)
      BY <1>3, <2>1 DEF Copy, StageInv, Passing, PassedOn
    <3>2. PICK copied \in Seq(Bytes) :
              /\ copied = Append(output, readBuffer[Len(output) + 1])
              /\ Len(copied) = Len(output) + 1
              /\ Len(copied) = FrameSize => copied \in Array /\ delivered' = Append(delivered, copied)
              /\ Len(copied) # FrameSize => UNCHANGED delivered
      BY <1>3, <2>1, CopyMeans DEF FifoInv
    <3>3. CASE Len(copied) = FrameSize
      <4>1. \A k \in 1 .. Len(copied) : copied[k] = readBuffer[k]
        BY <3>2, <1>3, CopiedBytes DEF SlaveInv, FifoInv
      <4>2. copied = Whole(Passed + 1)
        BY <3>1, <3>2, <3>3, <4>1 DEF Array, Whole
      <4>3. /\ Len(delivered') = Len(delivered) + 1 /\ Len(delivered) \in Nat
            /\ \A i \in 1 .. Len(delivered) : delivered'[i] = delivered[i]
            /\ delivered'[Len(delivered) + 1] = copied
        BY <1>3, <3>2, <3>3, AppendType DEF FifoInv, TypeOK, DataOK
      <4>4. ASSUME NEW i \in 1 .. Len(delivered') PROVE delivered'[i] = Whole(i)
        <5>1. CASE i \in 1 .. Len(delivered)
          BY <1>2, <1>3, <4>3, <5>1 DEF WholeFrames
        <5>2. CASE i = Len(delivered) + 1
          BY <4>2, <4>3, <5>2 DEF Passed
        <5> QED BY <4>3, <5>1, <5>2
      <4> QED BY <4>4 DEF WholeFrames
    <3>4. CASE Len(copied) # FrameSize
      BY <1>2, <1>3, <3>2, <3>4 DEF WholeFrames
    <3> QED BY <3>3, <3>4
  <2>2. CASE UNCHANGED delivered
    BY <1>2, <1>3, <2>2 DEF WholeFrames
  <2>3. Copy \/ UNCHANGED delivered
    BY <1>1 DEF Next, TaskStep, VerifyClear, Begin, Start, While, Look, SlaveRecv, Arm, Clear,
                Disable, Stop, Interrupt, AddrAsSlave, RecvSlaveData, NotAddrAsSlave,
                Address, MasterStep, SendByte, Finish, Event, taskVars, vars
  <2> QED BY <2>1, <2>2, <2>3
<1> QED BY <1>4, <1>5

\* As long as no transfer times out, what is passed on are the transfers of the
\* master: whole, each once and in order, for every length of a transfer, every
\* depth of the FIFO and every interleaving of bus, interrupts and task.
THEOREM TransfersArriveWhole == Spec => []WholeFrames
<1>1. Init => WholeInv
  BY DEF Init, WholeInv, WholeFrames, StageInv, Away, Silent, Unarmed, Passed, Loop, Passing
<1>2. SlaveInv /\ WholeInv /\ [Next]_vars => WholeInv'
  BY StepWhole
<1>3. WholeInv => WholeFrames
  BY DEF WholeInv, WholeFrames
<1> QED BY <1>1, <1>2, <1>3, Slave, PTL DEF Spec
=============================================================================
