--------------------------- MODULE PipelineProofs ---------------------------
(***************************************************************************)
(* The safety of the Zynq pipeline, for every queue length, heap size and  *)
(* number of IMUs.  IInv is inductive: each lemma named after an action    *)
(* shows that the action preserves it.  The theorems at the end draw the   *)
(* properties of Pipeline from it, and the refinement of FrameChannel.     *)
(***************************************************************************)
EXTENDS Pipeline, TLAPS, FiniteSetTheorems

USE QueueLengthAssumption, HeapBlocksAssumption, ImuCountAssumption
    DEF I2c, Setup, VectQuat, Filter, Slerp, Spi, Stages, Tasks,
        Full, Enqueued, ListenOrSleep, AfterCheck, AfterSend, Frees,
        SetupAllocates, VectQuatAllocates, FilterAllocates, SlerpAllocates

\* A task in one of these places holds no buffer.
Idle == {"start", "delay", "check", "receive"}

\* An action that moves tasks between idle places only preserves IInv.
LEMMA NeutralStep ==
    ASSUME IInv,
           queue' = queue, put' = put, heap' = heap, wire' = wire, dropped' = dropped,
           pc' \in [Tasks -> Labels],
           held' \in [Stages -> Nat],
           halted' \in BOOLEAN,
           \A t \in Tasks : pc'[t] = pc[t] \/ (pc[t] \in Idle /\ pc'[t] \in Idle),
           \A s \in Stages : held'[s] = held[s] \/ pc'[s] \in Idle,
           \A s \in Stages : pc'[s] = "receive" => queue[s] # <<>>,
           pc'[I2c] # "start",
           pc'[I2c] = "receive" => Len(queue[Setup]) < QueueLength,
           pc'[I2c] = "delay" => put[I2c] >= QueueLength
    PROVE  IInv'
<1>1. TypeOK'
  BY DEF IInv, TypeOK
<1>2. \A t \in Tasks : Taken(t)' = Taken(t) /\ Freed(t)' = Freed(t) /\ Made(t)' = Made(t)
  BY DEF Taken, Freed, Made, Idle
<1>3. ControlInv'
  <2>1. ControlInv BY DEF IInv
  <2>2. pc'[I2c] \in {"delay", "check", "receive", "send"}
    BY <2>1 DEF ControlInv, Idle
  <2>3. pc'[Filter] # "free" /\ pc'[Spi] # "send"
    BY <2>1 DEF ControlInv, Idle
  <2> QED BY <2>2, <2>3 DEF ControlInv, ReceiveNeverBlocks
<1>4. FlowInv'
  <2> SUFFICES ASSUME NEW s \in Stages
               PROVE  FlowAt(s)'
    BY DEF FlowInv
  <2>1. Taken(s)' = Taken(s)
    BY <1>2
  <2> QED BY <2>1 DEF IInv, FlowInv, FlowAt
<1>5. HeldInv'
  <2>1. HeldInv BY DEF IInv
  <2> QED BY <2>1 DEF HeldInv, Idle
<1>6. I2cInv'
  <2>1. I2cInv BY DEF IInv
  <2> QED BY <2>1, <1>2 DEF I2cInv, Idle
<1>7. WireInv'
  BY DEF IInv, WireInv
<1>8. HeapInv'
  <2>1. HeapInv BY DEF IInv
  <2> QED BY <2>1, <1>2 DEF HeapInv
<1> QED BY <1>1, <1>3, <1>4, <1>5, <1>6, <1>7, <1>8 DEF IInv

\* I2C_Task decides between listening and sleeping.
LEMMA I2cCheckStep == IInv /\ I2cCheck => IInv'
<1> SUFFICES ASSUME IInv, I2cCheck PROVE IInv'
  OBVIOUS
<1>1. pc \in [Tasks -> Labels] /\ held \in [Stages -> Nat] /\ halted \in BOOLEAN
  BY DEF IInv, TypeOK
<1>2. put[I2c] \in Nat /\ Taken(Setup) \in Nat /\ Len(queue[Setup]) \in Nat
  <2>1. put \in [Tasks -> Nat] /\ queue \in [Stages -> Seq(Nat)]
    BY DEF IInv, TypeOK
  <2>2. queue[Setup] \in Seq(Nat)
    BY <2>1
  <2> QED BY <2>1, <2>2 DEF Taken
<1>3. /\ Len(queue[Setup]) <= QueueLength
      /\ Taken(Setup) + Len(queue[Setup]) = put[I2c]
      /\ ReceiveNeverBlocks
  BY DEF IInv, FlowInv, FlowAt, ControlInv
<1>4. pc'[I2c] = IF Len(queue[Setup]) = QueueLength THEN "delay" ELSE "receive"
  BY <1>1 DEF I2cCheck
<1>5. /\ pc[I2c] = "check"
      /\ \A s \in Stages : pc'[s] = pc[s]
      /\ pc' \in [Tasks -> Labels]
  BY <1>1 DEF I2cCheck, Labels
<1>6. UNCHANGED <<queue, held, heap, put, dropped, wire, halted>>
  BY DEF I2cCheck
<1>7. \A t \in Tasks : pc'[t] = pc[t] \/ (pc[t] \in Idle /\ pc'[t] \in Idle)
  BY <1>4, <1>5 DEF Idle
<1> QED
  BY <1>1, <1>2, <1>3, <1>4, <1>5, <1>6, <1>7, NeutralStep, SMTT(20) DEF ReceiveNeverBlocks

\* The tick wakes a task.
LEMMA WakeStep == ASSUME IInv, NEW t \in Tasks, Wake(t) PROVE IInv'
<1>1. pc \in [Tasks -> Labels] /\ held \in [Stages -> Nat] /\ halted \in BOOLEAN
  BY DEF IInv, TypeOK
<1>2. ReceiveNeverBlocks /\ I2cInv /\ pc[I2c] # "start"
  BY DEF IInv, ControlInv
<1>3. /\ pc[t] = "delay" /\ pc'[t] = "check"
      /\ \A u \in Tasks \ {t} : pc'[u] = pc[u]
      /\ pc' \in [Tasks -> Labels]
  BY <1>1 DEF Wake, Labels
<1>4. UNCHANGED <<queue, held, heap, put, dropped, wire, halted>>
  BY DEF Wake
<1> QED
  BY <1>1, <1>2, <1>3, <1>4, NeutralStep DEF ReceiveNeverBlocks, I2cInv, Idle

\* A stage begins with a delay.
LEMMA StageStartStep == ASSUME IInv, NEW s \in Stages, StageStart(s) PROVE IInv'
<1>1. pc \in [Tasks -> Labels] /\ held \in [Stages -> Nat] /\ halted \in BOOLEAN
  BY DEF IInv, TypeOK
<1>2. ReceiveNeverBlocks /\ I2cInv /\ pc[I2c] # "start"
  BY DEF IInv, ControlInv
<1>3. /\ pc[s] = "start" /\ pc'[s] = "delay"
      /\ \A u \in Tasks \ {s} : pc'[u] = pc[u]
      /\ pc' \in [Tasks -> Labels]
  BY <1>1 DEF StageStart, Labels
<1>4. UNCHANGED <<queue, held, heap, put, dropped, wire, halted>>
  BY DEF StageStart
<1> QED
  BY <1>1, <1>2, <1>3, <1>4, NeutralStep DEF ReceiveNeverBlocks, I2cInv, Idle

\* A stage looks at its queue.
LEMMA StageCheckStep == ASSUME IInv, NEW s \in Stages, StageCheck(s) PROVE IInv'
<1>1. pc \in [Tasks -> Labels] /\ held \in [Stages -> Nat] /\ halted \in BOOLEAN
  BY DEF IInv, TypeOK
<1>2. ReceiveNeverBlocks /\ I2cInv /\ pc[I2c] # "start"
  BY DEF IInv, ControlInv
<1>3. /\ pc[s] = "check"
      /\ pc'[s] = (IF queue[s] = <<>> THEN "delay" ELSE "receive")
      /\ \A u \in Tasks \ {s} : pc'[u] = pc[u]
      /\ pc' \in [Tasks -> Labels]
  BY <1>1 DEF StageCheck, Labels
<1>4. UNCHANGED <<queue, heap, put, dropped, wire, halted>>
  BY DEF StageCheck
<1>5. held' \in [Stages -> Nat] /\ \A u \in Stages \ {s} : held'[u] = held[u]
  BY <1>1 DEF StageCheck
<1> QED
  BY <1>1, <1>2, <1>3, <1>4, <1>5, NeutralStep DEF ReceiveNeverBlocks, I2cInv, Idle

\* What a successful pvPortMalloc() does to the size of the heap.
LEMMA HeapGrows ==
    ASSUME NEW blocks, IsFiniteSet(blocks), IsFiniteSet(heap), HasRoom(blocks)
    PROVE  /\ IsFiniteSet(heap \cup blocks)
           /\ Cardinality(heap \cup blocks) <= HeapBlocks
<1>1. Cardinality(heap \cap blocks) \in Nat
  <2>1. IsFiniteSet(heap \cap blocks)
    BY FS_Subset
  <2> QED BY <2>1, FS_CardinalityType
<1>2. Cardinality(heap) \in Nat /\ Cardinality(blocks) \in Nat
  BY FS_CardinalityType
<1>3. /\ IsFiniteSet(heap \cup blocks)
      /\ Cardinality(heap \cup blocks)
            = Cardinality(heap) + Cardinality(blocks) - Cardinality(heap \cap blocks)
  BY FS_Union
<1> QED BY <1>1, <1>2, <1>3 DEF HasRoom

\* A frame has finitely many IMU_Data_Int structures.
LEMMA ImuBlocksFinite == ASSUME NEW f PROVE IsFiniteSet(ImuBlocks(f))
<1> DEFINE g == [i \in 1 .. ImuCount |-> <<"imu", f, i>>]
<1>1. g \in Surjection(1 .. ImuCount, ImuBlocks(f))
  BY DEF Surjection, ImuBlocks
<1>2. IsFiniteSet(1 .. ImuCount)
  BY FS_Interval
<1> HIDE DEF g
<1> QED BY <1>1, <1>2, FS_Surjection

\* Entering the hook changes nothing else.
LEMMA HaltStep ==
    ASSUME IInv, halted' = TRUE,
           UNCHANGED <<pc, queue, held, heap, put, dropped, wire>>
    PROVE  IInv'
<1>1. pc \in [Tasks -> Labels] /\ held \in [Stages -> Nat]
  BY DEF IInv, TypeOK
<1>2. ReceiveNeverBlocks /\ I2cInv /\ pc[I2c] # "start"
  BY DEF IInv, ControlInv
<1> QED
  BY <1>1, <1>2, NeutralStep DEF ReceiveNeverBlocks, I2cInv, Idle

\* A frame arrives and a buffer is allocated for it.
LEMMA I2cReceiveStep == IInv /\ I2cReceive => IInv'
<1> SUFFICES ASSUME IInv, I2cReceive PROVE IInv'
  OBVIOUS
<1>1. CASE ~HasRoom({Block("raw", Arriving)})
  BY <1>1, HaltStep DEF I2cReceive, Malloc
<1>2. CASE HasRoom({Block("raw", Arriving)})
  <2>1. /\ pc[I2c] = "receive"
        /\ heap' = heap \cup {Block("raw", Arriving)}
        /\ pc' = [pc EXCEPT ![I2c] = "send"]
        /\ UNCHANGED <<queue, held, put, dropped, wire, halted>>
    BY <1>2 DEF I2cReceive, Malloc
  <2>2. pc \in [Tasks -> Labels] /\ put \in [Tasks -> Nat]
    BY DEF IInv, TypeOK
  <2>3. /\ pc'[I2c] = "send"
        /\ \A s \in Stages : pc'[s] = pc[s]
        /\ pc' \in [Tasks -> Labels]
    BY <2>1, <2>2 DEF Labels
  <2>4. Arriving = put[I2c] + 1
    BY <2>2 DEF IInv, I2cInv, Arriving
  <2>5. \A s \in Stages : Taken(s)' = Taken(s) /\ Freed(s)' = Freed(s) /\ Made(s)' = Made(s)
    BY <2>1, <2>3 DEF Taken, Freed, Made
  <2>6. Made(I2c) = put[I2c] /\ Made(I2c)' = put[I2c] + 1
    BY <2>1, <2>2, <2>3 DEF Made
  <2>7. TypeOK'
    BY <2>1, <2>3 DEF IInv, TypeOK
  <2>8. ControlInv'
    BY <2>1, <2>3 DEF IInv, ControlInv, ReceiveNeverBlocks
  <2>9. FlowInv'
    <3> SUFFICES ASSUME NEW s \in Stages PROVE FlowAt(s)'
      BY DEF FlowInv
    <3>1. Taken(s)' = Taken(s)
      BY <2>5
    <3> QED BY <2>1, <3>1 DEF IInv, FlowInv, FlowAt
  <2>10. HeldInv'
    BY <2>1, <2>3 DEF IInv, HeldInv
  <2>11. I2cInv'
    <3>1. I2cInv BY DEF IInv
    <3> QED BY <3>1, <2>1, <2>3, <2>5 DEF I2cInv
  <2>12. WireInv'
    BY <2>1 DEF IInv, WireInv
  <2>13. HeapInv'
    <3>1. HeapInv BY DEF IInv
    <3>2. IsFiniteSet(heap') /\ Cardinality(heap') <= HeapBlocks
      BY <1>2, <2>1, <3>1, HeapGrows, FS_Singleton DEF HeapInv
    <3>3. Block("raw", put[I2c] + 1) \in heap' /\ heap \subseteq heap'
      BY <2>1, <2>4
    <3>4. ASSUME NEW f \in Freed(Setup) + 1 .. put[I2c] + 1
          PROVE  Block("raw", f) \in heap'
      BY <2>2, <2>6, <3>1, <3>3 DEF HeapInv
    <3> QED BY <2>5, <2>6, <3>1, <3>2, <3>3, <3>4 DEF HeapInv
  <2> QED BY <2>7, <2>8, <2>9, <2>10, <2>11, <2>12, <2>13 DEF IInv
<1> QED BY <1>1, <1>2

\* What Append does, as the flow of frames needs it.
LEMMA AppendFacts ==
    ASSUME NEW q \in Seq(Nat), NEW e \in Nat
    PROVE  /\ Append(q, e) \in Seq(Nat) /\ Append(q, e) # <<>>
           /\ Len(q) \in Nat /\ Len(Append(q, e)) = Len(q) + 1
           /\ \A k \in 1 .. Len(q) : Append(q, e)[k] = q[k]
           /\ Append(q, e)[Len(q) + 1] = e
  OBVIOUS

\* The frame enters Queue_1: the drop branch is dead.
LEMMA I2cSendStep == IInv /\ I2cSend => IInv'
<1> SUFFICES ASSUME IInv, I2cSend PROVE IInv'
  OBVIOUS
<1>pc. pc \in [Tasks -> Labels]
  BY DEF IInv, TypeOK
<1>put. put \in [Tasks -> Nat]
  BY DEF IInv, TypeOK
<1>queue. queue \in [Stages -> Seq(Nat)]
  BY DEF IInv, TypeOK
<1>2. Len(queue[Setup]) < QueueLength /\ dropped = 0 /\ FlowAt(Setup)
  BY DEF IInv, I2cInv, FlowInv, I2cSend
<1>3. Arriving = put[I2c] + 1 /\ Arriving \in Nat
  BY <1>put, <1>2 DEF Arriving
<1>4. queue[Setup] \in Seq(Nat) /\ Len(queue[Setup]) \in Nat
  BY <1>queue
<1>5. /\ pc[I2c] = "send"
      /\ pc' = [pc EXCEPT ![I2c] = "check"]
      /\ queue' = [queue EXCEPT ![Setup] = Append(@, put[I2c] + 1)]
      /\ put' = [put EXCEPT ![I2c] = @ + 1]
      /\ UNCHANGED <<held, heap, dropped, wire, halted>>
  BY <1>2, <1>3, <1>4 DEF I2cSend
<1>6. /\ pc'[I2c] = "check"
      /\ \A s \in Stages : pc'[s] = pc[s]
      /\ pc' \in [Tasks -> Labels]
  BY <1>pc, <1>5 DEF Labels
<1>7. /\ put'[I2c] = put[I2c] + 1
      /\ \A s \in Stages : put'[s] = put[s]
      /\ put' \in [Tasks -> Nat]
  BY <1>put, <1>5
<1>8. /\ queue'[Setup] = Append(queue[Setup], put[I2c] + 1)
      /\ \A s \in Stages \ {Setup} : queue'[s] = queue[s]
  BY <1>queue, <1>5
<1>9. Append(queue[Setup], put[I2c] + 1) \in Seq(Nat)
  BY <1>3, <1>4, AppendFacts
<1>10. queue' \in [Stages -> Seq(Nat)]
  BY <1>queue, <1>5, <1>9
<1>11. \A s \in Stages : Taken(s)' = Taken(s) /\ Freed(s)' = Freed(s) /\ Made(s)' = Made(s)
  BY <1>6, <1>7 DEF Taken, Freed, Made
<1>12. Made(I2c)' = Made(I2c)
  BY <1>put, <1>5, <1>6, <1>7 DEF Made
<1>13. TypeOK'
  BY <1>5, <1>6, <1>7, <1>10 DEF IInv, TypeOK
<1>14. ControlInv'
  <2>1. \A s \in Stages : queue[s] # <<>> => queue'[s] # <<>>
    BY <1>3, <1>4, <1>8, AppendFacts
  <2>2. ControlInv BY DEF IInv
  <2> QED BY <1>6, <2>1, <2>2 DEF ControlInv, ReceiveNeverBlocks
<1>15. FlowInv'
  <2> SUFFICES ASSUME NEW s \in Stages PROVE FlowAt(s)'
    BY DEF FlowInv
  <2>1. Taken(s)' = Taken(s) /\ FlowAt(s) /\ Taken(s) \in Nat
    BY <1>put, <1>11 DEF IInv, FlowInv, Taken
  <2>2. CASE s = Setup
    <3>1. /\ Len(queue'[Setup]) = Len(queue[Setup]) + 1
          /\ \A k \in 1 .. Len(queue[Setup]) : queue'[Setup][k] = queue[Setup][k]
          /\ queue'[Setup][Len(queue[Setup]) + 1] = put[I2c] + 1
      BY <1>3, <1>4, <1>8, AppendFacts
    <3>2. Taken(s) + Len(queue[Setup]) = put[I2c]
      BY <2>1, <2>2 DEF FlowAt
    <3>3. put[I2c] \in Nat /\ put'[s - 1] = put[I2c] + 1
      BY <1>put, <1>7, <2>2
    <3>4. Len(queue'[s]) <= QueueLength /\ Taken(s)' + Len(queue'[s]) = put'[s - 1]
      BY <1>2, <1>4, <2>1, <2>2, <3>1, <3>2, <3>3
    <3>5. ASSUME NEW k \in 1 .. Len(queue'[s]) PROVE queue'[s][k] = Taken(s)' + k
      <4>1. CASE k = Len(queue[Setup]) + 1
        BY <1>4, <2>1, <2>2, <3>1, <3>2, <3>3, <4>1
      <4>2. CASE k # Len(queue[Setup]) + 1
        <5>1. k \in 1 .. Len(queue[Setup])
          BY <1>4, <2>2, <3>1, <4>2
        <5>2. queue[Setup][k] = Taken(s) + k
          BY <2>1, <2>2, <5>1 DEF FlowAt
        <5> QED BY <2>1, <2>2, <3>1, <5>1, <5>2
      <4> QED BY <4>1, <4>2
    <3> QED BY <3>4, <3>5 DEF FlowAt
  <2>3. CASE s # Setup
    <3>1. queue'[s] = queue[s] /\ put'[s - 1] = put[s - 1]
      BY <1>7, <1>8, <2>3
    <3> QED BY <2>1, <3>1 DEF FlowAt
  <2> QED BY <2>2, <2>3
<1>16. HeldInv'
  BY <1>5, <1>6, <1>7 DEF IInv, HeldInv
<1>17. I2cInv'
  <2>1. I2cInv BY DEF IInv
  <2>2. put[I2c] \in Nat BY <1>put
  <2> QED BY <2>1, <2>2, <1>5, <1>6, <1>7, <1>11 DEF I2cInv
<1>18. WireInv'
  BY <1>5, <1>7 DEF IInv, WireInv
<1>19. HeapInv'
  <2>1. HeapInv BY DEF IInv
  <2> QED BY <1>5, <1>11, <1>12, <2>1 DEF HeapInv
<1> QED BY <1>13, <1>14, <1>15, <1>16, <1>17, <1>18, <1>19 DEF IInv

\* A stage takes the oldest pointer of its queue.
LEMMA StageReceiveStep == ASSUME IInv, NEW s \in Stages, StageReceive(s) PROVE IInv'
<1>pc. pc \in [Tasks -> Labels]
  BY DEF IInv, TypeOK
<1>put. put \in [Tasks -> Nat]
  BY DEF IInv, TypeOK
<1>queue. queue \in [Stages -> Seq(Nat)]
  BY DEF IInv, TypeOK
<1>held. held \in [Stages -> Nat]
  BY DEF IInv, TypeOK
<1>1. /\ pc[s] = "receive" /\ pc[I2c] = "delay"
      /\ UNCHANGED <<heap, put, dropped, wire, halted>>
  BY DEF StageReceive, Runs
<1>2. queue[s] # <<>> /\ pc[s] = "receive" /\ pc[I2c] = "delay"
      /\ UNCHANGED <<heap, put, dropped, wire, halted>>
  BY <1>1 DEF IInv, ControlInv, ReceiveNeverBlocks
<1>3. /\ pc'[s] = "process"
      /\ \A t \in Tasks \ {s} : pc'[t] = pc[t]
      /\ pc' \in [Tasks -> Labels]
  BY <1>pc DEF StageReceive, Labels
<1>4. queue[s] \in Seq(Nat)
  BY <1>queue
<1>5. /\ Head(queue[s]) \in Nat /\ Head(queue[s]) = queue[s][1]
      /\ Tail(queue[s]) \in Seq(Nat)
      /\ Len(queue[s]) \in Nat \ {0}
      /\ Len(Tail(queue[s])) = Len(queue[s]) - 1
      /\ \A k \in 1 .. Len(queue[s]) - 1 : Tail(queue[s])[k] = queue[s][k + 1]
  BY <1>2, <1>4
<1>6. /\ queue'[s] = Tail(queue[s])
      /\ \A u \in Stages \ {s} : queue'[u] = queue[u]
      /\ queue' \in [Stages -> Seq(Nat)]
  BY <1>queue, <1>2, <1>5 DEF StageReceive
<1>7. /\ held'[s] = Head(queue[s])
      /\ \A u \in Stages \ {s} : held'[u] = held[u]
      /\ held' \in [Stages -> Nat]
  BY <1>held, <1>2, <1>5 DEF StageReceive
<1>8. /\ Taken(s) = put[s] /\ Taken(s)' = put[s] + 1
      /\ \A u \in Tasks \ {s} : Taken(u)' = Taken(u)
  BY <1>put, <1>2, <1>3 DEF Taken
<1>9. \A t \in Tasks : Freed(t)' = Freed(t) /\ Made(t)' = Made(t)
  BY <1>2, <1>3 DEF Freed, Made
<1>10. FlowAt(s) /\ put[s] \in Nat /\ put[s - 1] \in Nat
  BY <1>put DEF IInv, FlowInv
<1>11. Head(queue[s]) = put[s] + 1
  BY <1>5, <1>8, <1>10 DEF FlowAt
<1>12. TypeOK'
  BY <1>2, <1>3, <1>6, <1>7 DEF IInv, TypeOK
<1>13. ControlInv'
  <2>1. ControlInv BY DEF IInv
  <2>2. ReceiveNeverBlocks'
    <3> SUFFICES ASSUME NEW u \in Stages, pc'[u] = "receive" PROVE queue'[u] # <<>>
      BY DEF ReceiveNeverBlocks
    <3>1. u # s
      BY <1>3
    <3>2. pc[u] = "receive" /\ queue'[u] = queue[u]
      BY <1>3, <1>6, <3>1
    <3> QED BY <2>1, <3>2 DEF ControlInv, ReceiveNeverBlocks
  <2>3. pc'[I2c] = pc[I2c] /\ pc'[Filter] # "free" /\ pc'[Spi] # "send"
    BY <1>3, <2>1 DEF ControlInv
  <2> QED BY <2>1, <2>2, <2>3 DEF ControlInv
<1>14. FlowInv'
  <2> SUFFICES ASSUME NEW u \in Stages PROVE FlowAt(u)'
    BY DEF FlowInv
  <2>1. CASE u = s
    <3>1. /\ Len(queue[s]) <= QueueLength
          /\ put[s] + Len(queue[s]) = put[s - 1]
          /\ \A k \in 1 .. Len(queue[s]) : queue[s][k] = put[s] + k
      <4>1. Taken(s) = put[s]
        BY <1>8
      <4>2. FlowAt(s)
        BY <1>10
      <4> QED BY <4>1, <4>2 DEF FlowAt
    <3>2. ASSUME NEW k \in 1 .. Len(queue[s]) - 1
          PROVE  Tail(queue[s])[k] = put[s] + 1 + k
      <4>1. k + 1 \in 1 .. Len(queue[s]) /\ k \in Nat
        BY <1>5
      <4>2. queue[s][k + 1] = put[s] + (k + 1)
        BY <3>1, <4>1
      <4>3. Tail(queue[s])[k] = queue[s][k + 1]
        BY <1>5
      <4>4. put[s] \in Nat
        BY <1>put
      <4> QED BY <4>1, <4>2, <4>3, <4>4
    <3>3. queue'[u] = Tail(queue[s]) /\ Taken(u)' = put[s] + 1 /\ put'[u - 1] = put[s - 1]
      BY <1>2, <1>6, <1>8, <2>1
    <3>4. Len(queue'[u]) <= QueueLength /\ Taken(u)' + Len(queue'[u]) = put'[u - 1]
      <4>1. Len(queue'[u]) = Len(queue[s]) - 1 /\ Len(queue[s]) \in Nat
        BY <1>5, <3>3
      <4>2. put[s] \in Nat
        BY <1>put
      <4>3. Len(queue[s]) <= QueueLength /\ put[s] + Len(queue[s]) = put[s - 1]
        BY <3>1
      <4> QED BY <3>3, <4>1, <4>2, <4>3
    <3>5. \A k \in 1 .. Len(queue'[u]) : queue'[u][k] = Taken(u)' + k
      BY <1>5, <3>2, <3>3
    <3> QED BY <3>4, <3>5 DEF FlowAt
  <2>2. CASE u # s
    <3>1. Taken(u)' = Taken(u) /\ queue'[u] = queue[u] /\ FlowAt(u)
      BY <1>6, <1>8, <2>2 DEF IInv, FlowInv
    <3> QED BY <1>2, <3>1 DEF FlowAt
  <2> QED BY <2>1, <2>2
<1>15. HeldInv'
  <2>1. HeldInv BY DEF IInv
  <2> QED BY <1>2, <1>3, <1>7, <1>11, <2>1 DEF HeldInv
<1>16. I2cInv'
  <2>1. I2cInv BY DEF IInv
  <2> QED BY <1>2, <1>3, <2>1 DEF I2cInv
<1>17. WireInv'
  BY <1>2 DEF IInv, WireInv
<1>18. HeapInv'
  <2>1. HeapInv BY DEF IInv
  <2> QED BY <1>2, <1>9, <2>1 DEF HeapInv
<1> QED BY <1>12, <1>13, <1>14, <1>15, <1>16, <1>17, <1>18 DEF IInv

\* A stage allocates its output.
LEMMA StageProcessStep == ASSUME IInv, NEW s \in Stages, StageProcess(s) PROVE IInv'
<1> DEFINE blocks == Allocated(s, held[s])
<1>1. s # Spi /\ pc[s] = "process" /\ pc[I2c] = "delay"
  BY DEF StageProcess, Runs
<1>2. CASE ~HasRoom(blocks)
  BY <1>2, HaltStep DEF StageProcess, Malloc
<1>3. CASE HasRoom(blocks)
  <2>1. /\ heap' = heap \cup blocks
        /\ pc' = [pc EXCEPT ![s] = "send"]
        /\ UNCHANGED <<queue, held, put, dropped, wire, halted>>
    BY <1>3 DEF StageProcess, Malloc
  <2>pc. pc \in [Tasks -> Labels]
    BY DEF IInv, TypeOK
  <2>put. put \in [Tasks -> Nat]
    BY DEF IInv, TypeOK
  <2>2. /\ pc'[s] = "send"
        /\ \A t \in Tasks \ {s} : pc'[t] = pc[t]
        /\ pc' \in [Tasks -> Labels]
    BY <2>1, <2>pc DEF Labels
  <2>3. \A t \in Tasks : Taken(t)' = Taken(t) /\ Freed(t)' = Freed(t)
    BY <1>1, <2>1, <2>2 DEF Taken, Freed
  <2>4. \A t \in Tasks \ {s} : Made(t)' = Made(t)
    BY <2>1, <2>2 DEF Made
  <2>5. Made(s) = put[s] /\ Made(s)' = put[s] + 1 /\ put[s] \in Nat
    BY <1>1, <2>1, <2>2, <2>put DEF Made
  <2>6. held[s] = put[s] + 1
    BY <1>1 DEF IInv, HeldInv
  <2>7. TypeOK'
    BY <2>1, <2>2 DEF IInv, TypeOK
  <2>8. ControlInv'
    <3>1. ControlInv BY DEF IInv
    <3>2. ReceiveNeverBlocks'
      BY <2>1, <2>2, <3>1 DEF ControlInv, ReceiveNeverBlocks
    <3> QED BY <1>1, <2>2, <3>1, <3>2 DEF ControlInv
  <2>9. FlowInv'
    <3> SUFFICES ASSUME NEW u \in Stages PROVE FlowAt(u)'
      BY DEF FlowInv
    <3>1. Taken(u)' = Taken(u)
      BY <2>3
    <3> QED BY <2>1, <3>1 DEF IInv, FlowInv, FlowAt
  <2>10. HeldInv'
    <3>1. HeldInv BY DEF IInv
    <3> QED BY <2>1, <2>2, <2>6, <3>1 DEF HeldInv
  <2>11. I2cInv'
    <3>1. I2cInv BY DEF IInv
    <3> QED BY <2>1, <2>2, <2>3, <3>1 DEF I2cInv
  <2>12. WireInv'
    BY <2>1 DEF IInv, WireInv
  <2>13. HeapInv'
    <3>1. HeapInv BY DEF IInv
    <3>2. IsFiniteSet(blocks)
      <4>1. IsFiniteSet(ImuBlocks(held[s]))
        BY ImuBlocksFinite
      <4>2. IsFiniteSet({Block("ptrs", held[s])} \cup ImuBlocks(held[s]))
        BY <4>1, FS_Singleton, FS_Union
      <4>3. \/ blocks = {Block("ptrs", held[s])} \cup ImuBlocks(held[s])
            \/ blocks = {Block("quat8", held[s])}
            \/ blocks = {Block("quat4", held[s])}
            \/ blocks = {}
        BY <1>1 DEF Allocated
      <4> HIDE DEF blocks
      <4>4. IsFiniteSet({Block("quat8", held[s])}) /\ IsFiniteSet({Block("quat4", held[s])})
        BY FS_Singleton
      <4>5. IsFiniteSet({})
        BY FS_EmptySet
      <4> QED BY <4>2, <4>3, <4>4, <4>5
    <3>3. IsFiniteSet(heap') /\ Cardinality(heap') <= HeapBlocks
      <4> HIDE DEF blocks
      <4> QED BY <1>3, <2>1, <3>1, <3>2, HeapGrows DEF HeapInv
    <3>4. heap \subseteq heap' /\ blocks \subseteq heap'
      BY <2>1
    <3>5. CASE s = Setup
      <4>1. Block("ptrs", put[s] + 1) \in heap' /\ ImuBlocks(put[s] + 1) \subseteq heap'
        BY <2>6, <3>4, <3>5 DEF Allocated
      <4>2. \A f \in Freed(VectQuat)' + 1 .. put[s] + 1 : Block("ptrs", f) \in heap'
        BY <2>3, <2>5, <3>1, <3>4, <3>5, <4>1 DEF HeapInv
      <4>3. \A f \in 1 .. put[s] + 1 : ImuBlocks(f) \subseteq heap'
        BY <2>5, <3>1, <3>4, <3>5, <4>1 DEF HeapInv
      <4> QED BY <2>3, <2>4, <2>5, <3>1, <3>3, <3>4, <3>5, <4>2, <4>3 DEF HeapInv
    <3>6. CASE s = VectQuat
      <4>1. Block("quat8", put[s] + 1) \in heap'
        BY <2>6, <3>4, <3>6 DEF Allocated
      <4>2. \A f \in Freed(Slerp)' + 1 .. put[s] + 1 : Block("quat8", f) \in heap'
        BY <2>3, <2>5, <3>1, <3>4, <3>6, <4>1 DEF HeapInv
      <4> QED BY <2>3, <2>4, <2>5, <3>1, <3>3, <3>4, <3>6, <4>2 DEF HeapInv
    <3>7. CASE s = Filter
      BY <2>3, <2>4, <3>1, <3>3, <3>4, <3>7 DEF HeapInv
    <3>8. CASE s = Slerp
      <4>1. Block("quat4", put[s] + 1) \in heap'
        BY <2>6, <3>4, <3>8 DEF Allocated
      <4>2. \A f \in Freed(Spi)' + 1 .. put[s] + 1 : Block("quat4", f) \in heap'
        BY <2>3, <2>5, <3>1, <3>4, <3>8, <4>1 DEF HeapInv
      <4> QED BY <2>3, <2>4, <2>5, <3>1, <3>3, <3>4, <3>8, <4>2 DEF HeapInv
    <3> QED BY <1>1, <3>5, <3>6, <3>7, <3>8
  <2> QED BY <2>7, <2>8, <2>9, <2>10, <2>11, <2>12, <2>13 DEF IInv
<1> QED BY <1>2, <1>3

\* A stage passes its output on.
LEMMA StageSendStep == ASSUME IInv, NEW s \in Stages, StageSend(s) PROVE IInv'
<1>1. /\ s # Spi /\ s \in Tasks /\ s + 1 \in Stages
      /\ pc[s] = "send" /\ pc[I2c] = "delay"
      /\ UNCHANGED <<held, heap, dropped, wire, halted>>
  BY DEF StageSend, Runs
<1>pc. pc \in [Tasks -> Labels]
  BY DEF IInv, TypeOK
<1>put. put \in [Tasks -> Nat]
  BY DEF IInv, TypeOK
<1>queue. queue \in [Stages -> Seq(Nat)]
  BY DEF IInv, TypeOK
<1>2. held[s] = put[s] + 1 /\ put[s] \in Nat
  BY <1>1, <1>put DEF IInv, HeldInv
<1>3. /\ pc'[s] = (IF s = Filter THEN "check" ELSE "free")
      /\ \A t \in Tasks \ {s} : pc'[t] = pc[t]
      /\ pc' \in [Tasks -> Labels]
  BY <1>pc DEF StageSend, Labels
<1>4. /\ put'[s] = put[s] + 1
      /\ \A t \in Tasks \ {s} : put'[t] = put[t]
      /\ put' \in [Tasks -> Nat]
  BY <1>put DEF StageSend
<1>5. Len(queue[s + 1]) < QueueLength /\ queue[s + 1] \in Seq(Nat) /\ Len(queue[s + 1]) \in Nat
  <2>1. queue[s + 1] \in Seq(Nat)
    BY <1>1, <1>queue
  <2>2. Len(queue[s + 1]) \in Nat
    BY <2>1
  <2>3. Len(queue[s + 1]) <= QueueLength /\ Len(queue[s + 1]) # QueueLength
    BY <1>1 DEF StageSend, IInv, FlowInv, FlowAt
  <2> QED BY <2>1, <2>2, <2>3
<1>6. /\ Append(queue[s + 1], put[s] + 1) \in Seq(Nat)
      /\ Append(queue[s + 1], put[s] + 1) # <<>>
  <2>1. put[s] + 1 \in Nat
    BY <1>2
  <2> QED BY <1>5, <2>1, AppendFacts
<1>7. /\ queue'[s + 1] = Append(queue[s + 1], put[s] + 1)
      /\ \A u \in Stages \ {s + 1} : queue'[u] = queue[u]
      /\ queue' \in [Stages -> Seq(Nat)]
  BY <1>1, <1>2, <1>6, <1>queue DEF StageSend
<1>8. \A t \in Tasks : Taken(t)' = Taken(t)
  BY <1>1, <1>2, <1>3, <1>4 DEF Taken
<1>9. \A t \in Tasks \ {Filter} : Freed(t)' = Freed(t) /\ Made(t)' = Made(t)
  BY <1>1, <1>2, <1>3, <1>4 DEF Freed, Made
<1>10. TypeOK'
  BY <1>1, <1>3, <1>4, <1>7 DEF IInv, TypeOK
<1>11. ControlInv'
  <2>1. ControlInv BY DEF IInv
  <2>2. ReceiveNeverBlocks'
    <3> SUFFICES ASSUME NEW u \in Stages, pc'[u] = "receive" PROVE queue'[u] # <<>>
      BY DEF ReceiveNeverBlocks
    <3>1. queue[u] # <<>>
      BY <1>3, <2>1 DEF ControlInv, ReceiveNeverBlocks
    <3>2. CASE u = s + 1
      <4>1. queue'[s + 1] # <<>>
        BY <1>6, <1>7
      <4> QED BY <3>2, <4>1
    <3>3. CASE u # s + 1
      BY <1>7, <3>1, <3>3
    <3> QED BY <3>2, <3>3
  <2>3. pc'[I2c] = pc[I2c] /\ pc'[Filter] # "free" /\ pc'[Spi] # "send"
    BY <1>1, <1>3, <2>1 DEF ControlInv
  <2> QED BY <2>1, <2>2, <2>3 DEF ControlInv
<1>12. FlowInv'
  <2> SUFFICES ASSUME NEW u \in Stages PROVE FlowAt(u)'
    BY DEF FlowInv
  <2>1. Taken(u)' = Taken(u) /\ FlowAt(u) /\ Taken(u) \in Nat
    BY <1>8, <1>put DEF IInv, FlowInv, Taken
  <2>2. CASE u = s + 1
    <3>1. /\ Len(queue'[u]) = Len(queue[u]) + 1
          /\ Len(queue[u]) \in Nat /\ Len(queue[u]) < QueueLength
          /\ \A k \in 1 .. Len(queue[u]) : queue'[u][k] = queue[u][k]
          /\ queue'[u][Len(queue[u]) + 1] = put[s] + 1
      <4>1. queue'[u] = Append(queue[u], put[s] + 1) /\ queue[u] \in Seq(Nat)
        BY <1>5, <1>7, <2>2
      <4>2. put[s] + 1 \in Nat /\ Len(queue[u]) < QueueLength
        BY <1>2, <1>5, <2>2
      <4> QED BY <4>1, <4>2, AppendFacts
    <3>2. Taken(u) + Len(queue[u]) = put[s]
      BY <2>1, <2>2 DEF FlowAt
    <3>3. put'[u - 1] = put[s] + 1
      BY <1>4, <2>2
    <3>4. Len(queue'[u]) <= QueueLength /\ Taken(u)' + Len(queue'[u]) = put'[u - 1]
      <4>1. Taken(u)' = Taken(u) /\ Taken(u) \in Nat /\ put[s] \in Nat
        BY <1>2, <2>1
      <4>2. Len(queue'[u]) = Len(queue[u]) + 1 /\ Len(queue[u]) \in Nat
        BY <3>1
      <4>3. Len(queue[u]) < QueueLength
        BY <3>1
      <4>4. Len(queue'[u]) <= QueueLength
        BY <4>2, <4>3
      <4>5. Taken(u)' + Len(queue'[u]) = put'[u - 1]
        <5> HIDE QueueLengthAssumption
        <5>1. Taken(u) + (Len(queue[u]) + 1) = put[s] + 1
          BY <3>2, <4>1, <4>2
        <5> QED BY <3>3, <4>1, <4>2, <5>1
      <4> QED BY <4>4, <4>5
    <3>5. ASSUME NEW k \in 1 .. Len(queue'[u]) PROVE queue'[u][k] = Taken(u)' + k
      <4>1. CASE k = Len(queue[u]) + 1
        <5>1. queue'[u][k] = put[s] + 1
          BY <3>1, <4>1
        <5>2. Taken(u)' = Taken(u) /\ Taken(u) \in Nat /\ Len(queue[u]) \in Nat
          BY <2>1, <3>1
        <5>3. Taken(u) + k = put[s] + 1
          BY <1>2, <3>2, <4>1, <5>2
        <5> QED BY <5>1, <5>2, <5>3
      <4>2. CASE k # Len(queue[u]) + 1
        <5>1. k \in 1 .. Len(queue[u])
          BY <3>1, <4>2
        <5>2. queue[u][k] = Taken(u) + k
          BY <2>1, <5>1 DEF FlowAt
        <5> QED BY <2>1, <3>1, <5>1, <5>2
      <4> QED BY <4>1, <4>2
    <3> QED BY <3>4, <3>5 DEF FlowAt
  <2>3. CASE u # s + 1
    <3>1. queue'[u] = queue[u]
      BY <1>7, <2>3
    <3>2. u - 1 \in Tasks \ {s}
      BY <1>1, <2>3
    <3>3. put'[u - 1] = put[u - 1]
      BY <1>4, <3>2
    <3> QED BY <2>1, <3>1, <3>3 DEF FlowAt
  <2> QED BY <2>2, <2>3
<1>13. HeldInv'
  <2>1. HeldInv BY DEF IInv
  <2> QED BY <1>1, <1>2, <1>3, <1>4, <2>1 DEF HeldInv
<1>14. I2cInv'
  <2>1. I2cInv BY DEF IInv
  <2> QED BY <1>1, <1>3, <1>4, <1>8, <2>1 DEF I2cInv
<1>15. WireInv'
  BY <1>1, <1>4 DEF IInv, WireInv
<1>16. HeapInv'
  <2>1. HeapInv BY DEF IInv
  <2> QED BY <1>1, <1>9, <2>1 DEF HeapInv
<1> QED BY <1>10, <1>11, <1>12, <1>13, <1>14, <1>15, <1>16 DEF IInv

\* A frame goes out on the wire.
LEMMA SpiTransmitStep == IInv /\ SpiTransmit => IInv'
<1> SUFFICES ASSUME IInv, SpiTransmit PROVE IInv'
  OBVIOUS
<1>1. /\ pc[Spi] = "process" /\ pc[I2c] = "delay"
      /\ UNCHANGED <<queue, held, heap, dropped, halted>>
  BY DEF SpiTransmit, Runs
<1>pc. pc \in [Tasks -> Labels]
  BY DEF IInv, TypeOK
<1>put. put \in [Tasks -> Nat]
  BY DEF IInv, TypeOK
<1>2. held[Spi] = put[Spi] + 1 /\ put[Spi] \in Nat
  BY <1>1, <1>put DEF IInv, HeldInv
<1>3. /\ pc'[Spi] = "free"
      /\ \A t \in Tasks \ {Spi} : pc'[t] = pc[t]
      /\ pc' \in [Tasks -> Labels]
  BY <1>pc DEF SpiTransmit, Labels
<1>4. /\ put'[Spi] = put[Spi] + 1
      /\ \A t \in Tasks \ {Spi} : put'[t] = put[t]
      /\ put' \in [Tasks -> Nat]
  BY <1>put DEF SpiTransmit
<1>5. /\ wire' = Append(wire, put[Spi] + 1)
      /\ wire \in Seq(Nat) /\ Len(wire) = put[Spi]
      /\ \A k \in 1 .. Len(wire) : wire[k] = k
  BY <1>2 DEF SpiTransmit, IInv, TypeOK, WireInv
<1>6. wire' \in Seq(Nat)
  BY <1>2, <1>5
<1>7. \A t \in Tasks : Taken(t)' = Taken(t) /\ Freed(t)' = Freed(t)
  BY <1>1, <1>2, <1>3, <1>4 DEF Taken, Freed
<1>8. \A t \in Tasks \ {Spi} : Made(t)' = Made(t)
  BY <1>3, <1>4 DEF Made
<1>9. TypeOK'
  BY <1>1, <1>3, <1>4, <1>6 DEF IInv, TypeOK
<1>10. ControlInv'
  <2>1. ControlInv BY DEF IInv
  <2> QED BY <1>1, <1>3, <2>1 DEF ControlInv, ReceiveNeverBlocks
<1>11. FlowInv'
  <2> SUFFICES ASSUME NEW u \in Stages PROVE FlowAt(u)'
    BY DEF FlowInv
  <2>1. Taken(u)' = Taken(u) /\ FlowAt(u) /\ put'[u - 1] = put[u - 1]
    BY <1>4, <1>7 DEF IInv, FlowInv
  <2> QED BY <1>1, <2>1 DEF FlowAt
<1>12. HeldInv'
  <2>1. HeldInv BY DEF IInv
  <2> QED BY <1>1, <1>2, <1>3, <1>4, <2>1 DEF HeldInv
<1>13. I2cInv'
  <2>1. I2cInv BY DEF IInv
  <2> QED BY <1>1, <1>3, <1>4, <1>7, <2>1 DEF I2cInv
<1>14. WireInv'
  BY <1>2, <1>4, <1>5 DEF WireInv
<1>15. HeapInv'
  <2>1. HeapInv BY DEF IInv
  <2> QED BY <1>1, <1>7, <1>8, <2>1 DEF HeapInv
<1> QED BY <1>9, <1>10, <1>11, <1>12, <1>13, <1>14, <1>15 DEF IInv

\* A stage frees its input.
LEMMA StageFreeStep == ASSUME IInv, NEW s \in Stages, StageFree(s) PROVE IInv'
<1>1. /\ pc[s] = "free" /\ pc[I2c] = "delay" /\ s # Filter
      /\ heap' = heap \ {Block(InKind[s], held[s])}
      /\ UNCHANGED <<queue, held, put, dropped, wire, halted>>
  BY DEF StageFree, Runs, IInv, ControlInv
<1>pc. pc \in [Tasks -> Labels]
  BY DEF IInv, TypeOK
<1>put. put \in [Tasks -> Nat]
  BY DEF IInv, TypeOK
<1>2. held[s] = put[s] /\ put[s] \in Nat \ {0}
  BY <1>1, <1>put DEF IInv, HeldInv
<1>3. /\ pc'[s] = "check"
      /\ \A t \in Tasks \ {s} : pc'[t] = pc[t]
      /\ pc' \in [Tasks -> Labels]
  BY <1>pc DEF StageFree, Labels
<1>4. \A t \in Tasks : Taken(t)' = Taken(t) /\ Made(t)' = Made(t)
  BY <1>1, <1>3 DEF Taken, Made
<1>5. \A t \in Tasks \ {s} : Freed(t)' = Freed(t)
  BY <1>1, <1>3 DEF Freed
<1>6. Freed(s) = put[s] - 1 /\ Freed(s)' = put[s]
  BY <1>1, <1>3 DEF Freed
<1>7. TypeOK'
  BY <1>1, <1>3 DEF IInv, TypeOK
<1>8. ControlInv'
  <2>1. ControlInv BY DEF IInv
  <2> QED BY <1>1, <1>3, <2>1 DEF ControlInv, ReceiveNeverBlocks
<1>9. FlowInv'
  <2> SUFFICES ASSUME NEW u \in Stages PROVE FlowAt(u)'
    BY DEF FlowInv
  <2>1. Taken(u)' = Taken(u) /\ FlowAt(u)
    BY <1>4 DEF IInv, FlowInv
  <2> QED BY <1>1, <2>1 DEF FlowAt
<1>10. HeldInv'
  <2>1. HeldInv BY DEF IInv
  <2> QED BY <1>1, <1>3, <2>1 DEF HeldInv
<1>11. I2cInv'
  <2>1. I2cInv BY DEF IInv
  <2> QED BY <1>1, <1>3, <1>4, <2>1 DEF I2cInv
<1>12. WireInv'
  BY <1>1 DEF IInv, WireInv
<1>13. HeapInv'
  <2>1. HeapInv BY DEF IInv
  <2>2. IsFiniteSet(heap') /\ Cardinality(heap') <= HeapBlocks
    <3>1. heap' \in SUBSET heap
      BY <1>1
    <3>2. IsFiniteSet(heap) /\ Cardinality(heap) <= HeapBlocks
      BY <2>1 DEF HeapInv
    <3>3. IsFiniteSet(heap') /\ Cardinality(heap') <= Cardinality(heap)
      BY <3>1, <3>2, FS_Subset
    <3>4. Cardinality(heap) \in Nat /\ Cardinality(heap') \in Nat
      BY <3>2, <3>3, FS_CardinalityType
    <3> QED BY <3>2, <3>3, <3>4
  <2>3. \A b \in heap : b # Block(InKind[s], put[s]) => b \in heap'
    BY <1>1, <1>2
  <2>4. InKind[s] \in {"raw", "ptrs", "quat8", "quat4"}
    BY <1>1 DEF InKind
  <2>5. \A f \in 1 .. Made(Setup)' : ImuBlocks(f) \subseteq heap'
    BY <1>4, <2>1, <2>3, <2>4 DEF HeapInv, ImuBlocks, Block
  <2>6. CASE s = Setup
    <3>1. InKind[s] = "raw"
      BY <2>6 DEF InKind
    <3> QED BY <1>2, <1>4, <1>5, <1>6, <2>1, <2>2, <2>3, <2>5, <2>6, <3>1 DEF HeapInv, Block
  <2>7. CASE s = VectQuat
    <3>1. InKind[s] = "ptrs"
      BY <2>7 DEF InKind
    <3> QED BY <1>2, <1>4, <1>5, <1>6, <2>1, <2>2, <2>3, <2>5, <2>7, <3>1 DEF HeapInv, Block
  <2>8. CASE s = Slerp
    <3>1. InKind[s] = "quat8"
      BY <2>8 DEF InKind
    <3> QED BY <1>2, <1>4, <1>5, <1>6, <2>1, <2>2, <2>3, <2>5, <2>8, <3>1 DEF HeapInv, Block
  <2>9. CASE s = Spi
    <3>1. InKind[s] = "quat4"
      BY <2>9 DEF InKind
    <3> QED BY <1>2, <1>4, <1>5, <1>6, <2>1, <2>2, <2>3, <2>5, <2>9, <3>1 DEF HeapInv, Block
  <2> QED BY <1>1, <2>6, <2>7, <2>8, <2>9
<1> QED BY <1>7, <1>8, <1>9, <1>10, <1>11, <1>12, <1>13 DEF IInv

\* The initial state satisfies the invariant.
LEMMA InitIInv == Init => IInv
<1> SUFFICES ASSUME Init PROVE IInv
  OBVIOUS
<1>1. TypeOK
  <2>1. pc \in [Tasks -> Labels] /\ put \in [Tasks -> Nat]
    BY DEF Init, Labels
  <2>2. queue \in [Stages -> Seq(Nat)] /\ wire \in Seq(Nat)
    BY DEF Init
  <2>3. held \in [Stages -> Nat] /\ dropped \in Nat /\ halted \in BOOLEAN
    BY DEF Init
  <2> QED BY <2>1, <2>2, <2>3 DEF TypeOK
<1>2. ControlInv
  BY DEF Init, ControlInv, ReceiveNeverBlocks
<1>3. FlowInv
  BY DEF Init, FlowInv, FlowAt, Taken
<1>4. HeldInv /\ I2cInv /\ WireInv
  BY DEF Init, HeldInv, I2cInv, WireInv, Taken
<1>5. HeapInv
  <2>1. IsFiniteSet(heap) /\ Cardinality(heap) <= HeapBlocks
    BY FS_EmptySet DEF Init
  <2> QED BY <2>1 DEF Init, HeapInv, Freed, Made
<1> QED BY <1>1, <1>2, <1>3, <1>4, <1>5 DEF IInv

\* Steps that change nothing.
LEMMA StutterStep == IInv /\ UNCHANGED vars => IInv'
<1> SUFFICES ASSUME IInv, UNCHANGED vars PROVE IInv'
  OBVIOUS
<1>1. pc \in [Tasks -> Labels] /\ held \in [Stages -> Nat] /\ halted \in BOOLEAN
  BY DEF IInv, TypeOK
<1>2. ReceiveNeverBlocks /\ I2cInv /\ pc[I2c] # "start"
  BY DEF IInv, ControlInv
<1> QED
  BY <1>1, <1>2, NeutralStep DEF vars, ReceiveNeverBlocks, I2cInv

\* Every step preserves the invariant.
LEMMA NextIInv == IInv /\ [Next]_vars => IInv'
<1> SUFFICES ASSUME IInv, [Next]_vars PROVE IInv'
  OBVIOUS
<1>1. CASE I2cStep
  BY <1>1, I2cCheckStep, I2cReceiveStep, I2cSendStep DEF I2cStep
<1>2. ASSUME NEW t \in Tasks, Wake(t) PROVE IInv'
  BY <1>2, WakeStep
<1>3. ASSUME NEW s \in Stages, StageStep(s) PROVE IInv'
  BY <1>3, StageStartStep, StageCheckStep, StageReceiveStep, StageProcessStep,
     StageSendStep, StageFreeStep DEF StageStep
<1>4. CASE SpiTransmit
  BY <1>4, SpiTransmitStep
<1>5. CASE MallocFailedHook \/ UNCHANGED vars
  BY <1>5, StutterStep DEF MallocFailedHook
<1> QED BY <1>1, <1>2, <1>3, <1>4, <1>5 DEF Next

\* The inductive invariant holds in every reachable state of the pipeline.
THEOREM Invariance == Spec => []IInv
<1>1. Init => IInv
  BY InitIInv
<1>2. IInv /\ [Next]_vars => IInv'
  BY NextIInv
<1> QED BY <1>1, <1>2, PTL DEF Spec

\* The variables keep their types.
THEOREM TypeCorrect == Spec => []TypeOK
<1>1. IInv => TypeOK
  BY DEF IInv
<1> QED BY <1>1, Invariance, PTL

\* Frames leave the board complete and in order, whatever the queue length.
THEOREM FramesInOrder == Spec => []InOrder
<1>1. IInv => InOrder
  <2> SUFFICES ASSUME IInv PROVE InOrder
    OBVIOUS
  <2>1. wire \in Seq(Nat) /\ \A k \in 1 .. Len(wire) : wire[k] = k
    BY DEF IInv, TypeOK, WireInv
  <2> QED BY <2>1 DEF InOrder
<1> QED BY <1>1, Invariance, PTL

\* The free entry I2C_Task saw before it listened on the bus is still there
\* when it enqueues: no frame that was read is thrown away.
THEOREM NothingDropped == Spec => []NoFrameDropped
<1>1. IInv => NoFrameDropped
  BY DEF IInv, I2cInv, NoFrameDropped
<1> QED BY <1>1, Invariance, PTL

\* The message a stage counted before it received is still there.
THEOREM ReceivesSucceed == Spec => []ReceiveNeverBlocks
<1>1. IInv => ReceiveNeverBlocks
  BY DEF IInv, ControlInv
<1> QED BY <1>1, Invariance, PTL

\* Every pointer that can still be followed or freed is to an allocated block.
THEOREM MemorySafe == Spec => []PointersLive
<1>1. IInv => PointersLive
  <2> SUFFICES ASSUME IInv PROVE PointersLive
    OBVIOUS
  <2>put. put \in [Tasks -> Nat]
    BY DEF IInv, TypeOK
  <2>queue. queue \in [Stages -> Seq(Nat)]
    BY DEF IInv, TypeOK
  <2>1. \A s \in Stages : /\ Freed(s) \in Int /\ Taken(s) \in Nat /\ put[s] \in Nat
                         /\ Freed(s) <= put[s] /\ put[s] <= Taken(s)
    BY <2>put DEF Freed, Taken
  <2>2. \A s \in Stages : Taken(s) <= put[s - 1]
    <3> SUFFICES ASSUME NEW s \in Stages PROVE Taken(s) <= put[s - 1]
      OBVIOUS
    <3>1. queue[s] \in Seq(Nat)
      BY <2>queue
    <3>2. Len(queue[s]) \in Nat
      BY <3>1
    <3>3. Taken(s) + Len(queue[s]) = put[s - 1]
      BY DEF IInv, FlowInv, FlowAt
    <3>4. Taken(s) \in Nat
      BY <2>1
    <3> QED BY <3>2, <3>3, <3>4
  <2>3. \A t \in Tasks : put[t] \in Nat /\ Made(t) \in Nat /\ put[t] <= Made(t)
    BY <2>put DEF Made
  <2>4. ASSUME NEW s \in Stages, NEW f \in Freed(s) + 1 .. put[s - 1]
        PROVE  Block(InKind[s], f) \in heap
    <3>1. HeapInv
      BY DEF IInv
    <3>2. CASE s = Setup
      BY <2>1, <2>3, <3>1, <3>2 DEF HeapInv, InKind
    <3>3. CASE s = VectQuat
      BY <2>1, <2>3, <3>1, <3>3 DEF HeapInv, InKind
    <3>4. CASE s = Filter
      <4>1. Freed(Filter) = put[Filter]
        BY DEF IInv, ControlInv, Freed
      <4>2. Freed(Slerp) <= put[Filter]
        BY <2>1, <2>2
      <4>3. f \in Freed(Slerp) + 1 .. Made(VectQuat)
        BY <2>1, <2>3, <3>4, <4>1, <4>2
      <4> QED BY <3>1, <3>4, <4>3 DEF HeapInv, InKind
    <3>5. CASE s = Slerp
      <4>1. put[Filter] <= put[VectQuat]
        BY <2>1, <2>2
      <4>2. f \in Freed(Slerp) + 1 .. Made(VectQuat)
        BY <2>1, <2>3, <3>5, <4>1
      <4> QED BY <3>1, <3>5, <4>2 DEF HeapInv, InKind
    <3>6. CASE s = Spi
      BY <2>1, <2>3, <3>1, <3>6 DEF HeapInv, InKind
    <3> QED BY <3>2, <3>3, <3>4, <3>5, <3>6
  <2>5. ASSUME NEW s \in Stages, NEW k \in 1 .. Len(queue[s])
        PROVE  Block(InKind[s], queue[s][k]) \in heap
    <3>1. queue[s] \in Seq(Nat)
      BY <2>queue
    <3>2. Len(queue[s]) \in Nat
      BY <3>1
    <3>3. queue[s][k] = Taken(s) + k /\ Taken(s) + Len(queue[s]) = put[s - 1]
      BY DEF IInv, FlowInv, FlowAt
    <3>4. queue[s][k] \in Freed(s) + 1 .. put[s - 1]
      <4>1. Freed(s) \in Int /\ Taken(s) \in Nat /\ put[s] \in Nat
        BY <2>1
      <4>2. Freed(s) <= put[s] /\ put[s] <= Taken(s)
        BY <2>1
      <4> QED BY <3>2, <3>3, <4>1, <4>2
    <3> QED BY <2>4, <3>4
  <2>6. ASSUME NEW s \in Stages, pc[s] \in {"process", "send", "free"}
        PROVE  Block(InKind[s], held[s]) \in heap
    <3>1. held[s] \in Freed(s) + 1 .. put[s - 1]
      <4>1. put[s] \in Nat /\ Taken(s) <= put[s - 1] /\ put[s - 1] \in Nat
        BY <2>1, <2>2, <2>3
      <4>2. CASE pc[s] = "free"
        BY <4>1, <4>2 DEF IInv, HeldInv, Freed, Taken
      <4>3. CASE pc[s] \in {"process", "send"}
        BY <4>1, <4>3 DEF IInv, HeldInv, Freed, Taken
      <4> QED BY <2>6, <4>2, <4>3
    <3> QED BY <2>4, <3>1
  <2>7. pc[VectQuat] = "process" => ImuBlocks(held[VectQuat]) \subseteq heap
    <3> SUFFICES ASSUME pc[VectQuat] = "process"
                 PROVE  ImuBlocks(held[VectQuat]) \subseteq heap
      OBVIOUS
    <3>1. held[VectQuat] = put[VectQuat] + 1 /\ Taken(VectQuat) = put[VectQuat] + 1
      BY <2>put DEF IInv, HeldInv, Taken
    <3>2. held[VectQuat] \in 1 .. Made(Setup)
      BY <2>1, <2>2, <2>3, <3>1
    <3> QED BY <3>2 DEF IInv, HeapInv
  <2> QED BY <2>5, <2>6, <2>7 DEF PointersLive
<1> QED BY <1>1, Invariance, PTL

\* Along the pipeline, each task has passed on fewer frames than the one before
\* it, by at most a full queue and the frame in its hands.
LEMMA PutsDecrease ==
    ASSUME IInv, NEW s \in Stages
    PROVE  /\ put[s] \in Nat /\ put[s - 1] \in Nat
           /\ put[s] <= put[s - 1] /\ put[s - 1] - put[s] <= QueueLength + 1
           /\ Taken(s) <= put[s - 1]
<1>put. put \in [Tasks -> Nat]
  BY DEF IInv, TypeOK
<1>1. queue[s] \in Seq(Nat)
  BY DEF IInv, TypeOK
<1>2. Len(queue[s]) \in Nat
  BY <1>1
<1>3. Len(queue[s]) <= QueueLength /\ Taken(s) + Len(queue[s]) = put[s - 1]
  BY DEF IInv, FlowInv, FlowAt
<1>4. put[s] \in Nat /\ put[s - 1] \in Nat /\ (Taken(s) = put[s] \/ Taken(s) = put[s] + 1)
  BY <1>put DEF Taken
<1>5. put[s] <= Taken(s) /\ Taken(s) <= put[s] + 1 /\ Taken(s) \in Nat
  BY <1>4
<1>6. Taken(s) <= put[s - 1] /\ put[s - 1] <= Taken(s) + QueueLength
  BY <1>2, <1>3, <1>4, <1>5
<1> QED BY <1>4, <1>5, <1>6

\* Five full queues and one frame per stage are all the pipeline can hold.
THEOREM Throttled == Spec => []Backpressure
<1>1. IInv => Backpressure
  <2> SUFFICES ASSUME IInv PROVE Backpressure
    OBVIOUS
  <2>put. put \in [Tasks -> Nat]
    BY DEF IInv, TypeOK
  <2>1. ASSUME NEW s \in Stages PROVE put[s - 1] - put[s] <= QueueLength + 1
    BY PutsDecrease
  <2>2. put[I2c] - put[Setup] <= QueueLength + 1
    BY <2>1
  <2>3. put[Setup] - put[VectQuat] <= QueueLength + 1
    BY <2>1
  <2>4. put[VectQuat] - put[Filter] <= QueueLength + 1
    BY <2>1
  <2>5. put[Filter] - put[Slerp] <= QueueLength + 1
    BY <2>1
  <2>6. put[Slerp] - put[Spi] <= QueueLength + 1
    BY <2>1
  <2>7. \A t \in Tasks : put[t] \in Nat
    BY <2>put
  <2> QED BY <2>2, <2>3, <2>4, <2>5, <2>6, <2>7 DEF Backpressure, Capacity
<1> QED BY <1>1, Invariance, PTL

\* Nothing moves before Queue_1 has been full once.
THEOREM BacklogFirst == Spec => []NothingBeforeBacklog
<1>1. IInv => NothingBeforeBacklog
  BY DEF IInv, I2cInv, NothingBeforeBacklog
<1> QED BY <1>1, Invariance, PTL

\* Each frame costs ImuCount blocks for ever: the heap bounds the number of
\* frames the program can transmit in its life.
THEOREM Mortal == Spec => []LifetimeBound
<1>1. IInv => LifetimeBound
  <2> SUFFICES ASSUME IInv PROVE LifetimeBound
    OBVIOUS
  <2> DEFINE n == put[Spi]
             P == (1 .. n) \X (1 .. ImuCount)
             g == [p \in P |-> <<"imu", p[1], p[2]>>]
  <2>put. put \in [Tasks -> Nat]
    BY DEF IInv, TypeOK
  <2>1. ASSUME NEW s \in Stages PROVE put[s] <= put[s - 1]
    BY PutsDecrease
  <2>2. n \in Nat /\ Made(Setup) \in Nat /\ n <= Made(Setup)
    <3>1. put[Spi] <= put[Slerp]
      BY <2>1
    <3>2. put[Slerp] <= put[Filter]
      BY <2>1
    <3>3. put[Filter] <= put[VectQuat]
      BY <2>1
    <3>4. put[VectQuat] <= put[Setup]
      BY <2>1
    <3>5. \A t \in Tasks : put[t] \in Nat
      BY <2>put
    <3> QED BY <3>1, <3>2, <3>3, <3>4, <3>5 DEF Made
  <2>3. IsFiniteSet(P) /\ Cardinality(P) = n * ImuCount
    <3>1. IsFiniteSet(1 .. n) /\ Cardinality(1 .. n) = n
      <4>1. n \in Nat
        BY <2>2
      <4> HIDE DEF n
      <4> QED BY <4>1, FS_Interval
    <3>2. IsFiniteSet(1 .. ImuCount) /\ Cardinality(1 .. ImuCount) = ImuCount
      BY FS_Interval
    <3> QED BY <3>1, <3>2, FS_Product
  <2>4. g \in Injection(P, heap)
    <3>1. \A f \in 1 .. n : ImuBlocks(f) \subseteq heap
      BY <2>2 DEF IInv, HeapInv
    <3>2. \A p \in P : g[p] \in heap
      BY <3>1 DEF ImuBlocks
    <3>3. \A p, q \in P : g[p] = g[q] => p = q
      OBVIOUS
    <3> QED BY <3>2, <3>3 DEF Injection, IsInjective
  <2>5. IsFiniteSet(heap) /\ Cardinality(heap) <= HeapBlocks
    BY DEF IInv, HeapInv
  <2>6. Cardinality(P) <= Cardinality(heap)
    <3> HIDE DEF P, g
    <3> QED BY <2>4, <2>5, FS_Injection
  <2>7. Cardinality(heap) \in Nat
    BY <2>5, FS_CardinalityType
  <2>8. Cardinality(P) \in Nat
    BY <2>3, FS_CardinalityType
  <2> QED BY <2>3, <2>5, <2>6, <2>7, <2>8 DEF LifetimeBound
<1> QED BY <1>1, Invariance, PTL


-----------------------------------------------------------------------------
(* The pipeline implements a channel of Capacity frames.                   *)

\* The steps of the channel: what enters, what leaves, and the hook.
LEMMA AcceptStep == IInv /\ I2cSend => Channel!Accept
<1> SUFFICES ASSUME IInv, I2cSend PROVE Channel!Accept
  OBVIOUS
<1>put. put \in [Tasks -> Nat]
  BY DEF IInv, TypeOK
<1>queue. queue[Setup] \in Seq(Nat)
  BY DEF IInv, TypeOK
<1>1. Len(queue[Setup]) < QueueLength /\ FlowAt(Setup)
  BY DEF IInv, I2cInv, FlowInv, I2cSend
<1>2. Len(queue[Setup]) \in Nat
  BY <1>queue
<1>3. /\ put' = [put EXCEPT ![I2c] = @ + 1]
      /\ UNCHANGED <<wire, halted>> /\ ~halted
  BY <1>1, <1>2 DEF I2cSend
<1>4. put[I2c] - put[Setup] < QueueLength + 1
  <2>1. Taken(Setup) + Len(queue[Setup]) = put[I2c]
    BY <1>1 DEF FlowAt
  <2>2. put[Setup] \in Nat /\ (Taken(Setup) = put[Setup] \/ Taken(Setup) = put[Setup] + 1)
    BY <1>put DEF Taken
  <2> QED BY <1>1, <1>2, <2>1, <2>2
<1>5. put[I2c] - Len(wire) < Capacity
  <2>1. put[Setup] - put[VectQuat] <= QueueLength + 1
    BY PutsDecrease
  <2>2. put[VectQuat] - put[Filter] <= QueueLength + 1
    BY PutsDecrease
  <2>3. put[Filter] - put[Slerp] <= QueueLength + 1
    BY PutsDecrease
  <2>4. put[Slerp] - put[Spi] <= QueueLength + 1
    BY PutsDecrease
  <2>5. /\ put[I2c] \in Nat /\ put[Setup] \in Nat /\ put[VectQuat] \in Nat
        /\ put[Filter] \in Nat /\ put[Slerp] \in Nat /\ put[Spi] \in Nat
    BY <1>put
  <2>6. Len(wire) = put[Spi]
    BY DEF IInv, WireInv
  <2>7. put[I2c] - put[VectQuat] < 2 * (QueueLength + 1)
    BY <1>4, <2>1, <2>5
  <2>8. put[VectQuat] - put[Spi] <= 3 * (QueueLength + 1)
    BY <2>2, <2>3, <2>4, <2>5
  <2> QED BY <2>5, <2>6, <2>7, <2>8 DEF Capacity
<1>6. put'[I2c] = put[I2c] + 1
  BY <1>put, <1>3
<1> QED BY <1>3, <1>5, <1>6 DEF Channel!Accept

\* A transmission is a Deliver of the channel.
LEMMA DeliverStep == IInv /\ SpiTransmit => Channel!Deliver
<1> SUFFICES ASSUME IInv, SpiTransmit PROVE Channel!Deliver
  OBVIOUS
<1>put. put \in [Tasks -> Nat]
  BY DEF IInv, TypeOK
<1>1. pc[Spi] = "process" /\ ~halted /\ wire' = Append(wire, held[Spi])
  BY DEF SpiTransmit, Runs
<1>2. held[Spi] = put[Spi] + 1 /\ Taken(Spi) = put[Spi] + 1 /\ Len(wire) = put[Spi]
  BY <1>1 DEF IInv, HeldInv, WireInv, Taken
<1>3. Len(wire) < put[I2c]
  <2>1. Taken(Spi) <= put[Slerp]
    BY PutsDecrease
  <2>2. put[Slerp] <= put[Filter]
    BY PutsDecrease
  <2>3. put[Filter] <= put[VectQuat]
    BY PutsDecrease
  <2>4. put[VectQuat] <= put[Setup]
    BY PutsDecrease
  <2>5. put[Setup] <= put[I2c]
    BY PutsDecrease
  <2>6. \A t \in Tasks : put[t] \in Nat
    BY <1>put
  <2> QED BY <1>2, <2>1, <2>2, <2>3, <2>4, <2>5, <2>6
<1>4. put'[I2c] = put[I2c] /\ halted' = halted
  BY <1>put DEF SpiTransmit
<1> QED BY <1>1, <1>2, <1>3, <1>4 DEF Channel!Deliver

\* Any other step stops the channel or leaves it alone.
LEMMA OtherSteps ==
    ASSUME IInv, [Next]_vars, ~I2cSend, ~SpiTransmit
    PROVE  Channel!Stop \/ UNCHANGED Channel!vars
<1>put. put \in [Tasks -> Nat]
  BY DEF IInv, TypeOK
<1>1. ASSUME NEW blocks, NEW t, NEW next, Malloc(blocks, t, next), ~halted,
             UNCHANGED <<put, wire>>
      PROVE  Channel!Stop \/ UNCHANGED Channel!vars
  BY <1>1 DEF Malloc, Channel!Stop, Channel!vars
<1>2. CASE I2cStep
  <2>1. CASE I2cCheck
    BY <2>1 DEF I2cCheck, Channel!vars
  <2>2. CASE I2cReceive
    BY <1>1, <2>2 DEF I2cReceive
  <2> QED BY <1>2, <2>1, <2>2 DEF I2cStep
<1>3. ASSUME NEW t \in Tasks, Wake(t) PROVE UNCHANGED Channel!vars
  BY <1>3 DEF Wake, Channel!vars
<1>4. ASSUME NEW s \in Stages, StageStep(s)
      PROVE  Channel!Stop \/ UNCHANGED Channel!vars
  <2>1. CASE StageStart(s)
    BY <2>1 DEF StageStart, Channel!vars
  <2>2. CASE StageCheck(s)
    BY <2>2 DEF StageCheck, Channel!vars
  <2>3. CASE StageReceive(s)
    BY <2>3 DEF StageReceive, Channel!vars
  <2>4. CASE StageProcess(s)
    BY <1>1, <2>4 DEF StageProcess, Runs
  <2>5. CASE StageSend(s)
    BY <1>put, <2>5 DEF StageSend, Channel!vars
  <2>6. CASE StageFree(s)
    BY <2>6 DEF StageFree, Channel!vars
  <2> QED BY <1>4, <2>1, <2>2, <2>3, <2>4, <2>5, <2>6 DEF StageStep
<1>5. CASE SpiTransmit
  BY <1>5
<1>6. CASE MallocFailedHook \/ UNCHANGED vars
  BY <1>6 DEF MallocFailedHook, vars, Channel!vars
<1> QED BY <1>2, <1>3, <1>4, <1>5, <1>6 DEF Next

\* Six tasks, five queues and a heap amount to one bounded ordered channel.
THEOREM Refinement == Spec => ImplementsChannel
<1>1. Init => Channel!Init
  BY DEF Init, Channel!Init
<1>2. IInv /\ [Next]_vars => [Channel!Next]_(Channel!vars)
  BY AcceptStep, DeliverStep, OtherSteps DEF Channel!Next
<1> QED BY <1>1, <1>2, Invariance, PTL DEF Spec, ImplementsChannel, Channel!Spec
=============================================================================
