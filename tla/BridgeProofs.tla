---------------------------- MODULE BridgeProofs ----------------------------
(***************************************************************************)
(* The safety properties of the bridge for every size of transaction,      *)
(* buffer and write, and for every set of handles.                         *)
(***************************************************************************)
EXTENDS Bridge, TLAPS

Event == [type : {"srv_open", "close", "cong", "data"}, handle : Handles]

TypeOK ==
    /\ pc \in {"clear", "transmit", "check", "test", "write"}
    /\ recvbuf \in [Cells -> Bytes]
    /\ handle \in Handles \cup {NoHandle}
    /\ events \in Seq(Event)

\* The buffer holds the beginning of one transaction and nothing older.
Shaped(buf, length) ==
    \A k \in Cells :
        /\ k < length => buf[k].origin = "fresh"
        /\ k >= length => buf[k] = Byte("filler", FALSE)

\* What the buffer holds at each point of the loop.
BufferInv ==
    /\ pc = "transmit" => Shaped(recvbuf, 0)
    /\ pc = "check" => \E length \in 0 .. TransactionSize : Shaped(recvbuf, length)
    /\ pc \in {"test", "write"} => \E length \in 2 .. TransactionSize : Shaped(recvbuf, length)

IInv == TypeOK /\ BufferInv /\ HandleStaysValid /\ FrameShape

LEMMA InitIInv == Init => IInv
<1> SUFFICES ASSUME Init PROVE IInv
  OBVIOUS
<1>1. TypeOK
  BY DEF Init, TypeOK, Byte, Bytes, Origins
<1>2. BufferInv /\ HandleStaysValid /\ FrameShape
  BY DEF Init, BufferInv, HandleStaysValid, FrameShape
<1> QED BY <1>1, <1>2 DEF IInv

LEMMA ClearIInv == IInv /\ Clear => IInv'
<1> SUFFICES ASSUME IInv, Clear PROVE IInv'
  OBVIOUS
<1>1. TypeOK'
  BY DEF IInv, TypeOK, Clear, Cleared, callbackVars, Byte, Bytes, Origins
<1>2. Shaped(recvbuf, 0)'
  <2>1. ASSUME NEW k \in Cells PROVE ~(k < 0)
    BY SizeAssumption DEF Cells
  <2>2. ASSUME NEW k \in Cells PROVE recvbuf'[k] = Byte("filler", FALSE)
    BY DEF Clear, Cleared
  <2> QED BY <2>1, <2>2 DEF Shaped
<1>3. BufferInv'
  BY <1>2 DEF Clear, BufferInv
<1>4. HandleStaysValid' /\ FrameShape'
  BY DEF IInv, Clear, HandleStaysValid, FrameShape
<1> QED BY <1>1, <1>3, <1>4 DEF IInv

\* A transaction fills the cleared buffer from the front.
LEMMA TransactionIInv ==
    ASSUME IInv, NEW length \in 0 .. TransactionSize, NEW letters \in 0 .. 2,
           Transaction(length, letters)
    PROVE  IInv'
<1> USE SizeAssumption
<1>1. TypeOK'
  <2>1. ASSUME NEW k \in Cells
        PROVE  (IF k < length THEN Byte("fresh", k < letters) ELSE Aged(recvbuf[k])) \in Bytes
    <3>1. recvbuf[k] \in Bytes
      BY DEF IInv, TypeOK
    <3>2. (k < letters) \in BOOLEAN
      BY SMT
    <3>3. Byte("fresh", k < letters) \in Bytes
      BY <3>2, Zenon DEF Byte, Bytes, Origins
    <3>4. Aged(recvbuf[k]) \in Bytes
      BY <3>1 DEF Aged, Byte, Bytes, Origins
    <3> QED BY <3>3, <3>4
  <2>2. recvbuf' \in [Cells -> Bytes]
    BY <2>1 DEF Transaction
  <2> QED BY <2>2 DEF IInv, TypeOK, Transaction, callbackVars
<1>2. Shaped(recvbuf, length)'
  <2>1. ASSUME NEW k \in Cells, k < length PROVE recvbuf'[k].origin = "fresh"
    BY <2>1 DEF Transaction, Byte
  <2>2. ASSUME NEW k \in Cells, k >= length PROVE recvbuf'[k] = Byte("filler", FALSE)
    <3>1. recvbuf[k] = Byte("filler", FALSE)
      <4>1. Shaped(recvbuf, 0) /\ k >= 0
        BY DEF IInv, BufferInv, Transaction, Cells
      <4> QED BY <4>1 DEF Shaped
    <3>2. Aged(recvbuf[k]) = recvbuf[k]
      BY <3>1 DEF Aged, Byte
    <3>3. ~(k < length)
      BY <2>2 DEF Cells
    <3> QED BY <3>1, <3>2, <3>3 DEF Transaction
  <2> QED BY <2>1, <2>2 DEF Shaped
<1>3. BufferInv'
  BY <1>2 DEF BufferInv, Transaction
<1>4. HandleStaysValid' /\ FrameShape'
  BY DEF IInv, Transaction, HandleStaysValid, FrameShape
<1> QED BY <1>1, <1>3, <1>4 DEF IInv

\* Two letters at the front are two bytes of this transaction: filler is none.
LEMMA CheckIInv == IInv /\ Check => IInv'
<1> USE SizeAssumption
<1> SUFFICES ASSUME IInv, Check PROVE IInv'
  OBVIOUS
<1>1. TypeOK'
  BY DEF IInv, TypeOK, Check, callbackVars
<1>2. PICK length \in 0 .. TransactionSize : Shaped(recvbuf, length)
  BY DEF IInv, BufferInv, Check
<1>3. IsFrame => length >= 2
  <2> SUFFICES ASSUME length < 2 PROVE ~IsFrame
    OBVIOUS
  <2>1. 1 \in Cells /\ 1 >= length
    BY DEF Cells
  <2>2. recvbuf[1].letter = FALSE
    BY <1>2, <2>1 DEF Shaped, Byte
  <2> QED BY <2>2 DEF IsFrame
<1>4. BufferInv'
  <2>1. Shaped(recvbuf, length)'
    BY <1>2 DEF Check, Shaped
  <2>2. pc' = "test" => length \in 2 .. TransactionSize
    BY <1>3 DEF Check
  <2>3. pc' \in {"test", "clear"}
    BY DEF Check
  <2> QED BY <2>1, <2>2, <2>3 DEF BufferInv
<1>5. HandleStaysValid' /\ FrameShape'
  BY DEF IInv, Check, HandleStaysValid, FrameShape
<1> QED BY <1>1, <1>4, <1>5 DEF IInv

LEMMA TestIInv == IInv /\ Test => IInv'
<1> SUFFICES ASSUME IInv, Test PROVE IInv'
  OBVIOUS
<1>1. TypeOK' /\ HandleStaysValid'
  BY DEF IInv, TypeOK, Test, callbackVars, HandleStaysValid
<1>2. BufferInv' /\ FrameShape'
  BY DEF IInv, Test, BufferInv, Shaped, FrameShape
<1> QED BY <1>1, <1>2 DEF IInv

LEMMA WriteIInv == IInv /\ Write => IInv'
<1> USE SizeAssumption
<1> SUFFICES ASSUME IInv, Write PROVE IInv'
  OBVIOUS
<1>1. TypeOK' /\ HandleStaysValid' /\ BufferInv'
  BY DEF IInv, TypeOK, Write, callbackVars, HandleStaysValid, BufferInv
<1>2. PICK length \in 2 .. TransactionSize : Shaped(recvbuf, length)
  BY DEF IInv, BufferInv, Write
<1>3. ASSUME NEW k \in 0 .. WriteSize - 1
      PROVE  sent'.bytes[k].origin =
                CASE k < length -> "fresh"
                  [] k \in length .. BufferSize - 1 -> "filler"
                  [] OTHER -> "behind"
  <2>1. sent'.bytes[k] = IF k \in Cells THEN recvbuf[k] ELSE Byte("behind", FALSE)
    BY DEF Write, Forwarded
  <2>2. CASE k < length
    <3>1. k \in Cells /\ k \notin length .. BufferSize - 1
      BY <2>2 DEF Cells
    <3>2. recvbuf[k].origin = "fresh"
      BY <1>2, <2>2, <3>1 DEF Shaped
    <3> QED BY <2>1, <2>2, <3>1, <3>2
  <2>3. CASE k \in length .. BufferSize - 1
    <3>1. k \in Cells /\ k >= length /\ ~(k < length)
      BY <2>3 DEF Cells
    <3>2. recvbuf[k].origin = "filler"
      BY <1>2, <3>1 DEF Shaped, Byte
    <3> QED BY <2>1, <2>3, <3>1, <3>2
  <2>4. CASE k >= BufferSize
    BY <2>1, <2>4 DEF Cells, Byte
  <2> QED BY <2>2, <2>3, <2>4
<1>4. FrameShape'
  BY <1>3 DEF FrameShape
<1> QED BY <1>1, <1>4 DEF IInv

\* Whatever the callback does, the handle never becomes NULL again.
LEMMA CallbackIInv == IInv /\ Callback => IInv'
<1> SUFFICES ASSUME IInv, Callback PROVE IInv'
  OBVIOUS
<1>1. events \in Seq(Event) /\ events # <<>> /\ events' = Tail(events)
  BY DEF IInv, TypeOK, Callback, CloseEvent, SrvOpenEvent, OtherEvent, Took
<1>2. events' \in Seq(Event) /\ Head(events).handle \in Handles
  <2>1. events' \in Seq(Event) /\ Head(events) \in Event
    BY <1>1
  <2> QED BY <2>1 DEF Event
<1>3. handle' = handle \/ handle' \in Handles
  BY <1>2 DEF Callback, CloseEvent, SrvOpenEvent, OtherEvent, HandleAfterClose,
              HandleAfterOpen, callbackVars
<1>4. UNCHANGED <<pc, recvbuf, sent>>
  BY DEF Callback, CloseEvent, SrvOpenEvent, OtherEvent, loopVars
<1>5. TypeOK' /\ HandleStaysValid'
  BY <1>2, <1>3, <1>4 DEF IInv, TypeOK, HandleStaysValid
<1>6. BufferInv' /\ FrameShape'
  BY <1>4 DEF IInv, BufferInv, Shaped, FrameShape
<1> QED BY <1>5, <1>6 DEF IInv

\* The stack only adds events.
LEMMA StackIInv ==
    ASSUME IInv, NEW h \in Handles,
           Connect(h) \/ Disconnect(h) \/ Congest(h) \/ Send(h)
    PROVE  IInv'
<1>1. UNCHANGED <<pc, recvbuf, handle, sent>>
  BY DEF Connect, Disconnect, Congest, Send, loopVars, callbackVars
<1>2. events' \in Seq(Event)
  <2>1. PICK type \in {"srv_open", "close", "cong", "data"} : Announce(type, h)
    BY DEF Connect, Disconnect, Congest, Send
  <2>2. [type |-> type, handle |-> h] \in Event /\ events \in Seq(Event)
    BY DEF Event, IInv, TypeOK
  <2> QED BY <2>1, <2>2 DEF Announce
<1> QED BY <1>1, <1>2 DEF IInv, TypeOK, BufferInv, Shaped, HandleStaysValid, FrameShape

LEMMA NextIInv == IInv /\ [Next]_vars => IInv'
<1> SUFFICES ASSUME IInv, [Next]_vars PROVE IInv'
  OBVIOUS
<1>1. WriteEvent \/ UNCHANGED vars => IInv'
  BY DEF WriteEvent, vars, loopVars, callbackVars, IInv, TypeOK, BufferInv, Shaped,
         HandleStaysValid, FrameShape
<1>2. LoopStep => IInv'
  BY ClearIInv, CheckIInv, TestIInv, WriteIInv DEF LoopStep
<1> QED BY <1>1, <1>2, TransactionIInv, CallbackIInv, StackIInv DEF Next

\* The invariant of the bridge: the buffer holds one transaction at most.
THEOREM Invariance == Spec => []IInv
  BY InitIInv, NextIInv, PTL DEF Spec

\* Every frame forwarded is one transaction, filler and what lies behind.
THEOREM FramesShaped == Spec => []FrameShape
<1>1. IInv => FrameShape
  BY DEF IInv
<1> QED BY <1>1, Invariance, PTL

\* Between the test of the handle and its use the handle does not become NULL.
THEOREM HandleValid == Spec => []HandleStaysValid
<1>1. IInv => HandleStaysValid
  BY DEF IInv
<1> QED BY <1>1, Invariance, PTL
=============================================================================
