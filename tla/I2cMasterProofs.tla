-------------------------- MODULE I2cMasterProofs --------------------------
(***************************************************************************)
(* What the I2C driver of the MSP430 promises, for every length of a       *)
(* transfer, every time-out and every width of the clock, whatever the     *)
(* device refuses, holds or answers.                                       *)
(***************************************************************************)
EXTENDS I2cMaster, TLAPS

ControlOK ==
    /\ pc \in {"idle", "start", "start2", "while", "sleep", "cur", "cur2", "compare", "giveup",
           "abandon", "reset"}
    /\ result \in {"none", "ok", "timeout"}
    /\ state \in {"waiting", "writing", "reading"}
    /\ shift \in {"none", "address", "out", "byte", "in"}
    /\ isr \in {"none", "stop", "rxbuf", "start"}

NumbersOK == asked \in 0 .. Length /\ left \in 0 .. Length /\ moved \in 0 .. Length

FlagsOK ==
    /\ regWritten \in BOOLEAN
    /\ asleep \in BOOLEAN
    /\ refused \in BOOLEAN
    /\ tr \in BOOLEAN
    /\ stt \in BOOLEAN
    /\ stp \in BOOLEAN
    /\ txFull \in BOOLEAN
    /\ rxFull \in BOOLEAN
    /\ txIfg \in BOOLEAN
    /\ rxIfg \in BOOLEAN
    /\ nakIfg \in BOOLEAN

-----------------------------------------------------------------------------
(* The bytes of a call.                                                    *)

\* The bus is turned around, or about to be.
Receiving == shift = "in" \/ (stt /\ ~tr)

\* A byte is in RXBUF, or may still come.
Incoming == Receiving \/ rxIfg

\* The byte that the handler has counted and not yet stored.
Counted == IF isr = "rxbuf" THEN 1 ELSE 0

\* While bytes come in nothing goes out, the call lasts, and the handler
\* expects at least one; more than one, unless the STOP is prepared or the
\* handler waits to prepare it.
BusOK ==
    /\ shift = "address" => stt
    /\ shift = "in" => ~stt /\ ~tr
    /\ rxIfg => shift \in {"in", "none"} /\ ~stt /\ rxFull /\ isr # "rxbuf" /\ isr # "start"
    /\ Incoming => /\ state # "writing" /\ ~txIfg
                   /\ left >= 1
                   /\ pc # "idle" /\ (state = "waiting" => pc = "reset")
    /\ Receiving /\ (shift # "in" \/ rxIfg \/ ~stp) /\ isr # "start" => left >= 2
    /\ isr = "start" => left = 1 /\ state = "reading"
    /\ isr = "rxbuf" => rxFull /\ pc # "idle"
    /\ nakIfg => refused /\ ~Incoming

\* Every byte the caller asked for is moved or still expected; what ends a
\* call that is not refused is its last byte.
CountOK ==
    /\ moved + left + Counted <= asked
    /\ pc # "idle" => moved + left + Counted = asked
    /\ state = "reading" => left >= 1
    /\ pc \in {"idle", "reset"} => state = "waiting"
    /\ state = "waiting" /\ ~refused /\ pc \notin {"idle", "reset"} => left = 0
    /\ result = "ok" => pc = "idle"
    /\ result = "ok" /\ ~refused => moved = asked

TransferInv == ControlOK /\ NumbersOK /\ FlagsOK /\ BusOK /\ CountOK

LEMMA InitTransfer == Init => TransferInv
<1> SUFFICES ASSUME Init PROVE TransferInv
  OBVIOUS
<1> USE LengthAssumption DEF Init
<1>1. ControlOK
  BY DEF ControlOK
<1>2. FlagsOK
  BY DEF FlagsOK
<1>3. NumbersOK
  BY DEF NumbersOK
<1>4. BusOK
  BY DEF BusOK, Incoming, Receiving
<1>5. CountOK
  BY DEF CountOK, Counted
<1> QED BY <1>1, <1>2, <1>3, <1>4, <1>5 DEF TransferInv

LEMMA MainTransfer == TransferInv /\ (Call \/ Main) => TransferInv'
<1> SUFFICES ASSUME TransferInv, (Call \/ Main) PROVE TransferInv'
  OBVIOUS
<1> USE LengthAssumption DEF TransferInv, Awake, Irq
<1>1. CASE Call
  <2> USE <1>1 DEF Call
  <2>1. ControlOK'
    BY DEF ControlOK
  <2>2. FlagsOK'
    BY DEF FlagsOK
  <2>3. NumbersOK'
    BY DEF NumbersOK, ControlOK, FlagsOK, BusOK, CountOK, Receiving, Incoming, Counted
  <2>4. BusOK'
    BY DEF NumbersOK, ControlOK, FlagsOK, BusOK, CountOK, Receiving, Incoming
  <2>5. CountOK'
    <3>1. PICK a \in 1 .. Length : asked' = a /\ left' = a
      OBVIOUS
    <3>2. moved' = 0 /\ isr' = "none"
      OBVIOUS
    <3>3. state' # "waiting" /\ pc' = "start" /\ result' = "none"
      OBVIOUS
    <3> HIDE <1>1 DEF Call, TransferInv
    <3>4. moved' + left' + Counted' = asked' /\ moved' + left' + Counted' <= asked' /\ left' >= 1
      BY <3>1, <3>2 DEF Counted
    <3> QED BY <3>3, <3>4 DEF CountOK
  <2> QED BY <2>1, <2>2, <2>3, <2>4, <2>5
<1>2. CASE HalfClock
  <2> USE <1>2 DEF HalfClock, usci, world
  <2>1. ControlOK'
    BY DEF ControlOK
  <2>2. FlagsOK'
    BY DEF FlagsOK
  <2>3. NumbersOK'
    BY DEF NumbersOK, ControlOK, FlagsOK, BusOK, CountOK, Receiving, Incoming, Counted
  <2>4. BusOK'
    BY DEF NumbersOK, ControlOK, FlagsOK, BusOK, CountOK, Receiving, Incoming
  <2>5. CountOK'
    BY DEF NumbersOK, ControlOK, FlagsOK, BusOK, CountOK, Receiving, Incoming, Counted
  <2> QED BY <2>1, <2>2, <2>3, <2>4, <2>5
<1>3. CASE GetClock
  <2> USE <1>3 DEF GetClock, usci, world
  <2>1. ControlOK'
    BY DEF ControlOK
  <2>2. FlagsOK'
    BY DEF FlagsOK
  <2>3. NumbersOK'
    BY DEF NumbersOK, ControlOK, FlagsOK, BusOK, CountOK, Receiving, Incoming, Counted
  <2>4. BusOK'
    BY DEF NumbersOK, ControlOK, FlagsOK, BusOK, CountOK, Receiving, Incoming
  <2>5. CountOK'
    BY DEF NumbersOK, ControlOK, FlagsOK, BusOK, CountOK, Receiving, Incoming, Counted
  <2> QED BY <2>1, <2>2, <2>3, <2>4, <2>5
<1>4. CASE While
  <2> USE <1>4 DEF While, usci, world
  <2>1. ControlOK'
    BY DEF ControlOK
  <2>2. FlagsOK'
    BY DEF FlagsOK
  <2>3. NumbersOK'
    BY DEF NumbersOK, ControlOK, FlagsOK, BusOK, CountOK, Receiving, Incoming, Counted
  <2>4. BusOK'
    BY DEF NumbersOK, ControlOK, FlagsOK, BusOK, CountOK, Receiving, Incoming
  <2>5. CountOK'
    BY DEF NumbersOK, ControlOK, FlagsOK, BusOK, CountOK, Receiving, Incoming, Counted
  <2> QED BY <2>1, <2>2, <2>3, <2>4, <2>5
<1>5. CASE Sleep
  <2> USE <1>5 DEF Sleep, usci
  <2>1. ControlOK'
    BY DEF ControlOK
  <2>2. FlagsOK'
    BY DEF FlagsOK
  <2>3. NumbersOK'
    BY DEF NumbersOK, ControlOK, FlagsOK, BusOK, CountOK, Receiving, Incoming, Counted
  <2>4. BusOK'
    BY DEF NumbersOK, ControlOK, FlagsOK, BusOK, CountOK, Receiving, Incoming
  <2>5. CountOK'
    BY DEF NumbersOK, ControlOK, FlagsOK, BusOK, CountOK, Receiving, Incoming, Counted
  <2> QED BY <2>1, <2>2, <2>3, <2>4, <2>5
<1>6. CASE Compare
  <2> USE <1>6 DEF Compare, usci, world
  <2>1. ControlOK'
    BY DEF ControlOK
  <2>2. FlagsOK'
    BY DEF FlagsOK
  <2>3. NumbersOK'
    BY DEF NumbersOK, ControlOK, FlagsOK, BusOK, CountOK, Receiving, Incoming, Counted
  <2>4. BusOK'
    BY DEF NumbersOK, ControlOK, FlagsOK, BusOK, CountOK, Receiving, Incoming
  <2>5. CountOK'
    BY DEF NumbersOK, ControlOK, FlagsOK, BusOK, CountOK, Receiving, Incoming, Counted
  <2> QED BY <2>1, <2>2, <2>3, <2>4, <2>5
<1>7. CASE GiveUp
  <2> USE <1>7 DEF GiveUp, world
  <2>1. ControlOK'
    BY DEF ControlOK
  <2>2. FlagsOK'
    BY DEF FlagsOK
  <2>3. NumbersOK'
    BY DEF NumbersOK, ControlOK, FlagsOK, BusOK, CountOK, Receiving, Incoming, Counted
  <2>4. BusOK'
    BY DEF NumbersOK, ControlOK, FlagsOK, BusOK, CountOK, Receiving, Incoming
  <2>5. CountOK'
    BY DEF NumbersOK, ControlOK, FlagsOK, BusOK, CountOK, Receiving, Incoming, Counted
  <2> QED BY <2>1, <2>2, <2>3, <2>4, <2>5
<1>8. CASE Reset
  <2> USE <1>8 DEF Reset, world
  <2>1. ControlOK'
    BY DEF ControlOK
  <2>2. FlagsOK'
    BY DEF FlagsOK
  <2>3. NumbersOK'
    BY DEF NumbersOK, ControlOK, FlagsOK, BusOK, CountOK, Receiving, Incoming, Counted
  <2>4. BusOK'
    BY DEF NumbersOK, ControlOK, FlagsOK, BusOK, CountOK, Receiving, Incoming
  <2>5. CountOK'
    BY DEF NumbersOK, ControlOK, FlagsOK, BusOK, CountOK, Receiving, Incoming, Counted
  <2> QED BY <2>1, <2>2, <2>3, <2>4, <2>5
<1>9. CASE Abandon
  <2> USE <1>9 DEF Abandon, usci, world
  <2>1. ControlOK'
    BY DEF ControlOK
  <2>2. FlagsOK'
    BY DEF FlagsOK
  <2>3. NumbersOK'
    BY DEF NumbersOK, ControlOK, FlagsOK, BusOK, CountOK, Receiving, Incoming, Counted
  <2>4. BusOK'
    BY DEF NumbersOK, ControlOK, FlagsOK, BusOK, CountOK, Receiving, Incoming
  <2>5. CountOK'
    BY DEF NumbersOK, ControlOK, FlagsOK, BusOK, CountOK, Receiving, Incoming, Counted
  <2> QED BY <2>1, <2>2, <2>3, <2>4, <2>5
<1> QED BY <1>1, <1>2, <1>3, <1>4, <1>5, <1>6, <1>7, <1>8, <1>9 DEF Main

LEMMA IsrTransfer == TransferInv /\ Isr => TransferInv'
<1> SUFFICES ASSUME TransferInv, Isr PROVE TransferInv'
  OBVIOUS
<1> USE LengthAssumption DEF TransferInv
<1>1. CASE NakIsr
  <2> USE <1>1 DEF NakIsr, Handles, Returns, world
  <2>1. ControlOK'
    BY DEF ControlOK
  <2>2. FlagsOK'
    <3>1. UNCHANGED <<regWritten, refused, tr, stt, txFull, rxFull, txIfg, rxIfg>>
      OBVIOUS
    <3>2. stp' \in {stp, TRUE} /\ nakIfg' \in {nakIfg, FALSE} /\ asleep' \in {asleep, FALSE}
      OBVIOUS
    <3>4. FlagsOK
      OBVIOUS
    <3> HIDE DEF NakIsr, TransferInv
    <3>5. /\ regWritten' \in BOOLEAN /\ refused' \in BOOLEAN /\ tr' \in BOOLEAN /\ stt' \in BOOLEAN
          /\ txFull' \in BOOLEAN /\ rxFull' \in BOOLEAN /\ txIfg' \in BOOLEAN /\ rxIfg' \in BOOLEAN
      BY <3>1, <3>4, Zenon DEF FlagsOK
    <3>6. stp' \in BOOLEAN
      BY <3>2, <3>4, Zenon DEF FlagsOK
    <3>7. nakIfg' \in BOOLEAN
      BY <3>2, <3>4, Zenon DEF FlagsOK
    <3>8. asleep' \in BOOLEAN
      BY <3>2, <3>4, Zenon DEF FlagsOK
    <3> QED BY <3>5, <3>6, <3>7, <3>8, Zenon DEF FlagsOK
  <2>3. NumbersOK'
    BY DEF NumbersOK, ControlOK, FlagsOK, BusOK, CountOK, Receiving, Incoming, Counted
  <2>4. BusOK'
    BY DEF NumbersOK, ControlOK, FlagsOK, BusOK, CountOK, Receiving, Incoming
  <2>5. CountOK'
    BY DEF NumbersOK, ControlOK, FlagsOK, BusOK, CountOK, Receiving, Incoming, Counted
  <2> QED BY <2>1, <2>2, <2>3, <2>4, <2>5
<1>2. CASE RxFirst
  <2> USE <1>2 DEF RxFirst, Handles, RxBefore, world
  <2>1. ControlOK'
    BY DEF ControlOK
  <2>2. FlagsOK'
    <3>1. stp' \in BOOLEAN
      BY DEF FlagsOK
    <3>2. /\ UNCHANGED <<regWritten, asleep, refused, tr, stt, txFull, rxFull, txIfg, nakIfg>>
          /\ rxIfg' = FALSE
      OBVIOUS
    <3>4. FlagsOK
      OBVIOUS
    <3> HIDE DEF RxFirst, TransferInv
    <3> QED BY <3>1, <3>2, <3>4, Zenon DEF FlagsOK
  <2>3. NumbersOK'
    BY DEF NumbersOK, ControlOK, FlagsOK, BusOK, CountOK, Receiving, Incoming, Counted
  <2>4. BusOK'
    BY DEF NumbersOK, ControlOK, FlagsOK, BusOK, CountOK, Receiving, Incoming
  <2>5. CountOK'
    BY DEF NumbersOK, ControlOK, FlagsOK, BusOK, CountOK, Receiving, Incoming, Counted
  <2> QED BY <2>1, <2>2, <2>3, <2>4, <2>5
<1>3. CASE RxLast
  <2> USE <1>3 DEF RxLast, Returns, world
  <2>1. ControlOK'
    BY DEF ControlOK
  <2>2. FlagsOK'
    BY DEF FlagsOK
  <2>3. NumbersOK'
    BY DEF NumbersOK, ControlOK, FlagsOK, BusOK, CountOK, Receiving, Incoming, Counted
  <2>4. BusOK'
    BY DEF NumbersOK, ControlOK, FlagsOK, BusOK, CountOK, Receiving, Incoming
  <2>5. CountOK'
    BY DEF NumbersOK, ControlOK, FlagsOK, BusOK, CountOK, Receiving, Incoming, Counted
  <2> QED BY <2>1, <2>2, <2>3, <2>4, <2>5
<1>4. CASE TxIsr
  <2> USE <1>4 DEF TxIsr, Handles, Returns, world
  <2>1. ControlOK'
    BY DEF ControlOK
  <2>2. FlagsOK'
    <3>1. /\ refused' = refused /\ rxFull' = rxFull /\ rxIfg' = rxIfg /\ nakIfg' = nakIfg
          /\ txIfg' \in {txIfg, FALSE}
          /\ asleep' \in {asleep, FALSE}
      BY Zenon
    <3>2. regWritten' \in {regWritten, TRUE} /\ txFull' \in {txFull, TRUE} /\ stp' \in {stp, TRUE}
      BY Zenon
    <3>3. tr' \in BOOLEAN /\ stt' \in BOOLEAN
      BY DEF FlagsOK
    <3>4. FlagsOK
      OBVIOUS
    <3> HIDE DEF TxIsr, TransferInv
    <3>5. /\ refused' \in BOOLEAN /\ rxFull' \in BOOLEAN /\ rxIfg' \in BOOLEAN /\ nakIfg' \in BOOLEAN
      BY <3>1, <3>4, Zenon DEF FlagsOK
    <3>6. txIfg' \in BOOLEAN
      BY <3>1, <3>4, Zenon DEF FlagsOK
    <3>7. asleep' \in BOOLEAN
      BY <3>1, <3>4, Zenon DEF FlagsOK
    <3>8. regWritten' \in BOOLEAN
      BY <3>2, <3>4, Zenon DEF FlagsOK
    <3>9. txFull' \in BOOLEAN
      BY <3>2, <3>4, Zenon DEF FlagsOK
    <3>10. stp' \in BOOLEAN
      BY <3>2, <3>4, Zenon DEF FlagsOK
    <3> QED BY <3>3, <3>5, <3>6, <3>7, <3>8, <3>9, <3>10, Zenon DEF FlagsOK
  <2>3. NumbersOK'
    BY DEF NumbersOK, ControlOK, FlagsOK, BusOK, CountOK, Receiving, Incoming, Counted
  <2>4. BusOK'
    BY DEF NumbersOK, ControlOK, FlagsOK, BusOK, CountOK, Receiving, Incoming
  <2>5. CountOK'
    BY DEF NumbersOK, ControlOK, FlagsOK, BusOK, CountOK, Receiving, Incoming, Counted
  <2> QED BY <2>1, <2>2, <2>3, <2>4, <2>5
<1> QED BY <1>1, <1>2, <1>3, <1>4 DEF Isr, RxIsr

LEMMA BusTransfer == TransferInv /\ Bus => TransferInv'
<1> SUFFICES ASSUME TransferInv, Bus PROVE TransferInv'
  OBVIOUS
<1> USE LengthAssumption DEF TransferInv, program, world
<1>1. CASE StartCondition
  <2> USE <1>1 DEF StartCondition
  <2>1. ControlOK'
    BY DEF ControlOK
  <2>2. FlagsOK'
    BY DEF FlagsOK
  <2>3. NumbersOK'
    BY DEF NumbersOK, ControlOK, FlagsOK, BusOK, CountOK, Receiving, Incoming, Counted
  <2>4. BusOK'
    BY DEF NumbersOK, ControlOK, FlagsOK, BusOK, CountOK, Receiving, Incoming
  <2>5. CountOK'
    BY DEF NumbersOK, ControlOK, FlagsOK, BusOK, CountOK, Receiving, Incoming, Counted
  <2> QED BY <2>1, <2>2, <2>3, <2>4, <2>5
<1>2. CASE AddressAck
  <2> USE <1>2 DEF AddressAck
  <2>1. ControlOK'
    BY DEF ControlOK
  <2>2. FlagsOK'
    BY DEF FlagsOK
  <2>3. NumbersOK'
    BY DEF NumbersOK, ControlOK, FlagsOK, BusOK, CountOK, Receiving, Incoming, Counted
  <2>4. BusOK'
    BY DEF NumbersOK, ControlOK, FlagsOK, BusOK, CountOK, Receiving, Incoming
  <2>5. CountOK'
    BY DEF NumbersOK, ControlOK, FlagsOK, BusOK, CountOK, Receiving, Incoming, Counted
  <2> QED BY <2>1, <2>2, <2>3, <2>4, <2>5
<1>3. CASE ShiftOut
  <2> USE <1>3 DEF ShiftOut
  <2>1. ControlOK'
    BY DEF ControlOK
  <2>2. FlagsOK'
    BY DEF FlagsOK
  <2>3. NumbersOK'
    BY DEF NumbersOK, ControlOK, FlagsOK, BusOK, CountOK, Receiving, Incoming, Counted
  <2>4. BusOK'
    BY DEF NumbersOK, ControlOK, FlagsOK, BusOK, CountOK, Receiving, Incoming
  <2>5. CountOK'
    BY DEF NumbersOK, ControlOK, FlagsOK, BusOK, CountOK, Receiving, Incoming, Counted
  <2> QED BY <2>1, <2>2, <2>3, <2>4, <2>5
<1>4. CASE ByteAck
  <2> USE <1>4 DEF ByteAck
  <2>1. ControlOK'
    BY DEF ControlOK
  <2>2. FlagsOK'
    BY DEF FlagsOK
  <2>3. NumbersOK'
    BY DEF NumbersOK, ControlOK, FlagsOK, BusOK, CountOK, Receiving, Incoming, Counted
  <2>4. BusOK'
    BY DEF NumbersOK, ControlOK, FlagsOK, BusOK, CountOK, Receiving, Incoming
  <2>5. CountOK'
    BY DEF NumbersOK, ControlOK, FlagsOK, BusOK, CountOK, Receiving, Incoming, Counted
  <2> QED BY <2>1, <2>2, <2>3, <2>4, <2>5
<1>5. CASE Nak
  <2> USE <1>5 DEF Nak
  <2>1. ControlOK'
    BY DEF ControlOK
  <2>2. FlagsOK'
    BY DEF FlagsOK
  <2>3. NumbersOK'
    BY DEF NumbersOK, ControlOK, FlagsOK, BusOK, CountOK, Receiving, Incoming, Counted
  <2>4. BusOK'
    BY DEF NumbersOK, ControlOK, FlagsOK, BusOK, CountOK, Receiving, Incoming
  <2>5. CountOK'
    BY DEF NumbersOK, ControlOK, FlagsOK, BusOK, CountOK, Receiving, Incoming, Counted
  <2> QED BY <2>1, <2>2, <2>3, <2>4, <2>5
<1>6. CASE ShiftIn
  <2> USE <1>6 DEF ShiftIn
  <2>1. ControlOK'
    BY DEF ControlOK
  <2>2. FlagsOK'
    BY DEF FlagsOK
  <2>3. NumbersOK'
    BY DEF NumbersOK, ControlOK, FlagsOK, BusOK, CountOK, Receiving, Incoming, Counted
  <2>4. BusOK'
    BY DEF NumbersOK, ControlOK, FlagsOK, BusOK, CountOK, Receiving, Incoming
  <2>5. CountOK'
    BY DEF NumbersOK, ControlOK, FlagsOK, BusOK, CountOK, Receiving, Incoming, Counted
  <2> QED BY <2>1, <2>2, <2>3, <2>4, <2>5
<1>7. CASE StopCondition
  <2> USE <1>7 DEF StopCondition
  <2>1. ControlOK'
    BY DEF ControlOK
  <2>2. FlagsOK'
    BY DEF FlagsOK
  <2>3. NumbersOK'
    BY DEF NumbersOK, ControlOK, FlagsOK, BusOK, CountOK, Receiving, Incoming, Counted
  <2>4. BusOK'
    BY DEF NumbersOK, ControlOK, FlagsOK, BusOK, CountOK, Receiving, Incoming
  <2>5. CountOK'
    BY DEF NumbersOK, ControlOK, FlagsOK, BusOK, CountOK, Receiving, Incoming, Counted
  <2> QED BY <2>1, <2>2, <2>3, <2>4, <2>5
<1> QED BY <1>1, <1>2, <1>3, <1>4, <1>5, <1>6, <1>7 DEF Bus

THEOREM TransferInvariance == Spec => []TransferInv
<1>1. TransferInv /\ [Next]_vars => TransferInv'
  <2> SUFFICES ASSUME TransferInv, [Next]_vars PROVE TransferInv'
    OBVIOUS
  <2>1. CASE Tick
    <3> USE <2>1 DEF Tick, TransferInv, usci
    <3>1. ControlOK' /\ NumbersOK'
      BY DEF ControlOK, NumbersOK
    <3>2. FlagsOK'
      BY Zenon DEF FlagsOK
    <3>3. BusOK'
      BY DEF BusOK, Receiving, Incoming
    <3>4. CountOK'
      BY DEF CountOK, Counted
    <3> QED BY <3>1, <3>2, <3>3, <3>4
  <2>2. CASE UNCHANGED vars
    <3> USE <2>2 DEF vars, program, usci, world, TransferInv
    <3>1. ControlOK' /\ NumbersOK'
      BY DEF ControlOK, NumbersOK
    <3>2. FlagsOK'
      BY Zenon DEF FlagsOK
    <3>3. BusOK'
      BY DEF BusOK, Receiving, Incoming
    <3>4. CountOK'
      BY DEF CountOK, Counted
    <3> QED BY <3>1, <3>2, <3>3, <3>4
  <2> QED BY <2>1, <2>2, MainTransfer, IsrTransfer, BusTransfer DEF Next
<1> QED BY <1>1, InitTransfer, PTL DEF Spec

\* The bytes that may still come are never more than those the handler still
\* counts on, so that none is stored behind the caller's buffer.
THEOREM NothingStoredBehind == Spec => []NoOverrun
<1>1. TransferInv => NoOverrun
  BY DEF TransferInv, NumbersOK, CountOK, Counted, NoOverrun
<1> QED BY <1>1, TransferInvariance, PTL

-----------------------------------------------------------------------------
(* The time-out.                                                           *)

One(b) == IF b THEN 1 ELSE 0

\* The tick that came while the program was awake.
Late == One(ticked)

ClockTypeOK ==
    /\ pc \in {"idle", "start", "start2", "while", "sleep", "cur", "cur2", "compare", "giveup",
           "abandon", "reset"}
    /\ asleep \in BOOLEAN /\ ticked \in BOOLEAN
    /\ time \in Nat /\ begun \in Nat
    /\ asleep => pc = "cur" /\ ~ticked

\* When the call took its first reading, at t0, and how long it may have
\* waited since: it was not yet over when it last went to sleep.
Waited(t0) ==
    /\ t0 <= time
    /\ start = Timestamp(t0)
    /\ pc \in {"while", "sleep"} => time <= t0 + Timeout - 1 + Late
    /\ asleep => time <= t0 + Timeout
    /\ pc \in {"cur", "cur2", "compare", "giveup"} =>
         t0 <= time - Late /\ time <= t0 + Timeout + 1 + Late
    /\ pc = "cur2" => seen \in time - Late .. time
    /\ pc = "compare" => \E u \in time - Late .. time : cur = Timestamp(u)
    /\ pc = "giveup" => time >= t0 + Timeout

InLoop == pc \in {"while", "sleep", "cur", "cur2", "compare", "giveup"}

TimeInv ==
    /\ ClockTypeOK
    /\ pc \in {"start", "start2"} => time = begun + Late
    /\ pc = "start2" => seen \in begun .. time
    /\ InLoop /\ ~CarryNear => \E t0 \in begun .. begun + 1 : Waited(t0)

-----------------------------------------------------------------------------
(* The clock, read in two halves.                                          *)

LEMMA Division ==
    ASSUME NEW n \in Nat, NEW k \in Nat \ {0}
    PROVE  n % k = n - (n \div k) * k /\ n % k \in 0 .. k - 1 /\ n \div k \in Nat
  BY SMT

LEMMA Quotient ==
    ASSUME NEW k \in Nat \ {0}, NEW q \in Nat, NEW r \in 0 .. k - 1
    PROVE  (k * q + r) \div k = q /\ (k * q + r) % k = r
  BY SMT

\* The low word is that of the time itself, the high word counts its carries.
LEMMA Halves ==
    ASSUME NEW t \in Nat
    PROVE  /\ Timestamp(t) = Word * ((t \div Word) % Word) + (t % Word)
           /\ High(t) = (t \div Word) % Word
           /\ Low(t) = t % Word
           /\ Timestamp(t) \in 0 .. Width - 1
<1> USE ClockAssumption
<1> DEFINE q == t \div Word
           a == t % Word
           m == q % Word
           c == q \div Word
<1>1. q \in Nat /\ a \in 0 .. Word - 1 /\ t = Word * q + a
  <2>1. a = t - q * Word /\ a \in 0 .. Word - 1 /\ q \in Nat
    BY Division
  <2> HIDE DEF a, q
  <2> QED BY <2>1
<1>2. c \in Nat /\ m \in 0 .. Word - 1 /\ q = Word * c + m
  <2> HIDE DEF q
  <2>1. m = q - c * Word /\ m \in 0 .. Word - 1 /\ c \in Nat
    BY <1>1, Division
  <2> HIDE DEF m, c
  <2> QED BY <1>1, <2>1
<1> HIDE DEF q, a, m, c
<1>3. Width \in Nat \ {0} /\ Word * m + a \in 0 .. Width - 1
  <2>1. Word * m + a < Word * (m + 1)
    BY <1>1, <1>2
  <2>2. Word * (m + 1) <= Word * Word
    BY <1>2
  <2> QED BY <1>1, <1>2, <2>1, <2>2 DEF Width
<1>4. t = Width * c + (Word * m + a)
  BY <1>1, <1>2 DEF Width
<1>5. Timestamp(t) = Word * m + a
  BY <1>2, <1>3, <1>4, Quotient DEF Timestamp
<1>6. (Word * m + a) \div Word = m /\ (Word * m + a) % Word = a
  BY <1>1, <1>2, Quotient
<1>7. High(t) = m /\ Low(t) = a
  BY <1>5, <1>6, Zenon DEF High, Low
<1>8. Timestamp(t) = Word * m + a /\ Timestamp(t) \in 0 .. Width - 1
  BY <1>3, <1>5, Zenon
<1> QED BY <1>7, <1>8, Zenon DEF a, m, q

\* Without a carry in between, readings are as far apart as their times.
LEMMA Steady ==
    ASSUME NEW t \in Nat, NEW u \in Nat, t \div Word = u \div Word
    PROVE  /\ Timestamp(u) - Timestamp(t) = u - t
           /\ High(t) = High(u)
<1> USE ClockAssumption
<1> DEFINE q == t \div Word
           m == q % Word
<1>1. t % Word = t - q * Word /\ u % Word = u - q * Word
  BY Division
<1>2. q \in Nat /\ m \in Nat /\ t % Word \in Nat /\ u % Word \in Nat
  BY Division
<1>3. Timestamp(t) = Word * m + (t % Word) /\ Timestamp(u) = Word * m + (u % Word)
  BY Halves, Zenon
<1>4. High(t) = High(u)
  BY Halves, Zenon
<1> HIDE DEF q, m
<1> QED BY <1>1, <1>2, <1>3, <1>4

\* The call lasts within one round of the low word, unless a carry is near.
LEMMA NoCarry ==
    ASSUME NEW b \in Nat, NEW t \in Nat, b <= t, \A u \in b + 1 .. t : u % Word # 0
    PROVE  t \div Word = b \div Word
<1> USE ClockAssumption
<1> DEFINE q == t \div Word
           p == b \div Word
<1>1. q \in Nat /\ p \in Nat /\ q * Word <= t /\ t < q * Word + Word
      /\ p * Word <= b /\ b < p * Word + Word
  BY Division
<1>2. (Word * q) % Word = 0
  <2> HIDE DEF q
  <2>1. (Word * q + 0) % Word = 0
    BY <1>1, Quotient
  <2> QED BY <1>1, <2>1
<1> HIDE DEF q, p
<1>3. ~(q < p)
  <2> SUFFICES ASSUME q < p PROVE FALSE
    OBVIOUS
  <2>1. (q + 1) * Word <= p * Word
    BY <1>1
  <2> QED BY <1>1, <2>1
<1>4. ~(q > p)
  <2> SUFFICES ASSUME q > p PROVE FALSE
    OBVIOUS
  <2>1. (p + 1) * Word <= q * Word
    BY <1>1
  <2>2. Word * q \in b + 1 .. t
    BY <1>1, <2>1
  <2> QED BY <1>2, <2>2
<1> QED BY <1>1, <1>3, <1>4 DEF q, p

LEMMA SameRound ==
    ASSUME begun \in Nat, ~CarryNear, NEW t \in begun .. begun + Timeout + 3
    PROVE  t \in Nat /\ t \div Word = begun \div Word
<1> USE ClockAssumption
<1>1. t \in Nat /\ begun <= t
  OBVIOUS
<1>2. \A u \in begun + 1 .. t : u \in begun + 1 .. begun + Timeout + 3
  OBVIOUS
<1>3. \A u \in begun + 1 .. t : u % Word # 0
  BY <1>2 DEF CarryNear
<1> QED BY <1>1, <1>3, NoCarry

\* A tick in the middle of a reading makes it the earlier or the later time.
LEMMA ReadingIsATime ==
    ASSUME NEW t \in Nat, time \in Nat, t \div Word = time \div Word
    PROVE  Readings(t) = {Timestamp(t), Timestamp(time)}
<1> USE ClockAssumption
<1>1. /\ High(t) = High(time)
      /\ Timestamp(t) = Word * High(t) + Low(t)
      /\ Timestamp(time) = Word * High(time) + Low(time)
  BY Halves, Steady, Zenon
<1>2. High(t) \in Nat /\ Low(t) \in Nat /\ Low(time) \in Nat
  <2>1. t \div Word \in Nat /\ t % Word \in Nat /\ time % Word \in Nat
    BY Division
  <2>2. (t \div Word) % Word \in Nat
    BY <2>1, Division
  <2>3. High(t) = (t \div Word) % Word /\ Low(t) = t % Word /\ Low(time) = time % Word
    BY Halves, Zenon
  <2> QED BY <2>1, <2>2, <2>3, Zenon
<1>3. High(time) * Word + Low(t) = Timestamp(t) /\ High(t) * Word + Low(time) = Timestamp(time)
  BY <1>1, <1>2
<1> QED BY <1>3, Zenon DEF Readings

\* Neither the sum with the time-out overflows, nor the clock.
LEMMA ExpiryIsExact ==
    ASSUME NEW t \in Nat, NEW u \in Nat,
           u \div Word = t \div Word, (t + Timeout) \div Word = t \div Word
    PROVE  Timestamp(u) >= (Timestamp(t) + Timeout) % Width <=> u >= t + Timeout
<1> USE ClockAssumption
<1>1. t + Timeout \in Nat
  OBVIOUS
<1>2. Timestamp(t + Timeout) - Timestamp(t) = Timeout
  <2>1. Timestamp(t + Timeout) - Timestamp(t) = (t + Timeout) - t
    BY <1>1, Steady
  <2> QED BY <2>1
<1>3. Timestamp(u) - Timestamp(t) = u - t
  BY Steady
<1>4. /\ Timestamp(t) \in 0 .. Width - 1 /\ Timestamp(u) \in 0 .. Width - 1
      /\ Timestamp(t + Timeout) \in 0 .. Width - 1
  BY <1>1, Halves
<1>5. Width \in Nat \ {0}
  BY DEF Width
<1>6. Timestamp(t) + Timeout = Timestamp(t + Timeout)
  BY <1>2, <1>4, <1>5
<1> DEFINE s == Timestamp(t + Timeout)
<1>7. s % Width = s
  <2> HIDE DEF s
  <2>1. s \in 0 .. Width - 1
    BY <1>4 DEF s
  <2>2. (Width * 0 + s) % Width = s
    BY <1>5, <2>1, Quotient
  <2>3. Width * 0 + s = s
    BY <1>5, <2>1
  <2> QED BY <2>2, <2>3
<1> QED BY <1>3, <1>4, <1>5, <1>6, <1>7

-----------------------------------------------------------------------------
(* What each step does to the waiting of a call.                           *)

\* The interrupt handlers of the bus, and the bus, may wake the program.
LEMMA BusStepsWake ==
    ASSUME Isr \/ Bus \/ UNCHANGED vars
    PROVE  /\ UNCHANGED <<pc, start, seen, cur, time, ticked, begun>>
           /\ asleep' \in {asleep, FALSE}
<1>1. CASE Isr
  BY <1>1, Zenon DEF Isr, NakIsr, RxIsr, RxFirst, RxLast, TxIsr, Returns, world
<1>2. CASE Bus
  BY <1>2, Zenon DEF Bus, StartCondition, AddressAck, ShiftOut, ByteAck, Nak, ShiftIn, StopCondition,
                     program, world
<1>3. CASE UNCHANGED vars
  BY <1>3, Zenon DEF vars, program, usci, world
<1> QED BY <1>1, <1>2, <1>3

LEMMA WakeTime ==
    ASSUME TimeInv, UNCHANGED <<pc, start, seen, cur, time, ticked, begun>>, asleep' \in {asleep, FALSE}
    PROVE  TimeInv'
<1>1. ClockTypeOK'
  <2>1. asleep' => asleep
    BY Zenon
  <2>2. asleep' \in BOOLEAN
    BY Zenon DEF TimeInv, ClockTypeOK
  <2> QED BY <2>1, <2>2, Zenon DEF TimeInv, ClockTypeOK
<1>2. /\ pc' \in {"start", "start2"} => time' = begun' + Late'
      /\ pc' = "start2" => seen' \in begun' .. time'
  BY DEF TimeInv, Late
<1>3. ASSUME InLoop', ~CarryNear' PROVE \E t0 \in begun' .. begun' + 1 : Waited(t0)'
  <2>1. InLoop /\ ~CarryNear
    BY <1>3 DEF InLoop, CarryNear
  <2>2. PICK t0 \in begun .. begun + 1 : Waited(t0)
    BY <2>1 DEF TimeInv
  <2>3. Waited(t0)'
    <3>1. asleep' => asleep
      BY Zenon
    <3>2. Late' = Late
      BY Zenon DEF Late
    <3> QED BY <2>2, <3>1, <3>2, Zenon DEF Waited
  <2> QED BY <2>2, <2>3
<1> QED BY <1>1, <1>2, <1>3 DEF TimeInv

LEMMA TickTime == ASSUME TimeInv, Tick PROVE TimeInv'
<1> USE ClockAssumption
<1>1. /\ UNCHANGED <<pc, start, seen, cur, begun>>
      /\ time' = time + 1 /\ asleep' = FALSE
      /\ ticked' = (~asleep /\ pc # "idle")
      /\ asleep \/ ~ticked
  BY DEF Tick
<1>2. ticked' \in BOOLEAN
  BY <1>1
<1>3. ClockTypeOK /\ ClockTypeOK'
  <2>1. ClockTypeOK
    BY DEF TimeInv
  <2>2. time' \in Nat /\ begun' \in Nat
    BY <1>1, <2>1 DEF ClockTypeOK
  <2> QED BY <1>1, <1>2, <2>1, <2>2, Zenon DEF ClockTypeOK
<1>4. Late \in {0, 1} /\ (~asleep => Late = 0) /\ (asleep => Late = 0)
  BY <1>1, <1>3 DEF Late, One, ClockTypeOK
<1>5. Late' = IF ~asleep /\ pc # "idle" THEN 1 ELSE 0
  BY <1>1 DEF Late, One
<1>6. /\ pc' \in {"start", "start2"} => time' = begun' + Late'
      /\ pc' = "start2" => seen' \in begun' .. time'
  BY <1>1, <1>3, <1>4, <1>5 DEF TimeInv, ClockTypeOK
<1>7. ASSUME InLoop', ~CarryNear' PROVE \E t0 \in begun' .. begun' + 1 : Waited(t0)'
  <2>1. InLoop /\ ~CarryNear
    BY <1>1, <1>7 DEF InLoop, CarryNear
  <2>2. PICK t0 \in begun .. begun + 1 : Waited(t0)
    BY <2>1 DEF TimeInv
  <2>3. Waited(t0)'
    BY <1>1, <1>3, <1>4, <1>5, <2>1, <2>2 DEF Waited, ClockTypeOK, InLoop
  <2> QED BY <1>1, <2>2, <2>3
<1> QED BY <1>3, <1>6, <1>7 DEF TimeInv

\* The steps of the program outside the loop.
LEMMA OutsideTime == ASSUME TimeInv, Call \/ GiveUp \/ Abandon \/ Reset PROVE TimeInv'
<1>1. ~asleep /\ ClockTypeOK
  BY DEF TimeInv, Call, GiveUp, Abandon, Reset, Awake
<1>2. time' = time /\ begun' \in {begun, time} /\ asleep' = asleep /\ ticked' \in {ticked, FALSE}
  BY DEF Call, GiveUp, Abandon, Reset, usci, world
<1>3. pc' \in {"start", "abandon", "reset", "idle"}
  BY DEF Call, GiveUp, Abandon, Reset
<1>4. pc' = "start" => begun' = time /\ ticked' = FALSE
  BY DEF Call, GiveUp, Abandon, Reset
<1>5. ClockTypeOK'
  BY <1>1, <1>2, <1>3, Zenon DEF ClockTypeOK
<1>6. pc' = "start" => time' = begun' + Late'
  BY <1>1, <1>2, <1>4 DEF Late, One, ClockTypeOK
<1> QED BY <1>3, <1>5, <1>6 DEF TimeInv, InLoop

LEMMA HalfClockTime == ASSUME TimeInv, HalfClock PROVE TimeInv'
<1>1. ~asleep /\ ClockTypeOK
  BY DEF TimeInv, HalfClock, Awake
<1>2. UNCHANGED <<start, cur, asleep, time, ticked, begun>> /\ seen' = time
  BY DEF HalfClock, world
<1>3. \/ pc = "start" /\ pc' = "start2"
      \/ pc = "cur" /\ pc' = "cur2"
  BY DEF HalfClock
<1>4. ClockTypeOK'
  BY <1>1, <1>2, <1>3, Zenon DEF ClockTypeOK
<1>5. Late' = Late /\ Late \in {0, 1}
  BY <1>2 DEF Late, One
<1>6. pc = "start" => time' = begun' + Late' /\ seen' \in begun' .. time'
  BY <1>1, <1>2, <1>5 DEF TimeInv, ClockTypeOK
<1>7. ASSUME InLoop', ~CarryNear' PROVE \E t0 \in begun' .. begun' + 1 : Waited(t0)'
  <2>1. pc = "cur" /\ pc' = "cur2" /\ ~CarryNear
    BY <1>2, <1>3, <1>7 DEF InLoop, CarryNear
  <2>2. PICK t0 \in begun .. begun + 1 : Waited(t0)
    BY <2>1 DEF TimeInv, InLoop
  <2>3. Waited(t0)'
    BY <1>1, <1>2, <1>5, <2>1, <2>2 DEF Waited, ClockTypeOK
  <2> QED BY <1>2, <2>2, <2>3
<1> QED BY <1>3, <1>4, <1>6, <1>7 DEF TimeInv

LEMMA GetClockTime == ASSUME TimeInv, GetClock PROVE TimeInv'
<1> USE ClockAssumption
<1>1. ~asleep /\ ClockTypeOK
  BY DEF TimeInv, GetClock, Awake
<1>2. UNCHANGED <<asleep, time, ticked, begun>>
  BY DEF GetClock, world
<1>3. \/ pc = "start2" /\ start' \in Readings(seen) /\ pc' = "while"
      \/ pc = "cur2" /\ cur' \in Readings(seen) /\ pc' = "compare" /\ start' = start
  BY DEF GetClock
<1>4. ClockTypeOK'
  BY <1>1, <1>2, <1>3, Zenon DEF ClockTypeOK
<1>5. Late' = Late /\ Late \in {0, 1}
  BY <1>2 DEF Late, One
<1>6. ASSUME ~CarryNear' PROVE \E t0 \in begun' .. begun' + 1 : Waited(t0)'
  <2>1. ~CarryNear /\ begun \in Nat /\ time \in Nat
    BY <1>1, <1>2, <1>6 DEF CarryNear, ClockTypeOK
  <2>2. CASE pc = "start2"
    <3>1. time = begun + Late /\ seen \in begun .. time
      BY <2>2 DEF TimeInv
    <3>2. seen \in begun .. begun + Timeout + 3 /\ time \in begun .. begun + Timeout + 3
      BY <1>5, <2>1, <3>1
    <3>3. Readings(seen) = {Timestamp(seen), Timestamp(time)}
      BY <2>1, <3>2, SameRound, ReadingIsATime
    <3>4. PICK t0 \in {seen, time} : start' = Timestamp(t0)
      BY <1>3, <2>2, <3>3
    <3>5. t0 \in begun .. begun + 1 /\ t0 <= time /\ time <= t0 + Timeout - 1 + Late
      BY <1>5, <2>1, <3>1
    <3>6. pc' = "while" /\ ~asleep'
      BY <1>1, <1>2, <1>3, <2>2
    <3>7. Waited(t0)'
      BY <1>2, <1>5, <3>4, <3>5, <3>6 DEF Waited
    <3> QED BY <1>2, <3>5, <3>7
  <2>3. CASE pc = "cur2"
    <3>1. PICK t0 \in begun .. begun + 1 : Waited(t0)
      BY <2>1, <2>3 DEF TimeInv, InLoop
    <3>2. /\ seen \in time - Late .. time
          /\ t0 <= time - Late /\ time <= t0 + Timeout + 1 + Late
      BY <2>3, <3>1 DEF Waited
    <3>3. seen \in begun .. begun + Timeout + 3 /\ time \in begun .. begun + Timeout + 3
      BY <1>5, <2>1, <3>2
    <3>4. Readings(seen) = {Timestamp(seen), Timestamp(time)}
      BY <2>1, <3>3, SameRound, ReadingIsATime
    <3>5. PICK u \in {seen, time} : cur' = Timestamp(u)
      BY <1>3, <2>3, <3>4
    <3>6. u \in time - Late .. time
      BY <1>5, <2>1, <3>2
    <3>7. pc' = "compare" /\ start' = start /\ ~asleep'
      BY <1>1, <1>2, <1>3, <2>3
    <3>8. start = Timestamp(t0) /\ t0 <= time
      BY <3>1 DEF Waited
    <3>9. Waited(t0)'
      BY <1>2, <1>5, <3>2, <3>5, <3>6, <3>7, <3>8 DEF Waited
    <3> QED BY <1>2, <3>9
  <2> QED BY <1>3, <2>2, <2>3
<1> QED BY <1>3, <1>4, <1>6 DEF TimeInv

LEMMA LoopTime == ASSUME TimeInv, While \/ Sleep PROVE TimeInv'
<1>1. ~asleep /\ ClockTypeOK
  BY DEF TimeInv, While, Sleep, Awake
<1>2. UNCHANGED <<time, begun>> /\ pc' \in {"idle", "sleep", "cur"}
  BY DEF While, Sleep, world
<1>3. ASSUME pc' # "idle"
      PROVE  /\ start' = start
             /\ \/ pc = "while" /\ pc' = "sleep" /\ asleep' = asleep /\ ticked' = ticked
                \/ pc = "sleep" /\ pc' = "cur" /\ asleep' = TRUE /\ ticked' = FALSE
  BY <1>3 DEF While, Sleep, world
<1>4. asleep' \in BOOLEAN /\ ticked' \in BOOLEAN /\ (asleep' => pc' = "cur" /\ ~ticked')
  <2>1. CASE While
    <3>1. asleep' = asleep /\ ticked' = ticked
      BY <2>1, Zenon DEF While, world
    <3> QED BY <1>1, <3>1, Zenon DEF ClockTypeOK
  <2>2. CASE Sleep
    <3>1. asleep' = TRUE /\ ticked' = FALSE /\ pc' = "cur"
      BY <2>2, Zenon DEF Sleep
    <3> QED BY <3>1, Zenon
  <2> QED BY <2>1, <2>2
<1>5. ClockTypeOK'
  BY <1>1, <1>2, <1>4, Zenon DEF ClockTypeOK
<1>6. ASSUME InLoop', ~CarryNear' PROVE \E t0 \in begun' .. begun' + 1 : Waited(t0)'
  <2>1. pc' # "idle" /\ pc \in {"while", "sleep"} /\ ~CarryNear
    BY <1>2, <1>3, <1>6 DEF InLoop, CarryNear
  <2>2. PICK t0 \in begun .. begun + 1 : Waited(t0)
    BY <2>1 DEF TimeInv, InLoop
  <2>3. start = Timestamp(t0) /\ t0 <= time /\ time <= t0 + Timeout - 1 + Late
    BY <2>1, <2>2 DEF Waited
  <2>4. Waited(t0)'
    <3>1. CASE pc' = "sleep"
      BY <1>1, <1>2, <1>3, <2>3, <3>1 DEF Waited, Late
    <3>2. CASE pc' = "cur"
      <4>1. start' = start /\ time' = time /\ ticked' = FALSE
        BY <1>2, <1>3, <3>2
      <4>2. Late' = 0 /\ Late \in {0, 1}
        BY <4>1 DEF Late, One
      <4>3. t0 \in Int /\ time \in Int
        BY <1>1 DEF ClockTypeOK
      <4> QED BY ClockAssumption, <2>3, <3>2, <4>1, <4>2, <4>3 DEF Waited
    <3> QED BY <1>2, <2>1, <3>1, <3>2
  <2> QED BY <1>2, <2>2, <2>4
<1> QED BY <1>2, <1>5, <1>6 DEF TimeInv

LEMMA CompareTime == ASSUME TimeInv, Compare PROVE TimeInv'
<1> USE ClockAssumption
<1>1. ~asleep /\ ClockTypeOK /\ pc = "compare"
  BY DEF TimeInv, Compare, Awake
<1>2. UNCHANGED <<start, asleep, time, ticked, begun>>
  BY DEF Compare, world
<1>3. \/ Expired /\ pc' = "giveup"
      \/ ~Expired /\ pc' = "while"
  BY DEF Compare
<1>4. ClockTypeOK'
  BY <1>1, <1>2, <1>3, Zenon DEF ClockTypeOK
<1>5. Late' = Late /\ Late \in {0, 1}
  BY <1>2 DEF Late, One
<1>6. ASSUME ~CarryNear' PROVE \E t0 \in begun' .. begun' + 1 : Waited(t0)'
  <2>1. ~CarryNear /\ begun \in Nat /\ time \in Nat
    BY <1>1, <1>2, <1>6 DEF CarryNear, ClockTypeOK
  <2>2. PICK t0 \in begun .. begun + 1 : Waited(t0)
    BY <1>1, <2>1 DEF TimeInv, InLoop
  <2>3. /\ start = Timestamp(t0) /\ t0 <= time
        /\ t0 <= time - Late /\ time <= t0 + Timeout + 1 + Late
    BY <1>1, <2>2 DEF Waited
  <2>4. PICK u \in time - Late .. time : cur = Timestamp(u)
    BY <1>1, <2>2 DEF Waited
  <2>5. /\ t0 \in begun .. begun + Timeout + 3 /\ u \in begun .. begun + Timeout + 3
        /\ t0 + Timeout \in begun .. begun + Timeout + 3
    BY <1>5, <2>1, <2>3
  <2>6. /\ t0 \in Nat /\ u \in Nat
        /\ u \div Word = t0 \div Word /\ (t0 + Timeout) \div Word = t0 \div Word
    BY <2>1, <2>5, SameRound
  <2>7. Expired <=> u >= t0 + Timeout
    BY <2>3, <2>4, <2>6, ExpiryIsExact DEF Expired
  <2>8. Waited(t0)'
    <3>1. CASE Expired
      <4>1. pc' = "giveup" /\ time >= t0 + Timeout
        BY <1>3, <2>1, <2>6, <2>7, <3>1
      <4> QED BY <1>1, <1>2, <1>5, <2>3, <4>1 DEF Waited
    <3>2. CASE ~Expired
      <4>1. pc' = "while" /\ time <= t0 + Timeout - 1 + Late
        BY <1>3, <1>5, <2>1, <2>6, <2>7, <3>2
      <4> QED BY <1>1, <1>2, <1>5, <2>3, <4>1 DEF Waited
    <3> QED BY <3>1, <3>2
  <2> QED BY <1>2, <2>2, <2>8
<1> QED BY <1>3, <1>4, <1>6 DEF TimeInv

LEMMA TimeInvariance == Spec => []TimeInv
<1>1. Init => TimeInv
  BY TimeAssumption DEF Init, TimeInv, ClockTypeOK, InLoop
<1>2. TimeInv /\ [Next]_vars => TimeInv'
  <2> SUFFICES ASSUME TimeInv, [Next]_vars PROVE TimeInv'
    OBVIOUS
  <2>1. CASE Isr \/ Bus \/ UNCHANGED vars
    BY <2>1, BusStepsWake, WakeTime
  <2>2. CASE Call \/ Main
    BY <2>2, OutsideTime, HalfClockTime, GetClockTime, LoopTime, CompareTime DEF Main
  <2>3. CASE Tick
    BY <2>3, TickTime
  <2> QED BY <2>1, <2>2, <2>3 DEF Next
<1> QED BY <1>1, <1>2, PTL DEF Spec

\* A device is given up neither early nor more than three ticks late, for every
\* time-out and every width of the clock, unless the low word carries while the
\* call waits.
THEOREM GivenUpInTime == Spec => []Patient
<1>1. TimeInv => Patient
  <2> SUFFICES ASSUME TimeInv, pc = "giveup", ~CarryNear PROVE GaveUpInTime
    BY DEF Patient
  <2>1. PICK t0 \in begun .. begun + 1 : Waited(t0)
    BY DEF TimeInv, InLoop
  <2>2. time \in Nat /\ begun \in Nat /\ Late \in {0, 1}
    BY DEF TimeInv, ClockTypeOK, Late, One
  <2>3. time >= t0 + Timeout /\ time <= t0 + Timeout + 1 + Late
    BY <2>1 DEF Waited
  <2> QED BY ClockAssumption, <2>2, <2>3 DEF GaveUpInTime
<1> QED BY <1>1, TimeInvariance, PTL

-----------------------------------------------------------------------------
(* The driver implements a call of I2cCall.                                *)

AskedOK == pc # "idle" \/ result = "ok" => asked >= 1

\* Bytes come in for a read only.
ReadsOK ==
    /\ reads \in BOOLEAN
    /\ state = "reading" => reads
    /\ state = "writing" => ~reads
    /\ Incoming \/ isr = "rxbuf" => reads

\* Once a byte came in, nothing is sent any more that a device could refuse.
TurnedOK ==
    reads /\ (moved > 0 \/ isr = "rxbuf" \/ rxIfg) =>
        shift \in {"in", "none"} /\ ~stt /\ ~txIfg /\ isr # "start"

\* After a refusal no byte moves, and the call ends.
RefusedOK ==
    refused => /\ shift \in {"out", "none"} /\ ~stt /\ ~txFull /\ ~txIfg
               /\ ~Incoming /\ isr # "rxbuf"
               /\ nakIfg \/ state = "waiting"

\* A call that was given up leaves nothing behind in the peripheral.
QuietOK ==
    pc = "idle" /\ result # "ok" =>
        shift = "none" /\ ~stt /\ ~txFull /\ ~Irq /\ isr = "none"

CallInv == AskedOK /\ ReadsOK /\ TurnedOK /\ RefusedOK /\ QuietOK

LEMMA MainCall == ASSUME TransferInv, CallInv, Call \/ Main PROVE CallInv'
<1> USE LengthAssumption DEF TransferInv, CallInv, Irq, Awake
<1>1. CASE Call
  <2> USE <1>1 DEF Call
  <2>1. AskedOK'
    BY DEF AskedOK, ReadsOK, TurnedOK, RefusedOK, QuietOK, ControlOK, NumbersOK, FlagsOK, BusOK, CountOK, Incoming, Receiving
  <2>2. ReadsOK'
    BY DEF AskedOK, ReadsOK, TurnedOK, RefusedOK, QuietOK, ControlOK, NumbersOK, FlagsOK, BusOK, CountOK, Incoming, Receiving
  <2>3. TurnedOK'
    BY DEF AskedOK, ReadsOK, TurnedOK, RefusedOK, QuietOK, ControlOK, NumbersOK, FlagsOK, BusOK, CountOK, Incoming, Receiving
  <2>4. RefusedOK'
    BY DEF AskedOK, ReadsOK, TurnedOK, RefusedOK, QuietOK, ControlOK, NumbersOK, FlagsOK, BusOK, CountOK, Incoming, Receiving
  <2>5. QuietOK'
    BY DEF AskedOK, ReadsOK, TurnedOK, RefusedOK, QuietOK, ControlOK, NumbersOK, FlagsOK, BusOK, CountOK, Incoming, Receiving
  <2> QED BY <2>1, <2>2, <2>3, <2>4, <2>5
<1>2. CASE HalfClock
  <2> USE <1>2 DEF HalfClock, usci, world
  <2>1. AskedOK'
    BY DEF AskedOK, ReadsOK, TurnedOK, RefusedOK, QuietOK, ControlOK, NumbersOK, FlagsOK, BusOK, CountOK, Incoming, Receiving
  <2>2. ReadsOK'
    BY DEF AskedOK, ReadsOK, TurnedOK, RefusedOK, QuietOK, ControlOK, NumbersOK, FlagsOK, BusOK, CountOK, Incoming, Receiving
  <2>3. TurnedOK'
    BY DEF AskedOK, ReadsOK, TurnedOK, RefusedOK, QuietOK, ControlOK, NumbersOK, FlagsOK, BusOK, CountOK, Incoming, Receiving
  <2>4. RefusedOK'
    BY DEF AskedOK, ReadsOK, TurnedOK, RefusedOK, QuietOK, ControlOK, NumbersOK, FlagsOK, BusOK, CountOK, Incoming, Receiving
  <2>5. QuietOK'
    BY DEF AskedOK, ReadsOK, TurnedOK, RefusedOK, QuietOK, ControlOK, NumbersOK, FlagsOK, BusOK, CountOK, Incoming, Receiving
  <2> QED BY <2>1, <2>2, <2>3, <2>4, <2>5
<1>3. CASE GetClock
  <2> USE <1>3 DEF GetClock, usci, world
  <2>1. AskedOK'
    BY DEF AskedOK, ReadsOK, TurnedOK, RefusedOK, QuietOK, ControlOK, NumbersOK, FlagsOK, BusOK, CountOK, Incoming, Receiving
  <2>2. ReadsOK'
    BY DEF AskedOK, ReadsOK, TurnedOK, RefusedOK, QuietOK, ControlOK, NumbersOK, FlagsOK, BusOK, CountOK, Incoming, Receiving
  <2>3. TurnedOK'
    BY DEF AskedOK, ReadsOK, TurnedOK, RefusedOK, QuietOK, ControlOK, NumbersOK, FlagsOK, BusOK, CountOK, Incoming, Receiving
  <2>4. RefusedOK'
    BY DEF AskedOK, ReadsOK, TurnedOK, RefusedOK, QuietOK, ControlOK, NumbersOK, FlagsOK, BusOK, CountOK, Incoming, Receiving
  <2>5. QuietOK'
    BY DEF AskedOK, ReadsOK, TurnedOK, RefusedOK, QuietOK, ControlOK, NumbersOK, FlagsOK, BusOK, CountOK, Incoming, Receiving
  <2> QED BY <2>1, <2>2, <2>3, <2>4, <2>5
<1>4. CASE While
  <2> USE <1>4 DEF While, usci, world
  <2>1. AskedOK'
    BY DEF AskedOK, ReadsOK, TurnedOK, RefusedOK, QuietOK, ControlOK, NumbersOK, FlagsOK, BusOK, CountOK, Incoming, Receiving
  <2>2. ReadsOK'
    BY DEF AskedOK, ReadsOK, TurnedOK, RefusedOK, QuietOK, ControlOK, NumbersOK, FlagsOK, BusOK, CountOK, Incoming, Receiving
  <2>3. TurnedOK'
    BY DEF AskedOK, ReadsOK, TurnedOK, RefusedOK, QuietOK, ControlOK, NumbersOK, FlagsOK, BusOK, CountOK, Incoming, Receiving
  <2>4. RefusedOK'
    BY DEF AskedOK, ReadsOK, TurnedOK, RefusedOK, QuietOK, ControlOK, NumbersOK, FlagsOK, BusOK, CountOK, Incoming, Receiving
  <2>5. QuietOK'
    BY DEF AskedOK, ReadsOK, TurnedOK, RefusedOK, QuietOK, ControlOK, NumbersOK, FlagsOK, BusOK, CountOK, Incoming, Receiving
  <2> QED BY <2>1, <2>2, <2>3, <2>4, <2>5
<1>5. CASE Sleep
  <2> USE <1>5 DEF Sleep, usci
  <2>1. AskedOK'
    BY DEF AskedOK, ReadsOK, TurnedOK, RefusedOK, QuietOK, ControlOK, NumbersOK, FlagsOK, BusOK, CountOK, Incoming, Receiving
  <2>2. ReadsOK'
    BY DEF AskedOK, ReadsOK, TurnedOK, RefusedOK, QuietOK, ControlOK, NumbersOK, FlagsOK, BusOK, CountOK, Incoming, Receiving
  <2>3. TurnedOK'
    BY DEF AskedOK, ReadsOK, TurnedOK, RefusedOK, QuietOK, ControlOK, NumbersOK, FlagsOK, BusOK, CountOK, Incoming, Receiving
  <2>4. RefusedOK'
    BY DEF AskedOK, ReadsOK, TurnedOK, RefusedOK, QuietOK, ControlOK, NumbersOK, FlagsOK, BusOK, CountOK, Incoming, Receiving
  <2>5. QuietOK'
    BY DEF AskedOK, ReadsOK, TurnedOK, RefusedOK, QuietOK, ControlOK, NumbersOK, FlagsOK, BusOK, CountOK, Incoming, Receiving
  <2> QED BY <2>1, <2>2, <2>3, <2>4, <2>5
<1>6. CASE Compare
  <2> USE <1>6 DEF Compare, usci, world
  <2>1. AskedOK'
    BY DEF AskedOK, ReadsOK, TurnedOK, RefusedOK, QuietOK, ControlOK, NumbersOK, FlagsOK, BusOK, CountOK, Incoming, Receiving
  <2>2. ReadsOK'
    BY DEF AskedOK, ReadsOK, TurnedOK, RefusedOK, QuietOK, ControlOK, NumbersOK, FlagsOK, BusOK, CountOK, Incoming, Receiving
  <2>3. TurnedOK'
    BY DEF AskedOK, ReadsOK, TurnedOK, RefusedOK, QuietOK, ControlOK, NumbersOK, FlagsOK, BusOK, CountOK, Incoming, Receiving
  <2>4. RefusedOK'
    BY DEF AskedOK, ReadsOK, TurnedOK, RefusedOK, QuietOK, ControlOK, NumbersOK, FlagsOK, BusOK, CountOK, Incoming, Receiving
  <2>5. QuietOK'
    BY DEF AskedOK, ReadsOK, TurnedOK, RefusedOK, QuietOK, ControlOK, NumbersOK, FlagsOK, BusOK, CountOK, Incoming, Receiving
  <2> QED BY <2>1, <2>2, <2>3, <2>4, <2>5
<1>7. CASE GiveUp
  <2> USE <1>7 DEF GiveUp, world
  <2>1. AskedOK'
    BY DEF AskedOK, ReadsOK, TurnedOK, RefusedOK, QuietOK, ControlOK, NumbersOK, FlagsOK, BusOK, CountOK, Incoming, Receiving
  <2>2. ReadsOK'
    BY DEF AskedOK, ReadsOK, TurnedOK, RefusedOK, QuietOK, ControlOK, NumbersOK, FlagsOK, BusOK, CountOK, Incoming, Receiving
  <2>3. TurnedOK'
    BY DEF AskedOK, ReadsOK, TurnedOK, RefusedOK, QuietOK, ControlOK, NumbersOK, FlagsOK, BusOK, CountOK, Incoming, Receiving
  <2>4. RefusedOK'
    BY DEF AskedOK, ReadsOK, TurnedOK, RefusedOK, QuietOK, ControlOK, NumbersOK, FlagsOK, BusOK, CountOK, Incoming, Receiving
  <2>5. QuietOK'
    BY DEF AskedOK, ReadsOK, TurnedOK, RefusedOK, QuietOK, ControlOK, NumbersOK, FlagsOK, BusOK, CountOK, Incoming, Receiving
  <2> QED BY <2>1, <2>2, <2>3, <2>4, <2>5
<1>8. CASE Reset
  <2> USE <1>8 DEF Reset, world
  <2>1. AskedOK'
    BY DEF AskedOK, ReadsOK, TurnedOK, RefusedOK, QuietOK, ControlOK, NumbersOK, FlagsOK, BusOK, CountOK, Incoming, Receiving
  <2>2. ReadsOK'
    BY DEF AskedOK, ReadsOK, TurnedOK, RefusedOK, QuietOK, ControlOK, NumbersOK, FlagsOK, BusOK, CountOK, Incoming, Receiving
  <2>3. TurnedOK'
    BY DEF AskedOK, ReadsOK, TurnedOK, RefusedOK, QuietOK, ControlOK, NumbersOK, FlagsOK, BusOK, CountOK, Incoming, Receiving
  <2>4. RefusedOK'
    BY DEF AskedOK, ReadsOK, TurnedOK, RefusedOK, QuietOK, ControlOK, NumbersOK, FlagsOK, BusOK, CountOK, Incoming, Receiving
  <2>5. QuietOK'
    BY DEF AskedOK, ReadsOK, TurnedOK, RefusedOK, QuietOK, ControlOK, NumbersOK, FlagsOK, BusOK, CountOK, Incoming, Receiving
  <2> QED BY <2>1, <2>2, <2>3, <2>4, <2>5
<1>9. CASE Abandon
  <2> USE <1>9 DEF Abandon, usci, world
  <2>1. AskedOK'
    BY DEF AskedOK, ReadsOK, TurnedOK, RefusedOK, QuietOK, ControlOK, NumbersOK, FlagsOK, BusOK, CountOK, Incoming, Receiving
  <2>2. ReadsOK'
    BY DEF AskedOK, ReadsOK, TurnedOK, RefusedOK, QuietOK, ControlOK, NumbersOK, FlagsOK, BusOK, CountOK, Incoming, Receiving
  <2>3. TurnedOK'
    BY DEF AskedOK, ReadsOK, TurnedOK, RefusedOK, QuietOK, ControlOK, NumbersOK, FlagsOK, BusOK, CountOK, Incoming, Receiving
  <2>4. RefusedOK'
    BY DEF AskedOK, ReadsOK, TurnedOK, RefusedOK, QuietOK, ControlOK, NumbersOK, FlagsOK, BusOK, CountOK, Incoming, Receiving
  <2>5. QuietOK'
    BY DEF AskedOK, ReadsOK, TurnedOK, RefusedOK, QuietOK, ControlOK, NumbersOK, FlagsOK, BusOK, CountOK, Incoming, Receiving
  <2> QED BY <2>1, <2>2, <2>3, <2>4, <2>5
<1> QED BY <1>1, <1>2, <1>3, <1>4, <1>5, <1>6, <1>7, <1>8, <1>9 DEF Main

LEMMA IsrCall == ASSUME TransferInv, CallInv, Isr PROVE CallInv'
<1> USE LengthAssumption DEF TransferInv, CallInv, Irq
<1>1. CASE NakIsr
  <2> USE <1>1 DEF NakIsr, Handles, Returns, world
  <2>1. AskedOK'
    BY DEF AskedOK, ReadsOK, TurnedOK, RefusedOK, QuietOK, ControlOK, NumbersOK, FlagsOK, BusOK, CountOK, Incoming, Receiving
  <2>2. ReadsOK'
    BY DEF AskedOK, ReadsOK, TurnedOK, RefusedOK, QuietOK, ControlOK, NumbersOK, FlagsOK, BusOK, CountOK, Incoming, Receiving
  <2>3. TurnedOK'
    BY DEF AskedOK, ReadsOK, TurnedOK, RefusedOK, QuietOK, ControlOK, NumbersOK, FlagsOK, BusOK, CountOK, Incoming, Receiving
  <2>4. RefusedOK'
    BY DEF AskedOK, ReadsOK, TurnedOK, RefusedOK, QuietOK, ControlOK, NumbersOK, FlagsOK, BusOK, CountOK, Incoming, Receiving
  <2>5. QuietOK'
    BY DEF AskedOK, ReadsOK, TurnedOK, RefusedOK, QuietOK, ControlOK, NumbersOK, FlagsOK, BusOK, CountOK, Incoming, Receiving
  <2> QED BY <2>1, <2>2, <2>3, <2>4, <2>5
<1>2. CASE RxFirst
  <2> USE <1>2 DEF RxFirst, Handles, RxBefore, world
  <2>1. AskedOK'
    BY DEF AskedOK, ReadsOK, TurnedOK, RefusedOK, QuietOK, ControlOK, NumbersOK, FlagsOK, BusOK, CountOK, Incoming, Receiving
  <2>2. ReadsOK'
    BY DEF AskedOK, ReadsOK, TurnedOK, RefusedOK, QuietOK, ControlOK, NumbersOK, FlagsOK, BusOK, CountOK, Incoming, Receiving
  <2>3. TurnedOK'
    BY DEF AskedOK, ReadsOK, TurnedOK, RefusedOK, QuietOK, ControlOK, NumbersOK, FlagsOK, BusOK, CountOK, Incoming, Receiving
  <2>4. RefusedOK'
    BY DEF AskedOK, ReadsOK, TurnedOK, RefusedOK, QuietOK, ControlOK, NumbersOK, FlagsOK, BusOK, CountOK, Incoming, Receiving
  <2>5. QuietOK'
    BY DEF AskedOK, ReadsOK, TurnedOK, RefusedOK, QuietOK, ControlOK, NumbersOK, FlagsOK, BusOK, CountOK, Incoming, Receiving
  <2> QED BY <2>1, <2>2, <2>3, <2>4, <2>5
<1>3. CASE RxLast
  <2> USE <1>3 DEF RxLast, Returns, world
  <2>1. AskedOK'
    BY DEF AskedOK, ReadsOK, TurnedOK, RefusedOK, QuietOK, ControlOK, NumbersOK, FlagsOK, BusOK, CountOK, Incoming, Receiving
  <2>2. ReadsOK'
    BY DEF AskedOK, ReadsOK, TurnedOK, RefusedOK, QuietOK, ControlOK, NumbersOK, FlagsOK, BusOK, CountOK, Incoming, Receiving
  <2>3. TurnedOK'
    BY DEF AskedOK, ReadsOK, TurnedOK, RefusedOK, QuietOK, ControlOK, NumbersOK, FlagsOK, BusOK, CountOK, Incoming, Receiving
  <2>4. RefusedOK'
    BY DEF AskedOK, ReadsOK, TurnedOK, RefusedOK, QuietOK, ControlOK, NumbersOK, FlagsOK, BusOK, CountOK, Incoming, Receiving
  <2>5. QuietOK'
    BY DEF AskedOK, ReadsOK, TurnedOK, RefusedOK, QuietOK, ControlOK, NumbersOK, FlagsOK, BusOK, CountOK, Incoming, Receiving
  <2> QED BY <2>1, <2>2, <2>3, <2>4, <2>5
<1>4. CASE TxIsr
  <2> USE <1>4 DEF TxIsr, Handles, Returns, world
  <2>1. AskedOK'
    BY DEF AskedOK, ReadsOK, TurnedOK, RefusedOK, QuietOK, ControlOK, NumbersOK, FlagsOK, BusOK, CountOK, Incoming, Receiving
  <2>2. ReadsOK'
    BY DEF AskedOK, ReadsOK, TurnedOK, RefusedOK, QuietOK, ControlOK, NumbersOK, FlagsOK, BusOK, CountOK, Incoming, Receiving
  <2>3. TurnedOK'
    BY DEF AskedOK, ReadsOK, TurnedOK, RefusedOK, QuietOK, ControlOK, NumbersOK, FlagsOK, BusOK, CountOK, Incoming, Receiving
  <2>4. RefusedOK'
    BY DEF AskedOK, ReadsOK, TurnedOK, RefusedOK, QuietOK, ControlOK, NumbersOK, FlagsOK, BusOK, CountOK, Incoming, Receiving
  <2>5. QuietOK'
    BY DEF AskedOK, ReadsOK, TurnedOK, RefusedOK, QuietOK, ControlOK, NumbersOK, FlagsOK, BusOK, CountOK, Incoming, Receiving
  <2> QED BY <2>1, <2>2, <2>3, <2>4, <2>5
<1> QED BY <1>1, <1>2, <1>3, <1>4 DEF Isr, RxIsr

LEMMA BusCall == ASSUME TransferInv, CallInv, Bus PROVE CallInv'
<1> USE LengthAssumption DEF TransferInv, CallInv, Irq, program, world
<1>1. CASE StartCondition
  <2> USE <1>1 DEF StartCondition
  <2>1. AskedOK'
    BY DEF AskedOK, ReadsOK, TurnedOK, RefusedOK, QuietOK, ControlOK, NumbersOK, FlagsOK, BusOK, CountOK, Incoming, Receiving
  <2>2. ReadsOK'
    BY DEF AskedOK, ReadsOK, TurnedOK, RefusedOK, QuietOK, ControlOK, NumbersOK, FlagsOK, BusOK, CountOK, Incoming, Receiving
  <2>3. TurnedOK'
    BY DEF AskedOK, ReadsOK, TurnedOK, RefusedOK, QuietOK, ControlOK, NumbersOK, FlagsOK, BusOK, CountOK, Incoming, Receiving
  <2>4. RefusedOK'
    BY DEF AskedOK, ReadsOK, TurnedOK, RefusedOK, QuietOK, ControlOK, NumbersOK, FlagsOK, BusOK, CountOK, Incoming, Receiving
  <2>5. QuietOK'
    BY DEF AskedOK, ReadsOK, TurnedOK, RefusedOK, QuietOK, ControlOK, NumbersOK, FlagsOK, BusOK, CountOK, Incoming, Receiving
  <2> QED BY <2>1, <2>2, <2>3, <2>4, <2>5
<1>2. CASE AddressAck
  <2> USE <1>2 DEF AddressAck
  <2>1. AskedOK'
    BY DEF AskedOK, ReadsOK, TurnedOK, RefusedOK, QuietOK, ControlOK, NumbersOK, FlagsOK, BusOK, CountOK, Incoming, Receiving
  <2>2. ReadsOK'
    BY DEF AskedOK, ReadsOK, TurnedOK, RefusedOK, QuietOK, ControlOK, NumbersOK, FlagsOK, BusOK, CountOK, Incoming, Receiving
  <2>3. TurnedOK'
    BY DEF AskedOK, ReadsOK, TurnedOK, RefusedOK, QuietOK, ControlOK, NumbersOK, FlagsOK, BusOK, CountOK, Incoming, Receiving
  <2>4. RefusedOK'
    BY DEF AskedOK, ReadsOK, TurnedOK, RefusedOK, QuietOK, ControlOK, NumbersOK, FlagsOK, BusOK, CountOK, Incoming, Receiving
  <2>5. QuietOK'
    BY DEF AskedOK, ReadsOK, TurnedOK, RefusedOK, QuietOK, ControlOK, NumbersOK, FlagsOK, BusOK, CountOK, Incoming, Receiving
  <2> QED BY <2>1, <2>2, <2>3, <2>4, <2>5
<1>3. CASE ShiftOut
  <2> USE <1>3 DEF ShiftOut
  <2>1. AskedOK'
    BY DEF AskedOK, ReadsOK, TurnedOK, RefusedOK, QuietOK, ControlOK, NumbersOK, FlagsOK, BusOK, CountOK, Incoming, Receiving
  <2>2. ReadsOK'
    BY DEF AskedOK, ReadsOK, TurnedOK, RefusedOK, QuietOK, ControlOK, NumbersOK, FlagsOK, BusOK, CountOK, Incoming, Receiving
  <2>3. TurnedOK'
    BY DEF AskedOK, ReadsOK, TurnedOK, RefusedOK, QuietOK, ControlOK, NumbersOK, FlagsOK, BusOK, CountOK, Incoming, Receiving
  <2>4. RefusedOK'
    BY DEF AskedOK, ReadsOK, TurnedOK, RefusedOK, QuietOK, ControlOK, NumbersOK, FlagsOK, BusOK, CountOK, Incoming, Receiving
  <2>5. QuietOK'
    BY DEF AskedOK, ReadsOK, TurnedOK, RefusedOK, QuietOK, ControlOK, NumbersOK, FlagsOK, BusOK, CountOK, Incoming, Receiving
  <2> QED BY <2>1, <2>2, <2>3, <2>4, <2>5
<1>4. CASE ByteAck
  <2> USE <1>4 DEF ByteAck
  <2>1. AskedOK'
    BY DEF AskedOK, ReadsOK, TurnedOK, RefusedOK, QuietOK, ControlOK, NumbersOK, FlagsOK, BusOK, CountOK, Incoming, Receiving
  <2>2. ReadsOK'
    BY DEF AskedOK, ReadsOK, TurnedOK, RefusedOK, QuietOK, ControlOK, NumbersOK, FlagsOK, BusOK, CountOK, Incoming, Receiving
  <2>3. TurnedOK'
    BY DEF AskedOK, ReadsOK, TurnedOK, RefusedOK, QuietOK, ControlOK, NumbersOK, FlagsOK, BusOK, CountOK, Incoming, Receiving
  <2>4. RefusedOK'
    BY DEF AskedOK, ReadsOK, TurnedOK, RefusedOK, QuietOK, ControlOK, NumbersOK, FlagsOK, BusOK, CountOK, Incoming, Receiving
  <2>5. QuietOK'
    BY DEF AskedOK, ReadsOK, TurnedOK, RefusedOK, QuietOK, ControlOK, NumbersOK, FlagsOK, BusOK, CountOK, Incoming, Receiving
  <2> QED BY <2>1, <2>2, <2>3, <2>4, <2>5
<1>5. CASE Nak
  <2> USE <1>5 DEF Nak
  <2>1. AskedOK'
    BY DEF AskedOK, ReadsOK, TurnedOK, RefusedOK, QuietOK, ControlOK, NumbersOK, FlagsOK, BusOK, CountOK, Incoming, Receiving
  <2>2. ReadsOK'
    BY DEF AskedOK, ReadsOK, TurnedOK, RefusedOK, QuietOK, ControlOK, NumbersOK, FlagsOK, BusOK, CountOK, Incoming, Receiving
  <2>3. TurnedOK'
    BY DEF AskedOK, ReadsOK, TurnedOK, RefusedOK, QuietOK, ControlOK, NumbersOK, FlagsOK, BusOK, CountOK, Incoming, Receiving
  <2>4. RefusedOK'
    BY DEF AskedOK, ReadsOK, TurnedOK, RefusedOK, QuietOK, ControlOK, NumbersOK, FlagsOK, BusOK, CountOK, Incoming, Receiving
  <2>5. QuietOK'
    BY DEF AskedOK, ReadsOK, TurnedOK, RefusedOK, QuietOK, ControlOK, NumbersOK, FlagsOK, BusOK, CountOK, Incoming, Receiving
  <2> QED BY <2>1, <2>2, <2>3, <2>4, <2>5
<1>6. CASE ShiftIn
  <2> USE <1>6 DEF ShiftIn
  <2>1. AskedOK'
    BY DEF AskedOK, ReadsOK, TurnedOK, RefusedOK, QuietOK, ControlOK, NumbersOK, FlagsOK, BusOK, CountOK, Incoming, Receiving
  <2>2. ReadsOK'
    BY DEF AskedOK, ReadsOK, TurnedOK, RefusedOK, QuietOK, ControlOK, NumbersOK, FlagsOK, BusOK, CountOK, Incoming, Receiving
  <2>3. TurnedOK'
    BY DEF AskedOK, ReadsOK, TurnedOK, RefusedOK, QuietOK, ControlOK, NumbersOK, FlagsOK, BusOK, CountOK, Incoming, Receiving
  <2>4. RefusedOK'
    BY DEF AskedOK, ReadsOK, TurnedOK, RefusedOK, QuietOK, ControlOK, NumbersOK, FlagsOK, BusOK, CountOK, Incoming, Receiving
  <2>5. QuietOK'
    BY DEF AskedOK, ReadsOK, TurnedOK, RefusedOK, QuietOK, ControlOK, NumbersOK, FlagsOK, BusOK, CountOK, Incoming, Receiving
  <2> QED BY <2>1, <2>2, <2>3, <2>4, <2>5
<1>7. CASE StopCondition
  <2> USE <1>7 DEF StopCondition
  <2>1. AskedOK'
    BY DEF AskedOK, ReadsOK, TurnedOK, RefusedOK, QuietOK, ControlOK, NumbersOK, FlagsOK, BusOK, CountOK, Incoming, Receiving
  <2>2. ReadsOK'
    BY DEF AskedOK, ReadsOK, TurnedOK, RefusedOK, QuietOK, ControlOK, NumbersOK, FlagsOK, BusOK, CountOK, Incoming, Receiving
  <2>3. TurnedOK'
    BY DEF AskedOK, ReadsOK, TurnedOK, RefusedOK, QuietOK, ControlOK, NumbersOK, FlagsOK, BusOK, CountOK, Incoming, Receiving
  <2>4. RefusedOK'
    BY DEF AskedOK, ReadsOK, TurnedOK, RefusedOK, QuietOK, ControlOK, NumbersOK, FlagsOK, BusOK, CountOK, Incoming, Receiving
  <2>5. QuietOK'
    BY DEF AskedOK, ReadsOK, TurnedOK, RefusedOK, QuietOK, ControlOK, NumbersOK, FlagsOK, BusOK, CountOK, Incoming, Receiving
  <2> QED BY <2>1, <2>2, <2>3, <2>4, <2>5
<1> QED BY <1>1, <1>2, <1>3, <1>4, <1>5, <1>6, <1>7 DEF Bus

LEMMA OtherCall == ASSUME TransferInv, CallInv, Tick \/ UNCHANGED vars PROVE CallInv'
<1> USE LengthAssumption DEF TransferInv, CallInv, Irq
<1>1. CASE Tick
  <2> USE <1>1 DEF Tick, usci
  <2>1. AskedOK'
    BY DEF AskedOK, ReadsOK, TurnedOK, RefusedOK, QuietOK, ControlOK, NumbersOK, FlagsOK, BusOK, CountOK, Incoming, Receiving
  <2>2. ReadsOK'
    BY DEF AskedOK, ReadsOK, TurnedOK, RefusedOK, QuietOK, ControlOK, NumbersOK, FlagsOK, BusOK, CountOK, Incoming, Receiving
  <2>3. TurnedOK'
    BY DEF AskedOK, ReadsOK, TurnedOK, RefusedOK, QuietOK, ControlOK, NumbersOK, FlagsOK, BusOK, CountOK, Incoming, Receiving
  <2>4. RefusedOK'
    BY DEF AskedOK, ReadsOK, TurnedOK, RefusedOK, QuietOK, ControlOK, NumbersOK, FlagsOK, BusOK, CountOK, Incoming, Receiving
  <2>5. QuietOK'
    BY DEF AskedOK, ReadsOK, TurnedOK, RefusedOK, QuietOK, ControlOK, NumbersOK, FlagsOK, BusOK, CountOK, Incoming, Receiving
  <2> QED BY <2>1, <2>2, <2>3, <2>4, <2>5
<1>2. CASE UNCHANGED vars
  <2> USE <1>2 DEF vars, program, usci, world
  <2>1. AskedOK'
    BY DEF AskedOK, ReadsOK, TurnedOK, RefusedOK, QuietOK, ControlOK, NumbersOK, FlagsOK, BusOK, CountOK, Incoming, Receiving
  <2>2. ReadsOK'
    BY DEF AskedOK, ReadsOK, TurnedOK, RefusedOK, QuietOK, ControlOK, NumbersOK, FlagsOK, BusOK, CountOK, Incoming, Receiving
  <2>3. TurnedOK'
    BY DEF AskedOK, ReadsOK, TurnedOK, RefusedOK, QuietOK, ControlOK, NumbersOK, FlagsOK, BusOK, CountOK, Incoming, Receiving
  <2>4. RefusedOK'
    BY DEF AskedOK, ReadsOK, TurnedOK, RefusedOK, QuietOK, ControlOK, NumbersOK, FlagsOK, BusOK, CountOK, Incoming, Receiving
  <2>5. QuietOK'
    BY DEF AskedOK, ReadsOK, TurnedOK, RefusedOK, QuietOK, ControlOK, NumbersOK, FlagsOK, BusOK, CountOK, Incoming, Receiving
  <2> QED BY <2>1, <2>2, <2>3, <2>4, <2>5
<1> QED BY <1>1, <1>2 DEF vars

LEMMA CallInvariance == Spec => [](TransferInv /\ CallInv)
<1>1. Init => CallInv
  BY DEF Init, CallInv, AskedOK, ReadsOK, TurnedOK, RefusedOK, QuietOK, Irq, Incoming, Receiving
<1>2. TransferInv /\ CallInv /\ [Next]_vars => CallInv'
  BY MainCall, IsrCall, BusCall, OtherCall DEF Next
<1> QED BY <1>1, <1>2, TransferInvariance, PTL DEF Spec

\* The handler moves a byte: one that goes out from the buffer, or one that
\* comes in and is stored.
LEMMA TransferStep ==
    ASSUME TransferInv, CallInv, Isr
    PROVE  Abstract!Transfer \/ UNCHANGED Abstract!vars
<1> USE DEF TransferInv, CallInv, Abstract!vars
<1>1. CASE NakIsr
  BY <1>1 DEF NakIsr, world
<1>2. CASE RxFirst
  BY <1>2 DEF RxFirst, world
<1>3. CASE RxLast
  <2>1. pc # "idle" /\ ~refused /\ moved < asked
    BY <1>3 DEF RxLast, BusOK, CountOK, Counted, NumbersOK, RefusedOK
  <2> QED BY <1>3, <2>1 DEF RxLast, world, Abstract!Transfer
<1>4. CASE TxIsr
  <2>1. moved' = moved \/ (state = "writing" /\ left > 0 /\ ~nakIfg /\ moved' = moved + 1)
    BY <1>4 DEF TxIsr, Handles
  <2>2. UNCHANGED <<pc, reads, asked, refused, result>>
    BY <1>4 DEF TxIsr, world
  <2>3. state = "writing" /\ left > 0 /\ ~nakIfg => pc # "idle" /\ ~refused /\ moved < asked
    BY DEF CountOK, Counted, NumbersOK, RefusedOK
  <2> QED BY <2>1, <2>2, <2>3 DEF Abstract!Transfer
<1> QED BY <1>1, <1>2, <1>3, <1>4 DEF Isr, RxIsr

\* A device refuses the beginning of a call, or a byte of a write, be it the
\* last one after the call returned.
LEMMA RefuseStep ==
    ASSUME TransferInv, CallInv, Nak
    PROVE  Abstract!Refuse
<1> USE DEF TransferInv, CallInv
<1>1. shift \in {"address", "byte"} /\ refused' = TRUE /\ UNCHANGED <<pc, reads, asked, moved, result>>
  BY DEF Nak, program
<1>2. ~refused
  BY <1>1 DEF RefusedOK
<1>3. reads => moved = 0
  BY <1>1 DEF TurnedOK, NumbersOK
<1>4. pc = "idle" => result = "ok" /\ ~reads
  BY <1>1, <1>2, <1>3 DEF QuietOK, AskedOK, NumbersOK, CountOK
<1> QED BY <1>1, <1>2, <1>3, <1>4 DEF Abstract!Refuse

LEMMA ProgramStep ==
    ASSUME TransferInv, CallInv, Call \/ Main
    PROVE  \/ Abstract!Begin \/ Abstract!Return \/ Abstract!GiveUp
           \/ UNCHANGED Abstract!vars
<1> USE DEF TransferInv, CallInv
<1>1. CASE Call
  <2>1. reads' \in BOOLEAN /\ asked' \in 1..Length
    BY <1>1 DEF Call
  <2> QED BY <1>1, <2>1 DEF Call, Abstract!Begin
<1>2. CASE While
  <2>1. CASE state = "waiting"
    <3>1. refused \/ moved = asked
      BY <1>2, <2>1 DEF While, Awake, CountOK, Counted, NumbersOK
    <3> QED BY <1>2, <2>1, <3>1 DEF While, world, Abstract!Return
  <2>2. CASE state # "waiting"
    BY <1>2, <2>2 DEF While, world, Abstract!vars
  <2> QED BY <2>1, <2>2
<1>3. CASE Reset
  BY <1>3 DEF Reset, world, Abstract!GiveUp
<1>4. CASE HalfClock \/ GetClock \/ Sleep \/ Compare \/ GiveUp \/ Abandon
  BY <1>4 DEF HalfClock, GetClock, Sleep, Compare, GiveUp, Abandon, usci, world, Abstract!vars
<1> QED BY <1>1, <1>2, <1>3, <1>4 DEF Main

\* To its caller the driver is what I2cCall says, for every length, whatever
\* the device refuses or holds, and whenever the time-out cuts in: a call that
\* returned 0 has moved every byte or was refused, and of a read that was
\* refused nothing was stored.
THEOREM Refinement == Spec => ImplementsCall
<1>1. Init => Abstract!Init
  BY DEF Init, Abstract!Init
<1>2. TransferInv /\ CallInv /\ [Next]_vars => [Abstract!Next]_(Abstract!vars)
  <2> SUFFICES ASSUME TransferInv, CallInv, [Next]_vars
               PROVE  [Abstract!Next]_(Abstract!vars)
    OBVIOUS
  <2>1. CASE Bus /\ ~Nak
    BY <2>1 DEF Bus, StartCondition, AddressAck, ShiftOut, ByteAck, ShiftIn, StopCondition,
                program, world, Abstract!vars
  <2>2. CASE Tick \/ UNCHANGED vars
    BY <2>2 DEF Tick, vars, program, usci, world, Abstract!vars
  <2> QED BY <2>1, <2>2, ProgramStep, TransferStep, RefuseStep DEF Next, Bus, Abstract!Next
<1> QED BY <1>1, <1>2, CallInvariance, PTL DEF Spec, ImplementsCall, Abstract!Spec

\* What the sampling loop relies on: a read that returned 0 stored all of its
\* bytes, or was refused and stored none.
THEOREM ReadsAreAllOrNothing == Spec => []Abstract!AllOrNothing
<1>1. Abstract!Init => Abstract!AllOrNothing
  BY DEF Abstract!Init, Abstract!AllOrNothing
<1>2. Abstract!AllOrNothing /\ [Abstract!Next]_(Abstract!vars) => Abstract!AllOrNothing'
  BY DEF Abstract!AllOrNothing, Abstract!Next, Abstract!vars, Abstract!Begin, Abstract!Transfer,
         Abstract!Refuse, Abstract!Return, Abstract!GiveUp
<1> QED BY <1>1, <1>2, Refinement, PTL DEF ImplementsCall, Abstract!Spec
=============================================================================
