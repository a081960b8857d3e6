----------------------------- MODULE I2cMaster ------------------------------
(***************************************************************************)
(* The I2C driver of the MSP430 (msp430_i2c.c): a call fills a structure,  *)
(* sets the START bit and sleeps until the interrupt handler has moved the *)
(* bytes; the 1 ms timer interrupt of msp430_clock.c wakes it to test its  *)
(* time-out.  The USCI peripheral shifts one byte at a time, double        *)
(* buffered, and runs on by itself: what the handler sets too late takes   *)
(* effect a byte later.                                                    *)
(*                                                                         *)
(* The clock is a 32-bit count which a 16-bit machine reads in two halves, *)
(* and which starts again at zero after 2^32 ms.                           *)
(***************************************************************************)
EXTENDS Integers

CONSTANTS
    Length,         \* bytes of a transfer
    Timeout,        \* I2C_TIMEOUT_MS
    Word,           \* 2^16: the clock is two words wide
    StartTime,      \* bound of the model: the time at which it begins
    MaxTime,        \* bound of the model: the clock stops there
    MaxCalls,       \* bound of the model: calls made
    HasNak          \* the devices may refuse a byte

\* A length is an unsigned char, i2c.length an unsigned short.
ASSUME LengthAssumption == Length \in 1 .. 255
ASSUME ClockAssumption == Timeout \in Nat \ {0} /\ Word \in Nat \ {0}
ASSUME TimeAssumption == StartTime \in Nat /\ MaxTime \in Nat
ASSUME NakAssumption == HasNak \in BOOLEAN

VARIABLES
    \* the program
    pc, result,
    asked,                              \* the length the caller gave
    state, regWritten, left, moved,     \* i2c.state, slave_reg_written, length, data
    calls,
    start, seen, cur,                   \* the two clock readings of a call, 0 when out of scope
    asleep,
    \* the peripheral
    shift, tr, stt, stp, txFull, rxFull, txIfg, rxIfg, nakIfg,
    isr,                                \* where the interrupt handler is
    \* the environment
    time, ticked,                       \* the milliseconds since the start, one passed awake
    begun, refused, reads               \* when the call began, a NAK since, it reads (history)

program == <<pc, result, asked, state, regWritten, left, moved, calls, start, seen, cur, asleep>>
usci    == <<shift, tr, stt, stp, txFull, rxFull, txIfg, rxIfg, nakIfg, isr>>
world   == <<time, ticked, begun, refused, reads>>
vars == <<program, usci, world>>

Init ==
    /\ pc = "idle" /\ result = "none" /\ asked = 0
    /\ state = "waiting" /\ regWritten = FALSE /\ left = 0 /\ moved = 0
    /\ calls = 0
    /\ start = 0 /\ seen = 0 /\ cur = 0
    /\ asleep = FALSE
    /\ shift = "none" /\ tr = TRUE /\ stt = FALSE /\ stp = FALSE
    /\ txFull = FALSE /\ rxFull = FALSE
    /\ txIfg = FALSE /\ rxIfg = FALSE /\ nakIfg = FALSE
    /\ isr = "none"
    /\ time = StartTime /\ ticked = FALSE /\ begun = StartTime
    /\ refused = FALSE /\ reads = FALSE

Irq == txIfg \/ rxIfg \/ nakIfg

\* The program runs when it is awake and no interrupt is pending or served.
Awake == ~asleep /\ ~Irq /\ isr = "none"

-----------------------------------------------------------------------------
(* msp430_i2c_write() and msp430_i2c_read().                               *)

\* The call up to START; a register address of 0 is not sent.
Call ==
    /\ pc = "idle" /\ Awake /\ calls < MaxCalls
    /\ time + Timeout + Word + 2 <= MaxTime
    /\ calls' = calls + 1
    /\ state' \in {"writing", "reading"}
    /\ regWritten' \in BOOLEAN
    /\ asked' \in 1..Length /\ left' = asked'
    /\ moved' = 0
    /\ tr' = TRUE /\ stt' = TRUE /\ txIfg' = TRUE
    /\ begun' = time /\ refused' = FALSE /\ ticked' = FALSE
    /\ reads' = (state' = "reading")
    /\ result' = "none"
    /\ pc' = "start"
    /\ UNCHANGED <<start, seen, cur, asleep, shift, stp, txFull, rxFull, rxIfg, nakIfg, isr, time>>

Width == Word * Word

\* clock.timestamp counts on from its last value, to zero in the end.
Timestamp(t) == t % Width

High(t) == Timestamp(t) \div Word
Low(t)  == Timestamp(t) % Word

\* The clock, whose halves were loaded at times t and time, in either order.
Readings(t) == {High(time) * Word + Low(t), High(t) * Word + Low(time)}

\* The first half of msp430_get_clock_ms().
HalfClock ==
    /\ pc \in {"start", "cur"} /\ Awake
    /\ seen' = time
    /\ pc' = IF pc = "start" THEN "start2" ELSE "cur2"
    /\ UNCHANGED <<result, asked, state, regWritten, left, moved, calls, start, cur, asleep, usci, world>>

GetClock ==
    /\ Awake
    /\ \/ pc = "start2" /\ start' \in Readings(seen) /\ pc' = "while" /\ UNCHANGED cur
       \/ pc = "cur2" /\ cur' \in Readings(seen) /\ pc' = "compare" /\ UNCHANGED start
    /\ seen' = 0
    /\ UNCHANGED <<result, asked, state, regWritten, left, moved, calls, asleep, usci, world>>

\* The loop: return, or sleep until an interrupt.
While ==
    /\ pc = "while" /\ Awake
    /\ IF state = "waiting"
         THEN pc' = "idle" /\ result' = "ok" /\ start' = 0
         ELSE pc' = "sleep" /\ UNCHANGED <<result, start>>
    /\ UNCHANGED <<asked, state, regWritten, left, moved, calls, seen, cur, asleep, usci, world>>

\* An interrupt between the test of the state and this step is not seen.
Sleep ==
    /\ pc = "sleep" /\ Awake
    /\ asleep' = TRUE
    /\ ticked' = FALSE
    /\ pc' = "cur"
    /\ UNCHANGED <<result, asked, state, regWritten, left, moved, calls, start, seen, cur, usci,
                   time, begun, refused, reads>>

\* Slip: off by one.
ExpiredEarly == cur + 1 >= (start + Timeout) % Width

\* start + I2C_TIMEOUT_MS overflows with the clock.
Expired == cur >= (start + Timeout) % Width

Compare ==
    /\ pc = "compare" /\ Awake
    /\ pc' = IF Expired THEN "giveup" ELSE "while"
    /\ cur' = 0
    /\ UNCHANGED <<result, asked, state, regWritten, left, moved, calls, start, seen, asleep, usci, world>>

\* The time-out: STOP; a late interrupt still finds the call under way,
GiveUp ==
    /\ pc = "giveup" /\ Awake
    /\ stp' = TRUE
    /\ pc' = "abandon"
    /\ UNCHANGED <<result, asked, state, regWritten, left, moved, calls, start, seen, cur, asleep,
                   shift, tr, stt, txFull, rxFull, txIfg, rxIfg, nakIfg, isr, world>>

\* until here.
Abandon ==
    /\ pc = "abandon" /\ Awake
    /\ state' = "waiting"
    /\ pc' = "reset"
    /\ UNCHANGED <<result, asked, regWritten, left, moved, calls, start, seen, cur, asleep, usci, world>>

\* The peripheral is reset, the lines are toggled and it is enabled again.
Reset ==
    /\ pc = "reset" /\ Awake
    /\ regWritten' = FALSE /\ left' = 0
    /\ shift' = "none" /\ stt' = FALSE /\ stp' = FALSE
    /\ txFull' = FALSE /\ rxFull' = FALSE
    /\ result' = "timeout"
    /\ pc' = "idle"
    /\ start' = 0
    /\ UNCHANGED <<asked, state, moved, calls, seen, cur, asleep, tr, txIfg, rxIfg, nakIfg, isr, world>>

-----------------------------------------------------------------------------
(* The interrupt handlers.  Each wakes the program when it returns.        *)

\* Slip: the timer does not wake the program.
TickSilent ==
    /\ time < MaxTime
    /\ isr = "none"
    /\ asleep \/ ~ticked
    /\ time' = time + 1
    /\ ticked' = (~asleep /\ pc # "idle")
    /\ UNCHANGED <<pc, result, asked, state, regWritten, left, moved, calls, start, seen, cur, asleep, usci, begun, refused, reads>>

\* Between two sleeps of a call the program takes less than a millisecond, so
\* that at most one tick falls there.
Tick ==
    /\ time < MaxTime
    /\ isr = "none"
    /\ asleep \/ ~ticked
    /\ time' = time + 1
    /\ ticked' = (~asleep /\ pc # "idle")
    /\ asleep' = FALSE
    /\ UNCHANGED <<pc, result, asked, state, regWritten, left, moved, calls, start, seen, cur, usci, begun, refused, reads>>

Handles(i) ==
    /\ isr = "none"
    /\ i = (IF nakIfg THEN "nak" ELSE IF rxIfg THEN "rx" ELSE IF txIfg THEN "tx" ELSE "none")

Returns == isr' = "none" /\ asleep' = FALSE

\* NAK: the call ends, and the handler waits for the STOP.
NakIsr ==
    \/ /\ Handles("nak")
       /\ nakIfg' = FALSE
       /\ state' = "waiting"
       /\ stp' = TRUE
       /\ isr' = "stop"
       /\ UNCHANGED <<pc, result, asked, regWritten, left, moved, calls, start, seen, cur, asleep,
                      shift, tr, stt, txFull, rxFull, txIfg, rxIfg, world>>
    \/ /\ isr = "stop" /\ ~stp
       /\ Returns
       /\ UNCHANGED <<pc, result, asked, state, regWritten, left, moved, calls, start, seen, cur,
                      shift, tr, stt, stp, txFull, rxFull, txIfg, rxIfg, nakIfg, world>>

\* Slip: the STOP is prepared with the last byte.
StopsLate ==
    /\ left' = (left - 1) % 65536
    /\ state' = IF left = 1 THEN "waiting" ELSE state
    /\ stp' = (stp \/ left = 1)

\* Slip: the call is over when one byte is left.
EndsEarly ==
    /\ left' = (left - 1) % 65536
    /\ state' = IF left \in {1, 2} THEN "waiting" ELSE state
    /\ stp' = (stp \/ left = 2)

\* What the handler does before it reads the byte: STOP with one byte left.
RxBefore ==
    /\ left' = (left - 1) % 65536
    /\ state' = IF left = 1 THEN "waiting" ELSE state
    /\ stp' = (stp \/ left = 2)

\* "Read RXBUF last because we don't want to release SCL until we're sure
\* we're ready."
RxFirst ==
    /\ Handles("rx")
    /\ RxBefore
    /\ isr' = "rxbuf"
    /\ rxIfg' = FALSE
    /\ UNCHANGED <<pc, result, asked, regWritten, moved, calls, start, seen, cur, asleep,
                   shift, tr, stt, txFull, rxFull, txIfg, nakIfg, world>>

RxLast ==
    /\ isr = "rxbuf"
    /\ rxFull' = FALSE
    /\ moved' = moved + 1
    /\ Returns
    /\ UNCHANGED <<pc, result, asked, state, regWritten, left, calls, start, seen, cur,
                   shift, tr, stt, stp, txFull, txIfg, rxIfg, nakIfg, world>>

RxIsr == RxFirst \/ RxLast

\* The next byte, or the end of a write; a read turns the bus around, and for
\* a single byte waits for the START to set the STOP.
TxIsr ==
    \/ /\ Handles("tx")
       /\ txIfg' = FALSE
       /\ IF state # "waiting" /\ ~regWritten
            THEN /\ regWritten' = TRUE
                 /\ txFull' = TRUE
                 /\ UNCHANGED <<state, left, moved, stp, tr, stt>>
          ELSE IF state = "writing" /\ left > 0
            THEN /\ moved' = moved + 1 /\ left' = left - 1
                 /\ txFull' = TRUE
                 /\ UNCHANGED <<state, regWritten, stp, tr, stt>>
          ELSE IF state = "writing"
            THEN /\ state' = "waiting"
                 /\ stp' = TRUE
                 /\ UNCHANGED <<regWritten, left, moved, txFull, tr, stt>>
          ELSE /\ tr' = (tr /\ state # "reading")
               /\ stt' = (stt \/ state = "reading")
               /\ UNCHANGED <<state, regWritten, left, moved, txFull, stp>>
       /\ IF state = "reading" /\ regWritten /\ left = 1
            THEN isr' = "start" /\ UNCHANGED asleep
            ELSE Returns
       /\ UNCHANGED <<pc, result, asked, calls, start, seen, cur, shift, rxFull, rxIfg, nakIfg, world>>
    \/ /\ isr = "start" /\ ~stt
       /\ stp' = TRUE
       /\ Returns
       /\ UNCHANGED <<pc, result, asked, state, regWritten, left, moved, calls, start, seen, cur,
                      shift, tr, stt, txFull, rxFull, txIfg, rxIfg, nakIfg, world>>

Isr == NakIsr \/ RxIsr \/ TxIsr

-----------------------------------------------------------------------------
(* The peripheral and the device it talks to.                              *)

\* START, after a STOP that is due.
StartCondition ==
    /\ stt /\ shift \in {"none", "out"} /\ ~stp
    /\ shift' = "address"
    /\ UNCHANGED <<program, tr, stt, stp, txFull, rxFull, txIfg, rxIfg, nakIfg, isr, world>>

AddressAck ==
    /\ shift = "address"
    /\ shift' = IF tr THEN "out" ELSE "in"
    /\ stt' = FALSE
    /\ UNCHANGED <<program, tr, stp, txFull, rxFull, txIfg, rxIfg, nakIfg, isr, world>>

\* TXBUF moves to the shift register and is free again.
ShiftOut ==
    /\ shift = "out" /\ txFull /\ ~stt
    /\ shift' = "byte"
    /\ txFull' = FALSE
    /\ txIfg' = TRUE
    /\ UNCHANGED <<program, tr, stt, stp, rxFull, rxIfg, nakIfg, isr, world>>

ByteAck ==
    /\ shift = "byte"
    /\ shift' = "out"
    /\ UNCHANGED <<program, tr, stt, stp, txFull, rxFull, txIfg, rxIfg, nakIfg, isr, world>>

\* The address, or a byte, is not acknowledged.
Nak ==
    /\ HasNak
    /\ shift \in {"address", "byte"}
    /\ shift' = "out"
    /\ stt' = FALSE
    /\ txFull' = FALSE /\ txIfg' = FALSE
    /\ nakIfg' = TRUE
    /\ refused' = TRUE
    /\ UNCHANGED <<program, tr, stp, rxFull, rxIfg, isr, time, ticked, begun, reads>>

\* A byte comes in when RXBUF is free; the STOP that is due by then follows.
\* The handler that waits for START sets the STOP before a byte can pass.
ShiftIn ==
    /\ shift = "in" /\ ~rxFull /\ isr # "start"
    /\ rxFull' = TRUE
    /\ rxIfg' = TRUE
    /\ shift' = IF stp THEN "none" ELSE "in"
    /\ stp' = FALSE
    /\ UNCHANGED <<program, tr, stt, txFull, txIfg, nakIfg, isr, world>>

StopCondition ==
    /\ stp /\ shift \in {"none", "out"}
    /\ shift' = "none"
    /\ stp' = FALSE
    /\ txFull' = FALSE
    /\ UNCHANGED <<program, tr, stt, rxFull, txIfg, rxIfg, nakIfg, isr, world>>

Bus == StartCondition \/ AddressAck \/ ShiftOut \/ ByteAck \/ Nak \/ ShiftIn \/ StopCondition

Main == HalfClock \/ GetClock \/ While \/ Sleep \/ Compare \/ GiveUp \/ Abandon \/ Reset

Next == Call \/ Main \/ Tick \/ Isr \/ Bus

Spec == Init /\ [][Next]_vars

\* The timer ticks, and a handler that waits for the bus to do a START or a
\* STOP gets it; the device may hold the clock otherwise.
FairSpec ==
    /\ Spec
    /\ WF_vars(Main) /\ WF_vars(Isr) /\ WF_vars(Tick)
    /\ WF_vars(isr \in {"start", "stop"} /\ Bus)

-----------------------------------------------------------------------------
\* "@return 0 if successful": a call that returned 0 was not refused by the
\* device.
SuccessMeansAcknowledged == result = "ok" => ~refused

\* To its caller the driver is what I2cCall says, however the handlers and the
\* peripheral share the work, and whenever the time-out cuts in: a byte counts
\* as moved when the handler has it from, or for, the caller's buffer.
Abstract == INSTANCE I2cCall WITH busy <- pc # "idle"
ImplementsCall == Abstract!Spec

\* The handler never stores more bytes than the caller asked for: the STOP is
\* prepared in time for the device not to send another one.
NoOverrun == moved <= asked

\* A device is given up after I2C_TIMEOUT_MS, neither earlier nor more than
\* three ticks late, although the clock is read in two halves while it counts
\* and the sum it is compared with may overflow.  Only a call at a carry of the
\* low word, of which the end of the clock is one, may do otherwise.
GaveUpInTime == time - begun \in Timeout .. Timeout + 3
CarryNear == \E t \in begun + 1 .. begun + Timeout + 3 : t % Word = 0
Patient == pc = "giveup" => GaveUpInTime \/ CarryNear

\* Every call returns, provided that a START or a STOP that a handler waits
\* for with interrupts off (msp430_i2c.c:315, 363) comes: a wake-up that is
\* lost between the test of the state and the sleep comes again with the
\* timer, and a device that refuses, or holds the clock elsewhere, is given
\* up.  Only a call whose time-out ends about when the clock starts again at
\* zero may miss that end; it waits for the next round of the clock, 49 days.
EndNear == (begun + Timeout + 3) \div Width > begun \div Width
CallReturns == pc # "idle" ~> pc = "idle" \/ EndNear
=============================================================================
