------------------------------ MODULE SpiTask -------------------------------
(***************************************************************************)
(* SPI_Task from one frame to the next: it composes the bytes of a frame,  *)
(* transmits them and, in evaluate(), compares the orientation of the      *)
(* first IMU with a reference to switch an LED.                            *)
(*                                                                         *)
(* SPI_Manager.c and I2C_manager.c each define a global array              *)
(* "u8 WriteBuffer[SEND_COUNT]", with a SEND_COUNT of their own; the       *)
(* linker merges them into one.  I2C_Task, which preempts SPI_Task between *)
(* any two instructions, writes a reply there that it never sends.         *)
(*                                                                         *)
(* A byte is abstracted to where it comes from: the number of the frame    *)
(* whose floats it is part of, or a code for the final zero, the letter    *)
(* 'A', I2C_Task's reply and the memory behind the array.  An orientation  *)
(* is a pose, and of two poses matters whether their angle is below 1.25.  *)
(***************************************************************************)
EXTENDS Integers, Sequences

CONSTANTS
    SendCount,      \* SEND_COUNT of SPI_Manager.c: header, floats, final zero
    ReplyCount,     \* SEND_COUNT of I2C_manager.c
    Overread,       \* bytes transmitted beyond the buffer
    Poses,          \* the orientations a frame may carry
    Near,           \* the pairs of poses less than 1.25 apart; any relation,
                    \* since rounding may make a pose far even from itself
    NoPose,         \* the reference before the first frame
    Limit,          \* 10: where the counter stops counting
    Threshold,      \* 9: the count that puts the LED out
    MaxHistory,     \* bound of the model: where the history counters stop
    MaxFrames       \* bound of the model: frames transmitted

ASSUME SendCountAssumption == SendCount \in Nat /\ SendCount > 2
ASSUME ReplyCountAssumption == ReplyCount \in 1 .. SendCount
ASSUME OverreadAssumption == Overread \in Nat
ASSUME PosesAssumption == NoPose \notin Poses
ASSUME LimitAssumption == Limit \in Nat /\ Threshold \in 1 .. Limit
ASSUME HistoryAssumption == MaxHistory \in Nat /\ MaxHistory >= Limit

VARIABLES
    pc,         \* where SPI_Task is
    next,       \* the byte it writes or transmits next
    frame,      \* the frame it works on
    buffer,     \* WriteBuffer
    wire,       \* the bytes of the current or last transfer
    disturbed,  \* a reply was written since the frame was begun (history)
    firstFlag,  \* no frame was compared yet
    lastQ,      \* the reference
    counter,
    led,        \* the LED is lit
    nears,      \* the last nears comparisons said near (history)
    fars,       \* the last fars comparisons said far (history)
    allFars     \* the comparisons that ever said far (history)

frameVars == <<pc, next, frame, buffer, wire, disturbed>>
poseVars == <<firstFlag, lastQ, counter, led, nears, fars, allFars>>
vars == <<frameVars, poseVars>>

Final  == 0
Header == -1
Reply  == -2
Behind == -3

Cells == 0 .. SendCount - 1
Body  == 1 .. SendCount - 2

Init ==
    /\ pc = "receive"
    /\ next = 0
    /\ frame = 0
    /\ buffer = [k \in Cells |-> Final]
    /\ wire = <<>>
    /\ disturbed = FALSE
    /\ firstFlag = TRUE
    /\ lastQ = NoPose
    /\ counter = 0
    /\ led = FALSE
    /\ nears = 0
    /\ fars = 0
    /\ allFars = 0

-----------------------------------------------------------------------------
(* The frame. *)

\* xQueueReceive() returned the floats of the next frame.
Receive ==
    /\ pc = "receive"
    /\ frame < MaxFrames
    /\ frame' = frame + 1
    /\ next' = 1
    /\ disturbed' = FALSE
    /\ pc' = "floats"
    /\ UNCHANGED <<buffer, wire, poseVars>>

\* One byte of one float.
WriteFloat ==
    /\ pc = "floats"
    /\ buffer' = [buffer EXCEPT ![next] = frame]
    /\ next' = next + 1
    /\ pc' = IF next = SendCount - 2 THEN "header" ELSE "floats"
    /\ UNCHANGED <<frame, wire, disturbed, poseVars>>

\* Slip: the header is taken to be there from the frame before.
HeaderKept == buffer

WithHeader == [buffer EXCEPT ![0] = Header]

WriteHeader ==
    /\ pc = "header"
    /\ buffer' = WithHeader
    /\ pc' = "final"
    /\ UNCHANGED <<next, frame, wire, disturbed, poseVars>>

WriteFinal ==
    /\ pc = "final"
    /\ buffer' = [buffer EXCEPT ![SendCount - 1] = Final]
    /\ next' = 0
    /\ wire' = <<>>
    /\ pc' = "transfer"
    /\ UNCHANGED <<frame, disturbed, poseVars>>

\* XSpiPs_PolledTransfer() takes one byte after the other from the buffer and
\* goes on behind it.
Transfer ==
    /\ pc = "transfer"
    /\ wire' = Append(wire, IF next \in Cells THEN buffer[next] ELSE Behind)
    /\ next' = next + 1
    /\ pc' = IF next = SendCount + Overread - 1 THEN "evaluate" ELSE "transfer"
    /\ UNCHANGED <<frame, buffer, disturbed, poseVars>>

ReplyCells == 0 .. ReplyCount - 1

\* I2C_Task, at its higher priority, writes its reply in one go.
WriteReply ==
    /\ buffer' = [k \in Cells |-> IF k \in ReplyCells THEN Reply ELSE buffer[k]]
    /\ disturbed' = TRUE
    /\ UNCHANGED <<pc, next, frame, wire, poseVars>>

-----------------------------------------------------------------------------
(* The LED. *)

\* Slip: what the name says: the pose of the previous frame.
Latest(q) == q

\* The first pose that is a number becomes the reference, for ever.
Reference(q) == IF firstFlag THEN q ELSE lastQ

\* The counter starts at zero with the first comparison.
Started == IF firstFlag THEN 0 ELSE counter

\* Slip: the counter counts without a limit.
Unlimited(near) ==
    IF near
      THEN IF Started > 0 THEN Started - 1 ELSE Started
      ELSE Started + 1

\* Slip: one outlier counts as a whole run of them.
Jumping(near) ==
    IF near
      THEN IF Started > 0 THEN Started - 1 ELSE Started
      ELSE Limit

Counted(near) ==
    IF near
      THEN IF Started > 0 THEN Started - 1 ELSE Started
      ELSE IF Started < Limit THEN Started + 1 ELSE Started

\* Slip: one frame late.
LateLit(n) == n <= Threshold

Lit(n) == n < Threshold

Capped(n) == IF n < MaxHistory THEN n + 1 ELSE n

Evaluated ==
    /\ pc = "evaluate"
    /\ pc' = "receive"
    /\ UNCHANGED <<next, frame, buffer, wire, disturbed>>

\* One call with a pose.
Evaluate(q) ==
    LET near == <<q, Reference(q)>> \in Near
    IN  /\ Evaluated
        /\ firstFlag' = FALSE
        /\ lastQ' = Reference(q)
        /\ counter' = Counted(near)
        /\ led' = Lit(Counted(near))
        /\ nears' = IF near THEN Capped(nears) ELSE 0
        /\ fars' = IF near THEN 0 ELSE Capped(fars)
        /\ allFars' = IF near THEN allFars ELSE Capped(allFars)

\* "catches NAN values": a quaternion that is not a number ends the call.
EvaluateNaN == Evaluated /\ UNCHANGED poseVars

SpiStep ==
    \/ Receive
    \/ WriteFloat
    \/ WriteHeader
    \/ WriteFinal
    \/ Transfer
    \/ \E q \in Poses : Evaluate(q)
    \/ EvaluateNaN

Next == SpiStep \/ WriteReply

Spec == Init /\ [][Next]_vars

-----------------------------------------------------------------------------
\* The byte that belongs in cell k of the frame on the wire.
Due(k) ==
    CASE k = 0 -> Header
      [] k \in Body -> frame
      [] k = SendCount - 1 -> Final
      [] OTHER -> Behind

\* Out of the reply's reach, in place or in time.
Kept(k) == k >= ReplyCount \/ ~disturbed

Transmitting == pc \in {"transfer", "evaluate"} \/ (pc = "receive" /\ frame > 0)

\* Though the two tasks share the array, every byte on the wire is the one
\* that was composed for it, except for the first bytes of a frame during
\* which a reply was written: a reply never reaches further, and what earlier
\* replies left in the array never reaches the wire.
DamageConfined ==
    Transmitting =>
        \A k \in 0 .. SendCount + Overread - 1 :
            k < Len(wire) /\ Kept(k) => wire[k + 1] = Due(k)

\* However long the arm was away, Limit - Threshold + 1 comparisons near the
\* reference light the LED again: the counter must not run away.
Recovers == nears > Limit - Threshold => led

\* Threshold comparisons in a row that say far put the LED out.
GoesOut == fars >= Threshold => ~led

\* It takes at least Threshold comparisons that say far to put it out: a
\* single outlier, or a few, never do.
Tolerant == ~firstFlag /\ allFars < Threshold => led

\* The reference never moves: what counts is the distance from the first pose
\* and not from the previous one, as the name lastQ suggests, so a slow drift
\* is seen.
ReferenceFixed == [][lastQ # NoPose => lastQ' = lastQ]_vars
=============================================================================
