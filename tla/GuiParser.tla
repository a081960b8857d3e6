----------------------------- MODULE GuiParser ------------------------------
(***************************************************************************)
(* parseAccel() of the GUI (testing.cs, ConductingEval.cs): it looks for   *)
(* an 'A', reads one frame byte by byte, checks the 'A' before the data of *)
(* every sensor, and throws away what else has arrived.  testing.cs reads  *)
(* the samples of all five sensors of a frame, ConductingEval.cs those of  *)
(* the first one, and then looks for the next frame.                       *)
(*                                                                         *)
(* The line delivers the frames that MSP_ICM/main.c sends, byte for byte   *)
(* and in order; bytes may be lost on it, and none is added.  It is not    *)
(* the forwarding loop of the ESP32 (module Bridge), which makes writes of *)
(* 28 bytes of the 20 it takes of a transaction: 36 bytes do not pass it   *)
(* whole.                                                                  *)
(*                                                                         *)
(* A byte is its value and the place it was sent from: the frame, and the  *)
(* position in it.                                                         *)
(***************************************************************************)
EXTENDS Integers, Sequences

CONSTANTS
    Sensors,        \* sensors of a frame: 5
    IMUCount,       \* sensors that are read: 5 in testing.cs, 1 in ConductingEval.cs
    Axes,           \* samples of a sensor: 3
    Data,           \* the values of the data bytes
    MaxLost,        \* bytes lost of any one frame, at most
    MaxFrames,      \* bound of the model: frames sent
    MaxBuffer       \* bound of the model: bytes that wait

A == 65

ASSUME ShapeAssumption == Sensors \in Nat \ {0} /\ IMUCount \in 1 .. Sensors /\ Axes \in Nat \ {0}
ASSUME DataAssumption == Data \subseteq 0 .. 255
ASSUME BoundsAssumption == MaxLost \in Nat /\ MaxFrames \in Nat /\ MaxBuffer \in Nat

VARIABLES
    frame, position, lost,      \* the line: what is sent next, lost of this frame
    lossless,                   \* nothing was ever lost (history)
    buffer,                     \* arrived, and not read
    pc, i, bytes,               \* parseAccel(); bytes[1] is read first
    t,                          \* where the two bytes of each sample are from
    accepted,                   \* the last call returned true
    misled                      \* it took a data byte for a flag (history)

line   == <<frame, position, lost, lossless>>
parser == <<pc, i, bytes, t, accepted, misled>>
vars == <<line, buffer, parser>>

Samples == 0 .. IMUCount * Axes - 1

\* A frame: 'A', and 'A' and two bytes for each sample of every sensor.
Group == 1 + 2 * Axes
FrameSize == 1 + Sensors * Group
IsFlag(p) == p = 0 \/ (p - 1) % Group = 0
HighOf(j) == 2 + (j \div Axes) * Group + 2 * (j % Axes)

NoByte == [value |-> 0, frame |-> 0, position |-> 0]

Init ==
    /\ frame = 1 /\ position = 0 /\ lost = 0 /\ lossless = TRUE
    /\ buffer = <<>>
    /\ pc = "sync" /\ i = 0 /\ bytes = NoByte
    /\ t = [j \in Samples |-> <<NoByte, NoByte>>]
    /\ accepted = FALSE /\ misled = FALSE

-----------------------------------------------------------------------------
(* The line.                                                               *)

NextByte ==
    /\ frame <= MaxFrames
    /\ position' = (position + 1) % FrameSize
    /\ frame' = IF position + 1 = FrameSize THEN frame + 1 ELSE frame

Lost(n) == lost' = IF position + 1 = FrameSize THEN 0 ELSE n

Send ==
    /\ Len(buffer) < MaxBuffer
    /\ \E v \in IF IsFlag(position) THEN {A} ELSE Data :
           buffer' = Append(buffer, [value |-> v, frame |-> frame, position |-> position])
    /\ NextByte /\ Lost(lost)
    /\ UNCHANGED <<lossless, parser>>

Lose ==
    /\ lost < MaxLost
    /\ NextByte /\ Lost(lost + 1)
    /\ lossless' = FALSE
    /\ UNCHANGED <<buffer, parser>>

-----------------------------------------------------------------------------
(* parseAccel()                                                            *)

Arrived == buffer # <<>>
Byte == Head(buffer)
Read == buffer' = Tail(buffer)

\* Nothing but its place tells a data byte of 65 from a flag.
FalseFlag == Byte.value = A /\ ~IsFlag(Byte.position)

Sync ==
    /\ pc = "sync" /\ Arrived
    /\ Read
    /\ accepted' = FALSE
    /\ pc' = IF Byte.value = A THEN "frame" ELSE "sync"
    /\ i' = 0
    /\ misled' = FalseFlag
    /\ UNCHANGED <<bytes, t, line>>

\* The call returns, and what else has arrived is thrown away.
Return(result) ==
    /\ pc' = "sync"
    /\ accepted' = result
    /\ buffer' = <<>>

\* Slip: the flags are skipped unseen.
FlagSkipped ==
    /\ pc = "frame" /\ i % (Axes + 1) = 0 /\ Arrived
    /\ Read /\ i' = i + 1 /\ UNCHANGED <<pc, accepted>>
    /\ UNCHANGED <<bytes, t, misled, line>>

Flag ==
    /\ pc = "frame" /\ i % (Axes + 1) = 0 /\ Arrived
    /\ IF Byte.value = A
         THEN Read /\ i' = i + 1 /\ UNCHANGED <<pc, accepted>>
         ELSE Return(FALSE) /\ UNCHANGED i
    /\ misled' = (misled \/ FalseFlag)
    /\ UNCHANGED <<bytes, t, line>>

HighByte ==
    /\ pc = "frame" /\ i % (Axes + 1) # 0 /\ Arrived
    /\ Read
    /\ bytes' = Byte
    /\ pc' = "low"
    /\ UNCHANGED <<i, t, accepted, misled, line>>

FrameBreakCount == (i \div (Axes + 1)) + 1

\* What a sample is worth is nothing to the parser.
Origin(b) == [b EXCEPT !.value = 0]

LastSample == i = IMUCount * (Axes + 1) - 1

LowByte ==
    /\ pc = "low" /\ Arrived
    /\ IF bytes.value = 0 /\ Byte.value = 0
         THEN Return(FALSE) /\ UNCHANGED <<i, t>>
         ELSE /\ t' = [t EXCEPT ![i - FrameBreakCount] = <<Origin(bytes), Origin(Byte)>>]
              /\ IF LastSample
                   THEN Return(TRUE) /\ UNCHANGED i
                   ELSE Read /\ pc' = "frame" /\ i' = i + 1 /\ UNCHANGED accepted
    /\ UNCHANGED <<bytes, misled, line>>

\* ReadByte() throws after 200 ms; Update() throws it on, and is called again.
ReadTimeout ==
    /\ ~Arrived
    /\ pc' = "sync"
    /\ accepted' = FALSE
    /\ UNCHANGED <<buffer, i, bytes, t, misled, line>>

ParseAccel == Sync \/ Flag \/ HighByte \/ LowByte \/ ReadTimeout

Next == Send \/ Lose \/ ParseAccel

Spec == Init /\ [][Next]_vars

-----------------------------------------------------------------------------
TypeOK ==
    /\ frame \in 1 .. MaxFrames + 1 /\ position \in 0 .. FrameSize - 1 /\ lost \in 0 .. MaxLost
    /\ lossless \in BOOLEAN
    /\ pc \in {"sync", "frame", "low"}
    /\ i \in 0 .. IMUCount * (Axes + 1) - 1
    /\ DOMAIN t = Samples
    /\ accepted \in BOOLEAN /\ misled \in BOOLEAN

\* The samples of the sensors ks are those of frame f, each in its place.
From(f, ks) ==
    \A j \in Samples : j \div Axes \in ks =>
        /\ t[j][1].frame = f /\ t[j][1].position = HighOf(j)
        /\ t[j][2].frame = f /\ t[j][2].position = HighOf(j) + 1

\* An accepted frame is one frame of the glove, whole and in place, however
\* the reader was cut off before and wherever in the stream it began: as long
\* as no byte is lost, and unless a data byte of 65 was taken for a flag in
\* this very call.
WholeFrame ==
    accepted /\ lossless /\ ~misled => \E f \in 1 .. MaxFrames : From(f, 0 .. IMUCount - 1)

\* When fewer bytes of a frame are lost than a sensor has, the flags confine
\* the damage to the last sensor that is read: no flag after it is.
DamageConfined ==
    accepted /\ ~misled => \E f \in 1 .. MaxFrames : From(f, 0 .. IMUCount - 2)
=============================================================================
