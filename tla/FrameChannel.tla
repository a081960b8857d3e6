---------------------------- MODULE FrameChannel ----------------------------
(***************************************************************************)
(* What the Zynq pipeline promises to its two neighbours: a bounded, lossless, *)
(* order-preserving channel from the I2C slave (frames accepted) to the    *)
(* SPI master (frames put on the wire).  Frames are named by the order in  *)
(* which they were accepted.  The channel may stop for good: the program   *)
(* has a hook that never returns.                                          *)
(***************************************************************************)
EXTENDS Naturals, Sequences

CONSTANT Capacity       \* frames the channel can hold

VARIABLES
    accepted,           \* number of frames taken in so far
    wire,               \* the frames that left the channel, oldest first
    stopped             \* the program entered the hook that never returns

vars == <<accepted, wire, stopped>>

Init ==
    /\ accepted = 0
    /\ wire = <<>>
    /\ stopped = FALSE

Accept ==
    /\ ~stopped
    /\ accepted - Len(wire) < Capacity
    /\ accepted' = accepted + 1
    /\ UNCHANGED <<wire, stopped>>

\* The next frame to leave is always the oldest one that has not left yet.
Deliver ==
    /\ ~stopped
    /\ Len(wire) < accepted
    /\ wire' = Append(wire, Len(wire) + 1)
    /\ UNCHANGED <<accepted, stopped>>

Stop ==
    /\ ~stopped
    /\ stopped' = TRUE
    /\ UNCHANGED <<accepted, wire>>

Next == Accept \/ Deliver \/ Stop

Spec == Init /\ [][Next]_vars
=============================================================================
