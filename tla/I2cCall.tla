------------------------------ MODULE I2cCall -------------------------------
(***************************************************************************)
(* What the I2C driver of the MSP430 promises the program that calls it:   *)
(* a call moves its bytes one after the other; it returns 0 when all are   *)
(* moved or the device has refused one, and -1 otherwise.  What a device   *)
(* refuses of a read is its beginning, so that nothing is stored; it may   *)
(* refuse the last byte of a write when the call has returned.             *)
(***************************************************************************)
EXTENDS Naturals

CONSTANT Length         \* bytes of a transfer

VARIABLES
    busy,               \* a call is under way
    reads,              \* the last call reads
    asked, moved,       \* its bytes
    refused,            \* the device has not acknowledged it
    result

vars == <<busy, reads, asked, moved, refused, result>>

Init ==
    /\ busy = FALSE /\ reads = FALSE
    /\ asked = 0 /\ moved = 0
    /\ refused = FALSE /\ result = "none"

Begin ==
    /\ ~busy
    /\ busy' = TRUE
    /\ reads' \in BOOLEAN
    /\ asked' \in 1..Length /\ moved' = 0
    /\ refused' = FALSE /\ result' = "none"

Transfer ==
    /\ busy /\ ~refused /\ moved < asked
    /\ moved' = moved + 1
    /\ UNCHANGED <<busy, reads, asked, refused, result>>

Refuse ==
    /\ ~refused
    /\ busy \/ (result = "ok" /\ ~reads)
    /\ reads => moved = 0
    /\ refused' = TRUE
    /\ UNCHANGED <<busy, reads, asked, moved, result>>

Return ==
    /\ busy
    /\ refused \/ moved = asked
    /\ busy' = FALSE /\ result' = "ok"
    /\ UNCHANGED <<reads, asked, moved, refused>>

GiveUp ==
    /\ busy
    /\ busy' = FALSE /\ result' = "timeout"
    /\ UNCHANGED <<reads, asked, moved, refused>>

Next == Begin \/ Transfer \/ Refuse \/ Return \/ GiveUp

Spec == Init /\ [][Next]_vars

\* A call that returned 0 has moved every byte unless it was refused, and of a
\* read that was refused nothing is stored: the caller's buffer is all old or
\* all new, unless the call timed out.
AllOrNothing ==
    /\ result = "ok" => ~busy /\ (refused \/ moved = asked)
    /\ reads /\ refused => moved = 0
=============================================================================
