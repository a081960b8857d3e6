------------------------------- MODULE Bridge -------------------------------
(***************************************************************************)
(* The ESP32: app_main() receives SPI transactions in a loop and forwards  *)
(* those that begin with "AA" over Bluetooth, to the connection that       *)
(* esp_spp_cb() noted last.  The two run in different tasks and share the  *)
(* globals handle and writeAvailable without a lock.                       *)
(*                                                                         *)
(* A byte of the receive buffer is abstracted to where it comes from (the  *)
(* filler of memset(), the last transaction, an earlier one, the memory    *)
(* behind the buffer) and whether it is the letter 'A'.  The Bluetooth     *)
(* stack, which opens, closes and congests connections and queues an event *)
(* for the callback each time, and the SPI sender are external.            *)
(***************************************************************************)
EXTENDS Integers, Sequences

CONSTANTS
    Handles,            \* the handles the stack gives to connections
    NoHandle,           \* NULL
    TransactionSize,    \* 20: the bytes a transaction holds at most
    BufferSize,         \* 21: sizeof recvbuf
    WriteSize,          \* 28: the bytes forwarded
    MaxEvents           \* bound of the model: events that wait for the callback

ASSUME HandlesAssumption == NoHandle \notin Handles
ASSUME SizeAssumption ==
    /\ TransactionSize \in Nat /\ BufferSize \in Nat /\ WriteSize \in Nat
    /\ 2 <= TransactionSize /\ TransactionSize <= BufferSize /\ BufferSize <= WriteSize

VARIABLES
    pc,                 \* where app_main() is
    recvbuf,
    handle,             \* the connection that opened last, for the loop
    writeAvailable,     \* set by the callback, read by nobody
    events,             \* the events the callback has not yet seen
    open,               \* the connections that are open
    congested,          \* those that take no data at present
    newest,             \* the connection opened last, for the stack (history)
    sent                \* the last frame forwarded and where to (history)

loopVars == <<pc, recvbuf>>
callbackVars == <<handle, writeAvailable>>
stackVars == <<open, congested, newest>>
vars == <<loopVars, callbackVars, events, stackVars, sent>>

Origins == {"filler", "fresh", "stale", "behind"}
Byte(origin, letter) == [origin |-> origin, letter |-> letter]
Bytes == [origin : Origins, letter : BOOLEAN]
Cells == 0 .. BufferSize - 1

Nothing == [to |-> NoHandle, bytes |-> <<>>]

Init ==
    /\ pc = "clear"
    /\ recvbuf = [k \in Cells |-> Byte("filler", FALSE)]
    /\ handle = NoHandle
    /\ writeAvailable = TRUE
    /\ events = <<>>
    /\ open = {}
    /\ congested = {}
    /\ newest = NoHandle
    /\ sent = Nothing

-----------------------------------------------------------------------------
(* The loop of app_main(). *)

\* Slip: the memset() is left out.
NotCleared == recvbuf

Cleared == [k \in Cells |-> Byte("filler", FALSE)]

Clear ==
    /\ pc = "clear"
    /\ recvbuf' = Cleared
    /\ pc' = "transmit"
    /\ UNCHANGED <<callbackVars, events, stackVars, sent>>

Aged(byte) == IF byte.origin = "fresh" THEN Byte("stale", byte.letter) ELSE byte

\* The sender ends a transaction after length bytes, of which the first
\* letters are 'A'; the rest of the buffer stays as it was.
Transaction(length, letters) ==
    /\ pc = "transmit"
    /\ recvbuf' = [k \in Cells |->
                     IF k < length THEN Byte("fresh", k < letters) ELSE Aged(recvbuf[k])]
    /\ pc' = "check"
    /\ UNCHANGED <<callbackVars, events, stackVars, sent>>

\* The two tests of the header, each with its continue.  For a frame, the copy
\* sprintf(outbuf, "%s", recvbuf) follows, which nothing reads.  It ends at the
\* first zero byte, and neither the filler nor a transaction need have one: the
\* model assumes that one comes before outbuf, of 28 bytes, is full.
IsFrame == recvbuf[0].letter /\ recvbuf[1].letter

Check ==
    /\ pc = "check"
    /\ pc' = IF IsFrame THEN "test" ELSE "clear"
    /\ UNCHANGED <<recvbuf, callbackVars, events, stackVars, sent>>

\* if (handle), and then the handle is read again.
Test ==
    /\ pc = "test"
    /\ pc' = IF handle # NoHandle THEN "write" ELSE "clear"
    /\ UNCHANGED <<recvbuf, callbackVars, events, stackVars, sent>>

\* Nobody looks at what the call returns: to a closed or congested connection
\* the frame is lost.
Forwarded ==
    [k \in 0 .. WriteSize - 1 |->
        IF k \in Cells THEN recvbuf[k] ELSE Byte("behind", FALSE)]

Write ==
    /\ pc = "write"
    /\ sent' = [to |-> handle, bytes |-> Forwarded]
    /\ pc' = "clear"
    /\ UNCHANGED <<recvbuf, callbackVars, events, stackVars>>

LoopStep == Clear \/ Check \/ Test \/ Write

-----------------------------------------------------------------------------
(* esp_spp_cb(), called by the stack with one event after the other. *)

Took(type) ==
    /\ events # <<>>
    /\ Head(events).type = type
    /\ events' = Tail(events)

\* Slip: as the comment at the end of app_main() proposes, "make the handle
\* null" when the connection is lost.
HandleOfClosed == IF Head(events).handle = handle THEN NoHandle ELSE handle

\* ESP_SPP_CLOSE_EVT is only logged: the handle stays.
HandleAfterClose == handle

CloseEvent ==
    /\ Took("close")
    /\ handle' = HandleAfterClose
    /\ UNCHANGED <<writeAvailable, loopVars, stackVars, sent>>

\* Slip: the first connection keeps the loop.
HandleOfFirst == IF handle = NoHandle THEN Head(events).handle ELSE handle

HandleAfterOpen == Head(events).handle

SrvOpenEvent ==
    /\ Took("srv_open")
    /\ handle' = HandleAfterOpen
    /\ writeAvailable' = FALSE
    /\ UNCHANGED <<loopVars, stackVars, sent>>

\* A congestion that begins is only logged; for one that ends two zeros are
\* written, and for data received a thousand 'H'.  Neither touches the loop's
\* variables.
OtherEvent ==
    /\ Took("cong") \/ Took("data")
    /\ UNCHANGED <<callbackVars, loopVars, stackVars, sent>>

\* ESP_SPP_WRITE_EVT, which follows a write sooner or later.
WriteEvent ==
    /\ writeAvailable' = TRUE
    /\ UNCHANGED <<handle, events, loopVars, stackVars, sent>>

Callback == CloseEvent \/ SrvOpenEvent \/ OtherEvent

-----------------------------------------------------------------------------
(* The stack and the clients. *)

Announce(type, h) ==
    /\ Len(events) < MaxEvents
    /\ events' = Append(events, [type |-> type, handle |-> h])

Connect(h) ==
    /\ h \notin open
    /\ open' = open \cup {h}
    /\ newest' = h
    /\ Announce("srv_open", h)
    /\ UNCHANGED <<congested, loopVars, callbackVars, sent>>

Disconnect(h) ==
    /\ h \in open
    /\ open' = open \ {h}
    /\ congested' = congested \ {h}
    /\ Announce("close", h)
    /\ UNCHANGED <<newest, loopVars, callbackVars, sent>>

Congest(h) ==
    /\ h \in open
    /\ congested' = IF h \in congested THEN congested \ {h} ELSE congested \cup {h}
    /\ Announce("cong", h)
    /\ UNCHANGED <<open, newest, loopVars, callbackVars, sent>>

Send(h) ==
    /\ h \in open
    /\ Announce("data", h)
    /\ UNCHANGED <<stackVars, loopVars, callbackVars, sent>>

Next ==
    \/ LoopStep
    \/ \E length \in 0 .. TransactionSize, letters \in 0 .. 2 : Transaction(length, letters)
    \/ Callback
    \/ WriteEvent
    \/ \E h \in Handles : Connect(h) \/ Disconnect(h) \/ Congest(h) \/ Send(h)

Spec == Init /\ [][Next]_vars

\* The two tasks run whenever they can, and the sender goes on sending frames.
Fairness ==
    /\ WF_vars(LoopStep)
    /\ WF_vars(Callback)
    /\ SF_vars(\E length \in 2 .. TransactionSize : Transaction(length, 2))

FairSpec == Spec /\ Fairness

-----------------------------------------------------------------------------
\* What a client receives is the beginning of one transaction, then filler,
\* then what lies behind the buffer: a short transaction never brings back
\* the end of an earlier one, nor does one of no bytes send a frame again.
FrameShape ==
    sent # Nothing =>
        \E length \in 2 .. TransactionSize :
            \A k \in 0 .. WriteSize - 1 :
                sent.bytes[k].origin =
                    CASE k < length -> "fresh"
                      [] k \in length .. BufferSize - 1 -> "filler"
                      [] OTHER -> "behind"

\* The handle is tested and then read again, and the callback may run between
\* the two: it must not have become NULL.
HandleStaysValid == pc = "write" => handle \in Handles

\* The newest client, if it stays and takes data, gets frames again and again,
\* whatever connections there were before.
NewestIsServed ==
    \A h \in Handles :
        <>[](newest = h /\ h \in open /\ h \notin congested)
            => []<><<Write /\ handle = h>>_vars
=============================================================================
