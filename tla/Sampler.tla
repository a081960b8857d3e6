------------------------------ MODULE Sampler -------------------------------
(***************************************************************************)
(* The main loop of the MSP430 (MSP_ICM/main.c): a timer interrupt sets    *)
(* timerFlag every second time; the loop then reads the sensors one after  *)
(* the other through a multiplexer, and sends their accelerations to the   *)
(* ESP32.                                                                  *)
(*                                                                         *)
(* A call of the I2C driver is what I2cCall promises: it succeeds, times   *)
(* out, or is refused by the device, which looks like a success to the     *)
(* caller; a read that is refused stores nothing.  A device that refuses   *)
(* the last byte of a write does so when the call has returned: the        *)
(* outcome of a call is what it turns out to be.                           *)
(***************************************************************************)
EXTENDS Naturals

CONSTANTS
    Sensors         \* sensors polled in a round: 5

ASSUME SensorsAssumption == Sensors \in Nat \ {0}

Imus == 0 .. Sensors - 1
Outcomes == {"ok", "refused", "timeout"}

VARIABLES
    flagCount, timerFlag,
    pc, imu,
    mux,            \* the sensor the multiplexer connects
    output,         \* whose reading output[k] is, and whether of this round
    owed,           \* a tick not yet answered by a round (history)
    failed          \* sensors with a call that did not succeed (history)

timer == <<flagCount, timerFlag>>
vars == <<timer, pc, imu, mux, output, owed, failed>>

\* On the stack of IMU_Startup_Poll(): whatever was there.
Garbage == [of |-> Sensors, fresh |-> FALSE]

Init ==
    /\ flagCount = 0 /\ timerFlag = 0
    /\ pc = "wait" /\ imu = 0
    /\ mux \in Imus
    /\ output = [k \in Imus |-> Garbage]
    /\ owed = FALSE /\ failed = {}

-----------------------------------------------------------------------------
(* TIMERA0_ISR                                                             *)

\* An interrupt comes between any two steps of the loop.
Tick ==
    /\ flagCount' = (flagCount + 1) % 2
    /\ timerFlag' = IF flagCount = 1 THEN 1 ELSE timerFlag
    /\ owed' = (owed \/ flagCount = 1)
    /\ UNCHANGED <<pc, imu, mux, output, failed>>

-----------------------------------------------------------------------------
(* The loop of IMU_Startup_Poll(), and pollIMU().                          *)

Wait ==
    /\ pc = "wait" /\ timerFlag # 0
    /\ pc' = "clear"
    /\ UNCHANGED <<timer, imu, mux, output, owed, failed>>

\* A round begins; the readings of the last one are old.
Begin ==
    /\ pc' = "mux" /\ imu' = 0
    /\ output' = [k \in Imus |-> [output[k] EXCEPT !.fresh = FALSE]]
    /\ owed' = FALSE
    /\ failed' = {}

Clear ==
    /\ pc = "clear"
    /\ timerFlag' = 0
    /\ Begin
    /\ UNCHANGED <<flagCount, mux>>

Failing(outcome) == failed' = IF outcome = "ok" THEN failed ELSE failed \cup {imu}

\* Slip: the multiplexer is set only when the last sensor failed.
SelectMuxLazy ==
    /\ pc = "mux"
    /\ mux' = IF imu - 1 \in failed THEN imu ELSE mux
    /\ pc' = "bank"
    /\ UNCHANGED <<timer, imu, output, owed, failed>>

\* The address may have reached a multiplexer that timed out after it.
SelectMux ==
    /\ pc = "mux"
    /\ \E outcome \in Outcomes :
        /\ mux' \in CASE outcome = "ok" -> {imu}
                      [] outcome = "refused" -> {mux}
                      [] outcome = "timeout" -> {mux, imu}
        /\ Failing(outcome)
    /\ pc' = "bank"
    /\ UNCHANGED <<timer, imu, output, owed>>

NextImu ==
    IF imu = Sensors - 1 THEN pc' = "send" /\ UNCHANGED imu
                         ELSE pc' = "mux" /\ imu' = imu + 1

\* Slip: a sensor that times out is tried again, for ever.
WriteBankRetry ==
    /\ pc = "bank"
    /\ \E outcome \in Outcomes :
        /\ pc' = IF outcome = "timeout" THEN "mux" ELSE "accel"
        /\ Failing(outcome)
    /\ UNCHANGED <<timer, imu, mux, output, owed>>

\* mpu_get_accel_reg(): the bank is written first, and a time-out ends it.
WriteBank ==
    /\ pc = "bank"
    /\ \E outcome \in Outcomes :
        /\ IF outcome = "timeout" THEN NextImu ELSE pc' = "accel" /\ UNCHANGED imu
        /\ Failing(outcome)
    /\ UNCHANGED <<timer, mux, output, owed>>

\* A read that is refused leaves tmp as the stack had it: bytes of an earlier
\* reading, or none.
ReadAccel ==
    /\ pc = "accel"
    /\ \E outcome \in Outcomes :
        /\ \/ outcome = "ok" /\ output' = [output EXCEPT ![imu] = [of |-> mux, fresh |-> TRUE]]
           \/ outcome = "timeout" /\ UNCHANGED output
           \/ /\ outcome = "refused"
              /\ \E r \in {Garbage} \cup {output[k] : k \in Imus} :
                     output' = [output EXCEPT ![imu] = r]
        /\ Failing(outcome)
    /\ NextImu
    /\ UNCHANGED <<timer, mux, owed>>

\* Slip: ticks of the round are forgotten.
SendFrameClear ==
    /\ pc = "send"
    /\ pc' = "wait"
    /\ timerFlag' = 0
    /\ UNCHANGED <<flagCount, imu, mux, output, owed, failed>>

\* The 36 bytes; pollIMU() read the gyroscopes as well, which are not sent.
SendFrame ==
    /\ pc = "send"
    /\ pc' = "wait"
    /\ UNCHANGED <<timer, imu, mux, output, owed, failed>>

Loop == Wait \/ Clear \/ SelectMux \/ WriteBank \/ ReadAccel \/ SendFrame

Next == Tick \/ Loop

Spec == Init /\ [][Next]_vars

\* The timer runs, the loop runs, and every call of the driver returns.
FairSpec == Spec /\ WF_vars(Tick) /\ WF_vars(Loop)

-----------------------------------------------------------------------------
TypeOK ==
    /\ flagCount \in 0 .. 1 /\ timerFlag \in 0 .. 1
    /\ pc \in {"wait", "clear", "mux", "bank", "accel", "send"}
    /\ imu \in Imus /\ mux \in Imus
    /\ output \in [Imus -> [of : 0 .. Sensors, fresh : BOOLEAN]]
    /\ owed \in BOOLEAN
    /\ failed \subseteq Imus

\* In the frame that is sent a sensor whose own calls succeeded has its own
\* reading of this round, whatever happened to the others and to earlier rounds:
\* the multiplexer that a failure leaves behind does no harm to the next one.
FaultConfined ==
    pc = "send" => \A k \in Imus \ failed : output[k] = [of |-> k, fresh |-> TRUE]

\* A tick that comes while a round is under way is kept for the next round,
\* and so is one between the test of timerFlag and its reset.
NoTickLost == owed => timerFlag = 1 \/ pc = "clear"

\* Frames keep coming, however the calls fail.
FramesKeepComing == []<>(pc = "send")

\* What makes FaultConfined inductive: it holds for the sensors polled so far,
\* and the multiplexer is right unless it failed.
Own(k) == output[k] = [of |-> k, fresh |-> TRUE]
Polled ==
    /\ pc \in {"mux", "bank", "accel"} => \A k \in Imus : k < imu /\ k \notin failed => Own(k)
    /\ pc \in {"bank", "accel"} => imu \in failed \/ mux = imu
    /\ pc = "send" => \A k \in Imus \ failed : Own(k)
IInv == TypeOK /\ Polled /\ NoTickLost
=============================================================================
