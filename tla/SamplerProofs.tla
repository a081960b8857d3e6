--------------------------- MODULE SamplerProofs ----------------------------
(***************************************************************************)
(* What Sampler promises, for every number of sensors.                     *)
(***************************************************************************)
EXTENDS Sampler, TLAPS

USE SensorsAssumption DEF Imus

LEMMA InitIInv == Init => IInv
<1> SUFFICES ASSUME Init PROVE IInv
  OBVIOUS
<1>1. 0 \in 0 .. 1 /\ 0 \in Imus
  OBVIOUS
<1>2. [k \in Imus |-> Garbage] \in [Imus -> [of : 0 .. Sensors, fresh : BOOLEAN]]
  BY DEF Garbage
<1>3. TypeOK
  BY <1>1, <1>2, Zenon DEF Init, TypeOK
<1>4. Polled /\ NoTickLost
  BY DEF Init, Polled, NoTickLost
<1> QED BY <1>3, <1>4 DEF IInv

\* Behind a sensor the next one follows, or the frame.
LEMMA Onward ==
    ASSUME TypeOK, NextImu, output' \in [Imus -> [of : 0 .. Sensors, fresh : BOOLEAN]],
           failed' \subseteq Imus,
           \A k \in Imus : k <= imu /\ k \notin failed' => Own(k)'
    PROVE  /\ Polled'
           /\ imu' \in Imus /\ pc' \in {"mux", "send"}
<1>1. CASE imu = Sensors - 1
  <2>1. pc' = "send" /\ imu' = imu
    BY <1>1 DEF NextImu
  <2>2. \A k \in Imus : k <= imu
    BY <1>1
  <2> QED BY <2>1, <2>2 DEF Polled, TypeOK
<1>2. CASE imu # Sensors - 1
  <2>1. pc' = "mux" /\ imu' = imu + 1 /\ imu' \in Imus
    BY <1>2 DEF NextImu, TypeOK
  <2>2. \A k \in Imus : k < imu' => k <= imu
    BY <2>1 DEF TypeOK
  <2> QED BY <2>1, <2>2 DEF Polled
<1> QED BY <1>1, <1>2

LEMMA NextIInv == IInv /\ [Next]_vars => IInv'
<1> SUFFICES ASSUME IInv, [Next]_vars PROVE IInv'
  OBVIOUS
<1>1. TypeOK /\ Polled /\ NoTickLost
  BY DEF IInv
<1>2. CASE Tick
  <2>1. /\ flagCount' \in 0 .. 1 /\ timerFlag' \in 0 .. 1
        /\ flagCount = 1 => timerFlag' = 1
        /\ flagCount # 1 => timerFlag' = timerFlag
    BY <1>1, <1>2 DEF Tick, TypeOK
  <2>2. UNCHANGED <<pc, imu, mux, output, failed>> /\ owed' = (owed \/ flagCount = 1)
    BY <1>2 DEF Tick
  <2>3. Polled'
    BY <1>1, <2>2 DEF Polled, Own
  <2>4. owed' \in BOOLEAN
    BY <1>1, <2>2, Zenon DEF TypeOK
  <2>5. NoTickLost'
    BY <1>1, <2>1, <2>2, Zenon DEF NoTickLost
  <2> QED BY <1>1, <2>1, <2>2, <2>3, <2>4, <2>5, Zenon DEF IInv, TypeOK
<1>3. CASE Wait
  BY <1>1, <1>3 DEF Wait, timer, IInv, TypeOK, Polled, Own, NoTickLost
<1>4. CASE Clear
  <2>1. output' \in [Imus -> [of : 0 .. Sensors, fresh : BOOLEAN]]
    BY <1>1, <1>4 DEF Clear, Begin, TypeOK
  <2>2. /\ pc' = "mux" /\ imu' = 0 /\ 0 \in Imus /\ failed' = {} /\ timerFlag' = 0
        /\ 0 \in 0 .. 1 /\ ~owed' /\ owed' \in BOOLEAN /\ flagCount' = flagCount /\ mux' = mux
    <3>1. 0 \in Imus /\ 0 \in 0 .. 1
      OBVIOUS
    <3> QED BY <1>4, <3>1, Zenon DEF Clear, Begin
  <2>3. Polled'
    BY <2>2 DEF Polled
  <2> QED BY <1>1, <2>1, <2>2, <2>3, Zenon DEF IInv, TypeOK, NoTickLost
<1>5. CASE SelectMux
  <2>1. /\ pc = "mux" /\ pc' = "bank" /\ UNCHANGED <<timer, imu, output, owed>>
        /\ failed \subseteq failed' /\ failed' \subseteq Imus
        /\ mux' \in Imus /\ (imu \in failed' \/ mux' = imu)
    BY <1>1, <1>5 DEF SelectMux, Failing, Outcomes, TypeOK
  <2>2. Polled'
    BY <1>1, <2>1 DEF Polled, Own
  <2> QED BY <1>1, <2>1, <2>2 DEF IInv, TypeOK, NoTickLost, timer
<1>6. CASE WriteBank
  <2>1. /\ pc = "bank" /\ UNCHANGED <<timer, mux, output, owed>>
        /\ failed \subseteq failed' /\ failed' \subseteq Imus
        /\ \/ imu \in failed' /\ NextImu
           \/ pc' = "accel" /\ imu' = imu
    BY <1>1, <1>6 DEF WriteBank, Failing, Outcomes, TypeOK
  <2>2. Polled' /\ imu' \in Imus /\ pc' \in {"mux", "send", "accel"}
    <3>1. CASE imu \in failed' /\ NextImu
      <4>1. \A k \in Imus : k <= imu /\ k \notin failed' => Own(k)'
        BY <1>1, <2>1, <3>1 DEF Polled, Own, TypeOK
      <4>2. output' \in [Imus -> [of : 0 .. Sensors, fresh : BOOLEAN]]
        BY <1>1, <2>1 DEF TypeOK
      <4> QED BY <1>1, <2>1, <3>1, <4>1, <4>2, Onward
    <3>2. CASE pc' = "accel" /\ imu' = imu
      BY <1>1, <2>1, <3>2 DEF Polled, Own, TypeOK
    <3> QED BY <2>1, <3>1, <3>2
  <2> QED BY <1>1, <2>1, <2>2 DEF IInv, TypeOK, NoTickLost, timer
<1>7. CASE ReadAccel
  <2>1. /\ pc = "accel" /\ UNCHANGED <<timer, mux, owed>> /\ NextImu
        /\ failed \subseteq failed' /\ failed' \subseteq Imus
    BY <1>1, <1>7 DEF ReadAccel, Failing, Outcomes, TypeOK
  <2>2. PICK outcome \in Outcomes :
          /\ \/ outcome = "ok" /\ output' = [output EXCEPT ![imu] = [of |-> mux, fresh |-> TRUE]]
             \/ outcome = "timeout" /\ UNCHANGED output
             \/ /\ outcome = "refused"
                /\ \E r \in {Garbage} \cup {output[k] : k \in Imus} :
                       output' = [output EXCEPT ![imu] = r]
          /\ Failing(outcome)
    BY <1>7 DEF ReadAccel
  <2>3. /\ output' \in [Imus -> [of : 0 .. Sensors, fresh : BOOLEAN]]
        /\ \A k \in Imus : k # imu => output'[k] = output[k]
        /\ imu \in failed' \/ output'[imu] = [of |-> mux, fresh |-> TRUE]
    <3>1. CASE outcome = "ok"
      <4>1. output' = [output EXCEPT ![imu] = [of |-> mux, fresh |-> TRUE]]
        BY <2>2, <3>1
      <4>2. [of |-> mux, fresh |-> TRUE] \in [of : 0 .. Sensors, fresh : BOOLEAN]
        BY <1>1 DEF TypeOK
      <4> DEFINE r == [of |-> mux, fresh |-> TRUE]
      <4>3. r \in [of : 0 .. Sensors, fresh : BOOLEAN] /\ output' = [output EXCEPT ![imu] = r]
        BY <4>1, <4>2
      <4> HIDE DEF r
      <4>4. /\ output' \in [Imus -> [of : 0 .. Sensors, fresh : BOOLEAN]]
            /\ \A k \in Imus : k # imu => output'[k] = output[k]
            /\ output'[imu] = r
        BY <1>1, <4>3 DEF TypeOK
      <4> QED BY <4>4 DEF r
    <3>2. CASE outcome = "timeout"
      BY <1>1, <2>2, <3>2 DEF TypeOK, Failing
    <3>3. CASE outcome = "refused"
      <4>1. PICK r \in {Garbage} \cup {output[k] : k \in Imus} :
              output' = [output EXCEPT ![imu] = r]
        BY <2>2, <3>3
      <4>2. r \in [of : 0 .. Sensors, fresh : BOOLEAN]
        <5>1. Garbage \in [of : 0 .. Sensors, fresh : BOOLEAN]
          BY DEF Garbage
        <5>2. ASSUME NEW k \in Imus PROVE output[k] \in [of : 0 .. Sensors, fresh : BOOLEAN]
          BY <1>1 DEF TypeOK
        <5> QED BY <4>1, <5>1, <5>2
      <4> QED BY <1>1, <2>2, <3>3, <4>1, <4>2 DEF TypeOK, Failing
    <3> QED BY <3>1, <3>2, <3>3 DEF Outcomes
  <2>4. \A k \in Imus : k <= imu /\ k \notin failed' => Own(k)'
    <3> SUFFICES ASSUME NEW k \in Imus, k <= imu, k \notin failed' PROVE Own(k)'
      OBVIOUS
    <3>1. CASE k = imu
      <4>1. mux = imu
        BY <1>1, <2>1, <3>1 DEF Polled
      <4> QED BY <2>3, <3>1, <4>1 DEF Own
    <3>2. CASE k # imu
      <4>1. k < imu /\ k \notin failed
        BY <1>1, <2>1, <3>2 DEF TypeOK
      <4> QED BY <1>1, <2>1, <2>3, <3>2, <4>1 DEF Polled, Own
    <3> QED BY <3>1, <3>2
  <2>5. Polled' /\ imu' \in Imus /\ pc' \in {"mux", "send"}
    BY <1>1, <2>1, <2>3, <2>4, Onward
  <2> QED BY <1>1, <2>1, <2>3, <2>5 DEF IInv, TypeOK, NoTickLost, timer
<1>8. CASE SendFrame
  BY <1>1, <1>8 DEF SendFrame, timer, IInv, TypeOK, Polled, Own, NoTickLost
<1>9. CASE UNCHANGED vars
  BY <1>1, <1>9 DEF vars, timer, IInv, TypeOK, Polled, Own, NoTickLost
<1> QED BY <1>2, <1>3, <1>4, <1>5, <1>6, <1>7, <1>8, <1>9 DEF Next, Loop

THEOREM Invariance == Spec => []IInv
<1> QED BY InitIInv, NextIInv, PTL DEF Spec

\* A fault is confined to the sensor it happened to.
THEOREM FaultsConfined == Spec => []FaultConfined
<1>1. IInv => FaultConfined
  BY DEF IInv, Polled, Own, FaultConfined
<1> QED BY <1>1, Invariance, PTL

\* No tick is lost.
THEOREM TicksKept == Spec => []NoTickLost
<1>1. IInv => NoTickLost
  BY DEF IInv
<1> QED BY <1>1, Invariance, PTL
=============================================================================
