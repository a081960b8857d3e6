----------------------------- MODULE GuiProofs ------------------------------
(***************************************************************************)
(* The evaluating scenes: what the filter and the calibration promise      *)
(* holds in them, and no rapid beat is counted, for every time-out, every  *)
(* threshold and every number of intervals.                                *)
(***************************************************************************)
EXTENDS Gui, TLAPS

USE FramesAssumption, DeltaAssumption, CountAssumption, NoneAssumption

LEMMA FilterInitInv == FilterInit => FilterInv
<1> SUFFICES ASSUME FilterInit PROVE FilterInv
  OBVIOUS
<1>1. <<>> \in Seq(Frames) /\ Len(<<>>) <= GravityCount /\ 0 \in 0 .. GravityCount - 1
  OBVIOUS
<1>2. [j \in GravitySlots |-> None] \in [GravitySlots -> Frames \cup {None}]
  OBVIOUS
<1>3. 0 \in 0 .. 1 /\ 0 \in Nat
  OBVIOUS
<1>4. FilterTypeOK
  BY <1>1, <1>2, <1>3, Zenon DEF FilterInit, FilterTypeOK
<1>5. Filtered /\ Collected
  BY Zenon DEF FilterInit, Filtered, Collected
<1> QED BY <1>4, <1>5 DEF FilterInv

-----------------------------------------------------------------------------
(* The filter.                                                             *)

\* A frame leaves the filter as it must be found by the next one.
LEMMA FilterStep ==
    ASSUME FilterInv, NEW f \in Frames, KinematicFilter(f)
    PROVE  /\ Filtered'
           /\ accelRaw' \in Frames /\ accelRawPrev' \in Frames
           /\ firstFlag' \in BOOLEAN /\ kinematicCounter' \in 0 .. 1 /\ replaced' \in Nat
<1>1. /\ accelRaw = accelRawPrev /\ kinematicCounter \in 0 .. 1 /\ replaced \in Nat
      /\ ~firstFlag => accelRaw \in Frames /\ replaced = kinematicCounter
      /\ firstFlag => kinematicCounter = 0
      /\ firstFlag \in BOOLEAN
  BY DEF FilterInv, FilterTypeOK, Filtered
<1>2. f # None /\ 0 \in 0 .. 1 /\ 1 \in 0 .. 1 /\ 0 \in Nat /\ 1 \in Nat /\ 2 \in Nat
  OBVIOUS
<1>3. CASE First(f)
  <2>1. /\ accelRaw' = f /\ accelRawPrev' = f /\ replaced' = 0
        /\ ~firstFlag' /\ firstFlag' \in BOOLEAN /\ kinematicCounter' = 0
    BY <1>1, <1>3, Zenon DEF First, Take
  <2> QED BY <1>2, <2>1, Zenon DEF Filtered
<1>4. CASE Good(f)
  <2>1. /\ accelRaw' = f /\ accelRawPrev' = f /\ replaced' = 0 /\ kinematicCounter' = 0
        /\ ~firstFlag' /\ firstFlag' \in BOOLEAN
    BY <1>1, <1>4, Zenon DEF Good, Take
  <2> QED BY <1>2, <2>1, Zenon DEF Filtered
<1>5. CASE Junk(f)
  <2>1. /\ accelRaw' = accelRaw /\ accelRawPrev' = accelRaw /\ accelRaw \in Frames
        /\ replaced' = kinematicCounter + 1 /\ kinematicCounter' = (kinematicCounter + 1) % 2
        /\ firstFlag' = (kinematicCounter = 1)
    BY <1>1, <1>5, Zenon DEF Junk
  <2>2. accelRaw # None
    BY <2>1
  <2>3. CASE kinematicCounter = 0
    <3>1. replaced' = 1 /\ kinematicCounter' = 1 /\ 0 # 1
      BY <2>1, <2>3
    <3>2. ~firstFlag' /\ firstFlag' \in BOOLEAN
      BY <2>1, <2>3, <3>1, Zenon
    <3> QED BY <1>2, <2>1, <2>2, <3>1, <3>2, Zenon DEF Filtered
  <2>4. CASE kinematicCounter = 1
    <3>1. replaced' = 2 /\ kinematicCounter' = 0
      BY <2>1, <2>4
    <3>2. firstFlag' /\ firstFlag' \in BOOLEAN
      BY <2>1, <2>4, Zenon
    <3> QED BY <1>2, <2>1, <2>2, <3>1, <3>2, Zenon DEF Filtered
  <2> QED BY <1>1, <2>3, <2>4
<1> QED BY <1>3, <1>4, <1>5 DEF KinematicFilter

\* A value far from the last one comes only out of an open filter.
LEMMA FilterJump ==
    ASSUME FilterInv, NEW f \in Frames, KinematicFilter(f), accelRaw # None, Far(accelRaw, accelRaw')
    PROVE  replaced = 2
<1>1. accelRaw = accelRawPrev /\ accelRaw \in Frames
  BY DEF FilterInv, FilterTypeOK, Filtered
<1>2. CASE First(f)
  BY <1>2 DEF First, FilterInv, Filtered
<1>3. CASE Good(f)
  BY <1>1, <1>3 DEF Good, Take, Far
<1>4. CASE Junk(f)
  BY <1>1, <1>4 DEF Junk, Far
<1> QED BY <1>2, <1>3, <1>4 DEF KinematicFilter

-----------------------------------------------------------------------------
(* The calibration.                                                        *)

\* One frame more is collected, in the slot that mirrors its place.
LEMMA CalibrateStep ==
    ASSUME FilterInv, Calibrate, accelRaw' \in Frames
    PROVE  /\ Collected'
           /\ calibrationCounter' \in 0 .. GravityCount - 1
           /\ gravityAverage' \in [GravitySlots -> Frames \cup {None}]
           /\ gravityCal' \in [GravitySlots -> Frames \cup {None}]
           /\ evaluated' \in BOOLEAN
           /\ window' \in Seq(Frames) /\ Len(window') <= GravityCount
<1> DEFINE old == IF calibrationFlag THEN <<>> ELSE window
           slot == CounterNow - 1
<1>1. /\ CounterNow \in 1 .. GravityCount /\ slot \in GravitySlots
      /\ old \in Seq(Frames) /\ Len(old) = GravityCount - CounterNow
      /\ \A k \in 1 .. Len(old) : gravityAverage[GravityCount - k] = old[k]
  <2>1. CounterNow \in 1 .. GravityCount /\ slot \in GravitySlots
    BY DEF FilterInv, FilterTypeOK, Calibrate, CounterNow, GravitySlots
  <2>2. CASE calibrationFlag
    BY <2>1, <2>2 DEF CounterNow
  <2>3. CASE ~calibrationFlag
    <3>1. CounterNow = calibrationCounter /\ calibrationCounter > 0 /\ window # <<>>
      BY <2>1, <2>3 DEF CounterNow, FilterInv, Collected
    <3> QED BY <2>1, <2>3, <3>1 DEF FilterInv, FilterTypeOK, Collected
  <2> QED BY <2>1, <2>2, <2>3
<1>2. /\ calibrationCounter' = slot
      /\ gravityAverage' = [gravityAverage EXCEPT ![slot] = accelRaw']
      /\ window' = Append(old, accelRaw')
      /\ evaluated' = FALSE
      /\ gravityCal' = IF CounterNow = 1 THEN gravityAverage' ELSE gravityCal
  BY DEF Calibrate
<1> HIDE DEF old
<1>3. /\ window' \in Seq(Frames) /\ Len(window') = Len(old) + 1 /\ window' # <<>>
      /\ window'[Len(old) + 1] = accelRaw'
      /\ \A k \in 1 .. Len(old) : window'[k] = old[k]
  <2>1. old \in Seq(Frames) /\ window' = Append(old, accelRaw')
    BY <1>1, <1>2
  <2> QED BY <2>1
<1>4. gravityAverage' \in [GravitySlots -> Frames \cup {None}]
  BY <1>1, <1>2 DEF FilterInv, FilterTypeOK
<1>5. \A k \in 1 .. Len(window') : gravityAverage'[GravityCount - k] = window'[k]
  <2> SUFFICES ASSUME NEW k \in 1 .. Len(window')
               PROVE  gravityAverage'[GravityCount - k] = window'[k]
    OBVIOUS
  <2>1. DOMAIN gravityAverage = GravitySlots /\ GravityCount - k \in GravitySlots
    BY <1>1, <1>3 DEF FilterInv, FilterTypeOK, GravitySlots
  <2>2. CASE k = Len(old) + 1
    BY <1>1, <1>2, <1>3, <2>1, <2>2
  <2>3. CASE k \in 1 .. Len(old)
    <3>1. GravityCount - k # slot
      BY <1>1, <2>3
    <3> QED BY <1>1, <1>2, <1>3, <2>1, <2>3, <3>1
  <2> QED BY <1>1, <1>3, <2>2, <2>3
<1>6. Len(window') = GravityCount - calibrationCounter'
  BY <1>1, <1>2, <1>3
<1>7. calibrationCounter' = 0 => gravityCal' = gravityAverage'
  BY <1>1, <1>2
<1>8. gravityCal' \in [GravitySlots -> Frames \cup {None}]
  BY <1>2, <1>4 DEF FilterInv, FilterTypeOK
<1>9. Collected'
  BY <1>2, <1>3, <1>5, <1>6, <1>7 DEF Collected
<1>10. /\ calibrationCounter' \in 0 .. GravityCount - 1 /\ Len(window') <= GravityCount
  BY <1>1, <1>2, <1>6 DEF GravitySlots
<1>11. evaluated' \in BOOLEAN
  BY <1>2, Zenon
<1> QED BY <1>3, <1>4, <1>8, <1>9, <1>10, <1>11, Zenon

LEMMA FilterNextInv == FilterInv /\ [FilterNext]_filterVars => FilterInv'
<1> SUFFICES ASSUME FilterInv, [FilterNext]_filterVars PROVE FilterInv'
  OBVIOUS
<1>1. CASE FilterUpdate
  <2> PICK f \in Frames : KinematicFilter(f) /\ calibrationFlag' = FALSE /\ (Calibrate \/ GoOn)
    BY <1>1 DEF FilterUpdate
  <2>0. cancelled' = cancelled
    BY <1>1 DEF FilterUpdate
  <2>1. /\ Filtered'
        /\ accelRaw' \in Frames /\ accelRawPrev' \in Frames
        /\ firstFlag' \in BOOLEAN /\ kinematicCounter' \in 0 .. 1 /\ replaced' \in Nat
    BY FilterStep
  <2>2. CASE Calibrate
    BY <2>0, <2>1, <2>2, CalibrateStep DEF FilterInv, FilterTypeOK
  <2>3. CASE GoOn
    <3>1. calibrationCounter = 0 /\ ~calibrationFlag
      BY <2>3 DEF GoOn, CounterNow, FilterInv, FilterTypeOK
    <3>2. Collected'
      BY <2>0, <2>3, <3>1 DEF GoOn, FilterInv, Collected
    <3> QED BY <2>0, <2>1, <2>3, <3>2 DEF GoOn, FilterInv, FilterTypeOK
  <2> QED BY <2>2, <2>3
<1>2. CASE PressCalibrate \/ PressRelease
  <2>1. UNCHANGED <<filter, gravity>> /\ calibrationFlag' \in BOOLEAN /\ cancelled' \in BOOLEAN
    BY <1>2, Zenon DEF PressCalibrate, PressRelease, FilterInv, FilterTypeOK
  <2>2. (calibrationFlag /\ ~evaluated) \/ cancelled => (calibrationFlag' /\ ~evaluated') \/ cancelled'
    BY <1>2, Zenon DEF PressCalibrate, PressRelease, gravity
  <2> QED BY <2>1, <2>2 DEF filter, gravity, FilterInv, FilterTypeOK, Filtered, Collected
<1>3. CASE UNCHANGED filterVars
  BY <1>3 DEF filterVars, filter, gravity, FilterInv, FilterTypeOK, Filtered, Collected
<1> QED BY <1>1, <1>2, <1>3 DEF FilterNext

\* FilterTypeOK and the invariant hold in every reachable state.
THEOREM FilterInvariance == FilterSpec => []FilterInv
<1> QED BY FilterInitInv, FilterNextInv, PTL DEF FilterSpec

\* The filter holds on to an old value for at most two frames.
THEOREM AtMostTwo == FilterSpec => []NeverStuck
<1>1. FilterInv => NeverStuck
  BY DEF FilterInv, FilterTypeOK, Filtered, NeverStuck
<1> QED BY <1>1, FilterInvariance, PTL

\* What is evaluated was calibrated with exactly the frames since the calibration
\* began.
THEOREM CalibratedAlways == FilterSpec => []Calibrated
<1>1. FilterInv => Calibrated
  <2> SUFFICES ASSUME FilterInv, evaluated PROVE Calibrated
    BY DEF Calibrated
  <2>1. CASE window = <<>>
    BY <2>1 DEF FilterInv, Collected, Calibrated
  <2>2. CASE window # <<>>
    <3>1. calibrationCounter = 0 /\ Len(window) = GravityCount /\ gravityCal = gravityAverage
      BY <2>2 DEF FilterInv, Collected
    <3> QED BY <2>2, <3>1 DEF FilterInv, Collected, Calibrated
  <2> QED BY <2>1, <2>2
<1> QED BY <1>1, FilterInvariance, PTL

\* The value that goes on jumps only after two replaced frames.
THEOREM JumpsAreConfirmed == FilterSpec => NoSuddenJump
<1> DEFINE A == accelRaw # None /\ Far(accelRaw, accelRaw') => replaced = 2
<1>1. FilterInv /\ [FilterNext]_filterVars => [A]_filterVars
  <2> SUFFICES ASSUME FilterInv, FilterNext, accelRaw # None, Far(accelRaw, accelRaw') PROVE replaced = 2
    OBVIOUS
  <2>1. CASE FilterUpdate
    BY <2>1, FilterJump DEF FilterUpdate
  <2>2. CASE PressCalibrate \/ PressRelease
    <3>1. accelRaw' = accelRaw /\ accelRaw \in Frames
      BY <2>2 DEF PressCalibrate, PressRelease, filter, FilterInv, FilterTypeOK
    <3> QED BY <3>1 DEF Far
  <2> QED BY <2>1, <2>2 DEF FilterNext
<1> QED BY <1>1, FilterInvariance, PTL DEF FilterSpec, NoSuddenJump

USE CountAssumption, DebounceAssumption, TimesAssumption, TimeoutAssumption, PauseAssumption, WarmUpAssumption

-----------------------------------------------------------------------------
(* A scene runs the filter.                                                *)

LEMMA StepFilters == [Next]_vars => [FilterNext]_filterVars
<1> SUFFICES ASSUME [Next]_vars PROVE [FilterNext]_filterVars
  OBVIOUS
<1>1. CASE Update
  BY <1>1 DEF Update, FilterNext
<1>2. CASE Rejected \/ SelectMotion
  BY <1>2 DEF Rejected, SelectMotion
<1>3. CASE Press
  BY <1>3 DEF Press, FilterNext
<1>4. CASE UNCHANGED vars
  BY <1>4 DEF vars
<1> QED BY <1>1, <1>2, <1>3, <1>4 DEF Next

\* The scenes implement the filter, so that all its theorems hold in them.
THEOREM ScenesFilter == Spec => FilterSpec
<1>1. Init => FilterInit
  BY DEF Init
<1> QED BY <1>1, StepFilters, PTL DEF Spec, FilterSpec

-----------------------------------------------------------------------------
(* Time.                                                                   *)

LEMMA InitTempo == Init => TempoInv
<1> SUFFICES ASSUME Init PROVE TempoInv
  OBVIOUS
<1>1. TempoTypeOK /\ deltaT = Cleared
  BY DEF Init, TempoInit, TempoTypeOK, TempoSlots, Cleared
<1>2. NoRapidBeat
  BY <1>1 DEF NoRapidBeat, Used, Cleared
<1>3. Warming
  BY DEF Init, TempoInit, FilterInit, Warming
<1> QED BY <1>1, <1>2, <1>3 DEF TempoInv

\* Time goes on with every frame, or it is a pause already.
LEMMA LaterBounds ==
    ASSUME TempoTypeOK
    PROVE  /\ Later \in Nat /\ Later >= elapsed
           /\ Later = elapsed + 1 \/ (Later > TimeoutValue /\ Later >= GravityCount)
BY DEF TempoTypeOK, Later

\* A frame that is not judged uses up no time-out.
LEMMA UnjudgedStep ==
    ASSUME TempoInv, Unjudged
    PROVE  TempoTypeOK' /\ NoRapidBeat' /\ (Patient => Patient')
<1>1. TempoTypeOK /\ NoRapidBeat
  BY DEF TempoInv
<1>2. Later \in Nat /\ Later >= elapsed
  BY <1>1, LaterBounds
<1>3. /\ elapsed' = Later
      /\ UNCHANGED <<timeoutCounter, timeIndex, deltaT, intervals>>
  BY DEF Unjudged
<1> QED BY <1>1, <1>2, <1>3 DEF TempoTypeOK, NoRapidBeat, Used, Patient

\* The interval between two motions is longer than the time-out.
LEMMA MotionStep ==
    ASSUME TempoTypeOK, NoRapidBeat, Patient, Motion
    PROVE  TempoTypeOK' /\ NoRapidBeat' /\ Patient'
<1>1. Later \in Nat /\ Later > TimeoutValue
  BY LaterBounds DEF Motion, Patient, TempoTypeOK
<1>2. Advance \in TempoSlots
  BY DEF Advance, TempoTypeOK, TempoSlots
<1>3. deltaT' \in [TempoSlots -> Nat] /\ NoRapidBeat'
  <2>1. CASE Later > Threshold
    <3>1. deltaT' = Cleared
      BY <2>1 DEF Motion, Deltas
    <3> QED BY <3>1 DEF Cleared, NoRapidBeat, Used
  <2>2. CASE ~(Later > Threshold)
    <3>1. deltaT' = [deltaT EXCEPT ![Advance] = Later]
      BY <2>2 DEF Motion, Deltas
    <3> QED BY <1>1, <1>2, <2>2, <3>1 DEF TempoTypeOK, NoRapidBeat, Used
  <2> QED BY <2>1, <2>2
<1>4. intervals' \in Seq(Nat)
  <2>1. CASE Later > Threshold
    BY <2>1 DEF Motion
  <2>2. CASE ~(Later > Threshold) /\ Len(intervals) < Times
    BY <1>1, <2>2 DEF Motion, TempoTypeOK
  <2>3. CASE ~(Later > Threshold) /\ ~(Len(intervals) < Times)
    <3>1. intervals' = Append(Tail(intervals), Later)
      BY <2>3 DEF Motion
    <3>2. Tail(intervals) \in Seq(Nat)
      BY <2>3 DEF TempoTypeOK
    <3> QED BY <1>1, <3>1, <3>2
  <2> QED BY <2>1, <2>2, <2>3
<1>5. timeoutCounter' = TimeoutValue /\ elapsed' = 0 /\ timeIndex' = Advance
  BY DEF Motion, Deafened
<1> QED BY <1>2, <1>3, <1>4, <1>5 DEF TempoTypeOK, Patient

LEMMA JudgedStep ==
    ASSUME TempoTypeOK, NoRapidBeat, Patient, Judged
    PROVE  TempoTypeOK' /\ NoRapidBeat' /\ Patient'
<1>1. Later \in Nat /\ (Later = elapsed + 1 \/ Later > TimeoutValue) /\ Later >= elapsed
  BY LaterBounds
<1>2. CASE Deaf
  BY <1>1, <1>2 DEF Deaf, TempoTypeOK, NoRapidBeat, Used, Patient
<1>3. CASE Still
  BY <1>1, <1>3 DEF Still, TempoTypeOK, NoRapidBeat, Used, Patient
<1>4. CASE Motion
  BY <1>4, MotionStep
<1> QED BY <1>2, <1>3, <1>4 DEF Judged

\* The calibration that begins a scene takes as long as the time-out.
LEMMA WarmingStep ==
    ASSUME FilterInv, TempoTypeOK, Warming, FilterUpdate, Unjudged
    PROVE  (Patient \/ Warming)'
<1>1. PICK f \in Frames : KinematicFilter(f) /\ calibrationFlag' = FALSE /\ (Calibrate \/ GoOn)
  BY DEF FilterUpdate
<1>2. /\ timeoutCounter' = 0 /\ elapsed' = Later
      /\ elapsed \in Nat
  BY DEF Unjudged, Warming, TempoTypeOK
<1>3. CounterNow > 0 /\ CounterNow <= GravityCount /\ CounterNow \in Nat
  BY DEF Warming, CounterNow, FilterInv, FilterTypeOK
<1>4. Calibrate
  BY <1>1, <1>3 DEF GoOn
<1>5. /\ accelRaw' \in Frames
      /\ Collected'
      /\ window' \in Seq(Frames)
  BY <1>1, <1>4, FilterStep, CalibrateStep
<1>6. /\ window' = Append(IF calibrationFlag THEN <<>> ELSE window, accelRaw')
      /\ calibrationCounter' = CounterNow - 1
  BY <1>4 DEF Calibrate
<1>7. Len(window') <= elapsed + 1 /\ window' # <<>>
  <2>1. CASE calibrationFlag
    <3>1. window' = <<accelRaw'>>
      BY <1>6, <2>1
    <3> QED BY <1>2, <3>1
  <2>2. CASE ~calibrationFlag
    <3>1. window \in Seq(Frames) /\ elapsed >= Len(window)
      BY DEF Warming, FilterInv, FilterTypeOK
    <3>2. window' = Append(window, accelRaw')
      BY <1>6, <2>2
    <3> QED BY <1>2, <1>5, <3>1, <3>2
  <2> QED BY <2>1, <2>2
<1>8. Len(window') = GravityCount - calibrationCounter'
  BY <1>5, <1>7 DEF Collected
<1>9. elapsed' >= Len(window') /\ elapsed' \in Nat /\ calibrationCounter' \in Nat
  BY <1>2, <1>3, <1>6, <1>7, <1>8, LaterBounds
<1>10. CASE calibrationCounter' = 0
  BY <1>2, <1>8, <1>9, <1>10 DEF Patient
<1>11. CASE calibrationCounter' > 0
  BY <1>2, <1>9, <1>11 DEF Warming
<1> QED BY <1>3, <1>6, <1>10, <1>11

-----------------------------------------------------------------------------
LEMMA NextTempo == FilterInv /\ TempoInv /\ [Next]_vars => TempoInv'
<1> SUFFICES ASSUME FilterInv, TempoInv, [Next]_vars PROVE TempoInv'
  OBVIOUS
<1> USE DEF TempoInv
<1>1. CASE UNCHANGED <<scene, tempoVars>> /\ scene = "posture"
  BY <1>1 DEF tempoVars, TempoTypeOK, NoRapidBeat, Used
<1>2. CASE UNCHANGED vars
  BY <1>2 DEF vars, tempoVars, filterVars, filter, gravity, TempoTypeOK, NoRapidBeat, Used,
     Patient, Warming
<1>3. CASE Update /\ Posture
  BY <1>1, <1>3 DEF Update, Posture
<1>4. CASE Press \/ SelectMotion
  BY <1>1, <1>4 DEF Press, SelectMotion
<1>5. CASE Rejected
  <2>1. scene = "conducting" /\ UNCHANGED <<scene, filterVars>> /\ Unjudged
    BY <1>5 DEF Rejected
  <2>2. TempoTypeOK' /\ NoRapidBeat' /\ (Patient => Patient')
    BY <2>1, UnjudgedStep
  <2>3. Warming => Warming'
    BY <2>1, LaterBounds DEF Warming, Unjudged, TempoTypeOK, filterVars, filter, gravity,
       FilterInv, FilterTypeOK
  <2> QED BY <2>1, <2>2, <2>3
<1>6. CASE Update /\ Conducting
  <2>1. scene = "conducting" /\ scene' = scene /\ FilterUpdate
    BY <1>6 DEF Update, Conducting
  <2>2. CASE ~evaluated' /\ Unjudged
    BY <2>1, <2>2, UnjudgedStep, WarmingStep
  <2>3. CASE evaluated' /\ Judged
    <3>1. ~Warming
      BY <2>1, <2>3 DEF FilterUpdate, Calibrate, CounterNow, GoOn, Warming, FilterInv, FilterTypeOK
    <3> QED BY <2>1, <2>3, <3>1, JudgedStep
  <2> QED BY <1>6, <2>2, <2>3 DEF Conducting
<1> QED BY <1>2, <1>3, <1>4, <1>5, <1>6 DEF Next, Update

-----------------------------------------------------------------------------
(* PASS and FAIL.                                                          *)

\* r is s with v behind it, cut to the last Debounce.
Kept(r, s, v) ==
    /\ r # <<>>
    /\ Len(r) = IF Len(s) < Debounce THEN Len(s) + 1 ELSE Debounce
    /\ r[Len(r)] = v
    /\ \A k \in 2 .. Len(r) : r[Len(r) - k + 1] = s[Len(s) - k + 2]

LEMMA RecentVerdicts ==
    ASSUME NEW s \in Seq(BOOLEAN), Len(s) <= Debounce, NEW v \in BOOLEAN,
           NEW r, r = Recent(Append(s, v))
    PROVE  r \in Seq(BOOLEAN) /\ Kept(r, s, v)
<1> DEFINE q == Append(s, v)
           n == IF Len(s) < Debounce THEN Len(s) + 1 ELSE Debounce
<1>1. /\ q \in Seq(BOOLEAN) /\ Len(q) = Len(s) + 1 /\ q[Len(q)] = v
      /\ \A k \in 1 .. Len(s) : q[k] = s[k]
  OBVIOUS
<1>2. n \in 1 .. Len(q) /\ n <= Debounce /\ Len(s) \in Nat
  OBVIOUS
<1>3. r = SubSeq(q, Len(q) - n + 1, Len(q))
  <2>1. n = IF Len(q) < Debounce THEN Len(q) ELSE Debounce
    BY <1>1, <1>2
  <2>2. r = Recent(q)
    OBVIOUS
  <2> QED BY <2>1, <2>2, Zenon DEF Recent
<1> HIDE DEF q, n
<1>4. /\ r \in Seq(BOOLEAN) /\ Len(r) = n
      /\ \A j \in 1 .. n : r[j] = q[Len(q) - n + j]
  BY <1>1, <1>2, <1>3
<1>5. r[n] = v
  BY <1>1, <1>2, <1>4
<1>6. \A k \in 2 .. n : r[n - k + 1] = s[Len(s) - k + 2]
  <2> SUFFICES ASSUME NEW k \in 2 .. n PROVE r[n - k + 1] = s[Len(s) - k + 2]
    OBVIOUS
  <2>1. r[n - k + 1] = q[Len(q) - k + 1]
    BY <1>1, <1>2, <1>4
  <2> QED BY <1>1, <1>2, <2>1
<1>7. n = IF Len(s) < Debounce THEN Len(s) + 1 ELSE Debounce
  BY DEF n
<1>8. r # <<>>
  BY <1>2, <1>4
<1> QED BY <1>4, <1>5, <1>6, <1>7, <1>8 DEF Kept

LEMMA InitJudge == JudgeInit => JudgeInv
<1> SUFFICES ASSUME JudgeInit PROVE JudgeInv
  OBVIOUS
<1>1. /\ dbCounter = 0 /\ lastState = FALSE /\ button = "none" /\ verdicts = <<>>
      /\ dbArray = [i \in 0 .. Debounce - 1 |-> FALSE]
      /\ 0 \in 0 .. Debounce - 1 /\ Debounce \in 0 .. Debounce
      /\ <<>> \in Seq(BOOLEAN) /\ Len(<<>>) = 0
  BY DEF JudgeInit
<1>2. JudgeTypeOK
  BY <1>1, Zenon DEF JudgeInit, JudgeTypeOK
<1>3. Mirrored
  BY <1>1 DEF Mirrored, Slot
<1>4. Shown
  BY <1>1 DEF Shown
<1> QED BY <1>2, <1>3, <1>4 DEF JudgeInv

\* The ring turns by one: the new verdict is the last, the oldest falls out.
LEMMA RingStep ==
    ASSUME JudgeInv, NEW kb \in BOOLEAN, Ring(kb)
    PROVE  /\ dbArray' \in [0 .. Debounce - 1 -> BOOLEAN]
           /\ dbCounter' \in 0 .. Debounce - 1
           /\ dbArray'[Slot(1)'] = kb
           /\ \A k \in 2 .. Debounce : dbArray'[Slot(k)'] = dbArray[Slot(k - 1)]
<1>1. dbCounter \in 0 .. Debounce - 1 /\ dbArray \in [0 .. Debounce - 1 -> BOOLEAN]
  BY DEF JudgeInv, JudgeTypeOK
<1>2. dbCounter % Debounce = dbCounter
  BY <1>1
<1>3. (dbCounter + 1) % Debounce = IF dbCounter + 1 = Debounce THEN 0 ELSE dbCounter + 1
  BY <1>1
<1>4. /\ dbArray' = [dbArray EXCEPT ![dbCounter] = kb]
      /\ dbCounter' = IF dbCounter + 1 = Debounce THEN 0 ELSE dbCounter + 1
  BY <1>2, <1>3 DEF Ring
<1>5. Slot(1)' = dbCounter
  BY <1>1, <1>4 DEF Slot
<1>6. ASSUME NEW k \in 2 .. Debounce
      PROVE  Slot(k)' = Slot(k - 1) /\ Slot(k - 1) # dbCounter /\ Slot(k - 1) \in 0 .. Debounce - 1
  BY <1>1, <1>4 DEF Slot
<1> QED BY <1>1, <1>4, <1>5, <1>6

\* Every slot of the ring is one of the last Debounce.
LEMMA SlotsCover ==
    ASSUME JudgeTypeOK
    PROVE  /\ \A k \in 1 .. Debounce : Slot(k) \in DOMAIN dbArray
           /\ \A i \in DOMAIN dbArray : \E k \in 1 .. Debounce : Slot(k) = i
<1>1. dbCounter \in 0 .. Debounce - 1 /\ DOMAIN dbArray = 0 .. Debounce - 1
  BY DEF JudgeTypeOK
<1>2. \A k \in 1 .. Debounce : Slot(k) \in DOMAIN dbArray
  BY <1>1 DEF Slot
<1>3. ASSUME NEW i \in DOMAIN dbArray PROVE \E k \in 1 .. Debounce : Slot(k) = i
  <2>1. CASE i < dbCounter
    <3>1. dbCounter - i \in 1 .. Debounce /\ Slot(dbCounter - i) = i
      BY <1>1, <2>1 DEF Slot
    <3> QED BY <3>1
  <2>2. CASE ~(i < dbCounter)
    <3>1. dbCounter + Debounce - i \in 1 .. Debounce /\ Slot(dbCounter + Debounce - i) = i
      BY <1>1, <2>2 DEF Slot
    <3> QED BY <3>1
  <2> QED BY <2>1, <2>2
<1> QED BY <1>2, <1>3

LEMMA SlotRange ==
    ASSUME NEW c \in 0 .. Debounce - 1, NEW k \in 1 .. Debounce
    PROVE  (IF k <= c THEN c - k ELSE c + Debounce - k) \in 0 .. Debounce - 1
OBVIOUS

LEMMA JudgeStep ==
    ASSUME JudgeInv, NEW fits, Judge(fits)
    PROVE  JudgeInv'
<1> DEFINE kb == solfegeIndex \in fits
<1>0. kb \in BOOLEAN
  OBVIOUS
<1>1. /\ Ring(kb)
      /\ lastState' = Debounced
      /\ button' = IF Debounced THEN "PASS" ELSE "FAIL"
      /\ verdicts' = Recent(Append(verdicts, kb))
  BY Zenon DEF Judge
<1>2. /\ verdicts \in Seq(BOOLEAN) /\ Len(verdicts) <= Debounce
      /\ dbArray \in [0 .. Debounce - 1 -> BOOLEAN]
      /\ \A k \in 1 .. Debounce :
           dbArray[Slot(k)] <=> k <= Len(verdicts) /\ verdicts[Len(verdicts) - k + 1]
  BY DEF JudgeInv, JudgeTypeOK, Mirrored
<1> HIDE DEF kb
<1>3. /\ verdicts' \in Seq(BOOLEAN) /\ verdicts' # <<>>
      /\ Len(verdicts') = IF Len(verdicts) < Debounce THEN Len(verdicts) + 1 ELSE Debounce
      /\ verdicts'[Len(verdicts')] = kb
      /\ \A k \in 2 .. Len(verdicts') :
           verdicts'[Len(verdicts') - k + 1] = verdicts[Len(verdicts) - k + 2]
  <2>1. verdicts \in Seq(BOOLEAN) /\ Len(verdicts) <= Debounce
    BY <1>2
  <2>2. verdicts' = Recent(Append(verdicts, kb))
    BY <1>1
  <2>3. verdicts' \in Seq(BOOLEAN) /\ Kept(verdicts', verdicts, kb)
    BY <1>0, <2>1, <2>2, RecentVerdicts, Zenon
  <2> QED BY <2>3 DEF Kept
<1>4. /\ dbArray' \in [0 .. Debounce - 1 -> BOOLEAN]
      /\ dbCounter' \in 0 .. Debounce - 1
      /\ dbArray'[Slot(1)'] = kb
      /\ \A k \in 2 .. Debounce : dbArray'[Slot(k)'] = dbArray[Slot(k - 1)]
  BY <1>0, <1>1, RingStep, Zenon
<1>5. misses' \in [Motions -> 0 .. Debounce]
  <2>1. misses \in [Motions -> 0 .. Debounce]
    BY DEF JudgeInv, JudgeTypeOK
  <2>2. misses' = [m \in Motions |-> IF m \in fits THEN 0
                        ELSE IF misses[m] < Debounce THEN misses[m] + 1 ELSE Debounce]
    BY DEF Judge
  <2> QED BY <2>1, <2>2
<1>6. JudgeTypeOK'
  <2>1. solfegeIndex' \in Motions /\ judged' \in Motions
    BY Zenon DEF Judge, JudgeInv, JudgeTypeOK
  <2>2. lastState' \in BOOLEAN /\ button' \in {"none", "PASS", "FAIL"}
    BY <1>1, Zenon DEF Debounced, All, Some, JudgeInv, JudgeTypeOK
  <2> QED BY <1>3, <1>4, <1>5, <2>1, <2>2, Zenon DEF JudgeTypeOK
<1>7. Mirrored'
  <2> SUFFICES ASSUME NEW k \in 1 .. Debounce
               PROVE  dbArray'[Slot(k)'] <=> (k <= Len(verdicts') /\ verdicts'[Len(verdicts') - k + 1])
    BY <1>2, <1>3, <1>4 DEF Mirrored
  <2>1. CASE k = 1
    BY <1>3, <1>4, <2>1
  <2>2. CASE k # 1
    <3>1. /\ k \in 2 .. Debounce /\ k - 1 \in 1 .. Debounce
          /\ k <= Len(verdicts') <=> k - 1 <= Len(verdicts)
          /\ Len(verdicts) - (k - 1) + 1 = Len(verdicts) - k + 2
      BY <1>2, <1>3, <2>2
    <3>2. dbArray'[Slot(k)'] <=> k - 1 <= Len(verdicts) /\ verdicts[Len(verdicts) - k + 2]
      BY <1>2, <1>4, <3>1
    <3>3. k <= Len(verdicts') => verdicts'[Len(verdicts') - k + 1] = verdicts[Len(verdicts) - k + 2]
      BY <1>3, <3>1
    <3> QED BY <3>1, <3>2, <3>3
  <2> QED BY <2>1, <2>2
<1>8. Shown'
  <2>1. verdicts' # <<>> /\ button' # "none" /\ button' = IF lastState' THEN "PASS" ELSE "FAIL"
    BY <1>1, <1>3
  <2>2. DOMAIN dbArray' = DOMAIN dbArray /\ 0 \in DOMAIN dbArray
    BY <1>2, <1>4
  <2>3. lastState' => \E i \in DOMAIN dbArray' : dbArray'[i]
    BY <1>1, <2>2, Zenon DEF Debounced, All, Some
  <2>4. ~lastState' => \E i \in DOMAIN dbArray' : ~dbArray'[i]
    BY <1>1, <2>2, Zenon DEF Debounced, All, Some
  <2>5. lastState' => Len(verdicts') = Debounce
    <3>1. CASE lastState
      BY <1>3, <3>1 DEF JudgeInv, Shown
    <3>2. CASE ~lastState /\ lastState'
      <4>1. \A i \in DOMAIN dbArray' : dbArray'[i]
        BY <1>1, <2>2, <3>2, Zenon DEF Debounced, All
      <4>2. PICK k \in 1 .. Debounce : k = Debounce
        OBVIOUS
      <4>3. dbArray'[Slot(k)']
        <5>1. dbCounter' \in 0 .. Debounce - 1
          BY <1>4
        <5>2. Slot(k)' = IF k <= dbCounter' THEN dbCounter' - k ELSE dbCounter' + Debounce - k
          BY Zenon DEF Slot
        <5>4. Slot(k)' \in 0 .. Debounce - 1
          BY <5>1, <5>2, SlotRange, Zenon
        <5>3. 0 .. Debounce - 1 = DOMAIN dbArray'
          BY <1>4
        <5> QED BY <4>1, <5>2, <5>3, <5>4
      <4>4. Debounce \in 1 .. Debounce /\ Debounce \in Nat /\ Len(verdicts') \in Nat /\ Len(verdicts') <= Debounce
        BY <1>2, <1>3
      <4>5. Debounce <= Len(verdicts')
        BY <1>7, <4>2, <4>3 DEF Mirrored
      <4> QED BY <4>4, <4>5
    <3> QED BY <3>1, <3>2
  <2> QED BY <2>1, <2>3, <2>4, <2>5, Zenon DEF Shown
<1> QED BY <1>6, <1>7, <1>8 DEF JudgeInv
\* What is shown changes only with a ring that agrees, and that is full.
LEMMA JudgeChange ==
    ASSUME JudgeInv, NEW fits, Judge(fits), button # "none", button' # button
    PROVE  /\ Len(verdicts') = Debounce
           /\ \A i \in 1 .. Debounce : verdicts'[i] = (button' = "PASS")
<1>1. JudgeInv'
  BY JudgeStep
<1>2. /\ lastState' = Debounced
      /\ button' = IF Debounced THEN "PASS" ELSE "FAIL"
      /\ button = IF lastState THEN "PASS" ELSE "FAIL"
      /\ lastState \in BOOLEAN
  BY Zenon DEF Judge, JudgeInv, JudgeTypeOK, Shown
<1>3. lastState' # lastState /\ lastState' \in BOOLEAN /\ lastState' = (button' = "PASS")
  BY <1>1, <1>2, Zenon DEF JudgeInv, JudgeTypeOK
<1>4. /\ verdicts' \in Seq(BOOLEAN)
      /\ DOMAIN dbArray' = 0 .. Debounce - 1 /\ DOMAIN dbArray = 0 .. Debounce - 1
      /\ dbCounter' \in 0 .. Debounce - 1
  BY <1>1 DEF JudgeInv, JudgeTypeOK
<1>5. Len(verdicts') = Debounce
  <2>1. CASE lastState'
    BY <1>1, <2>1 DEF JudgeInv, Shown
  <2>2. CASE lastState
    <3>1. /\ verdicts \in Seq(BOOLEAN) /\ Len(verdicts) = Debounce
          /\ verdicts' = Recent(Append(verdicts, solfegeIndex \in fits))
      BY <2>2 DEF JudgeInv, JudgeTypeOK, Shown, Judge
    <3>2. (solfegeIndex \in fits) \in BOOLEAN /\ Len(verdicts) <= Debounce
      BY <3>1
    <3>3. Kept(verdicts', verdicts, solfegeIndex \in fits)
      BY <3>1, <3>2, RecentVerdicts, Zenon
    <3> QED BY <3>1, <3>3 DEF Kept
  <2> QED BY <1>2, <1>3, <2>1, <2>2, Zenon
<1>6. \A i \in DOMAIN dbArray' : dbArray'[i] <=> lastState'
  BY <1>2, <1>3, <1>4, Zenon DEF Debounced, All, Some
<1>7. \A k \in 1 .. Debounce : verdicts'[Debounce - k + 1] <=> lastState'
  <2> SUFFICES ASSUME NEW k \in 1 .. Debounce PROVE verdicts'[Debounce - k + 1] <=> lastState'
    OBVIOUS
  <2>1. Slot(k)' = IF k <= dbCounter' THEN dbCounter' - k ELSE dbCounter' + Debounce - k
    BY Zenon DEF Slot
  <2>2. Slot(k)' \in DOMAIN dbArray'
    BY <1>4, <2>1, SlotRange, Zenon
  <2>3. dbArray'[Slot(k)'] <=> lastState'
    BY <1>6, <2>2, Zenon
  <2>4. dbArray'[Slot(k)'] <=> k <= Len(verdicts') /\ verdicts'[Len(verdicts') - k + 1]
    BY <1>1, Zenon DEF JudgeInv, Mirrored
  <2>5. k <= Len(verdicts')
    BY <1>5
  <2> QED BY <1>5, <2>3, <2>4, <2>5, Zenon
<1>8. ASSUME NEW i \in 1 .. Debounce PROVE verdicts'[i] = (button' = "PASS")
  <2>1. Debounce - i + 1 \in 1 .. Debounce /\ Debounce - (Debounce - i + 1) + 1 = i
    OBVIOUS
  <2>2. verdicts'[i] <=> lastState'
    BY <1>7, <2>1
  <2>3. verdicts'[i] \in BOOLEAN
    BY <1>4, <1>5
  <2> QED BY <1>3, <2>2, <2>3, Zenon
<1> QED BY <1>5, <1>8

LEMMA StepJudges == JudgeInv /\ [Next]_vars => JudgeInv'
<1> SUFFICES ASSUME JudgeInv, [Next]_vars PROVE JudgeInv'
  OBVIOUS
<1>1. CASE UNCHANGED judgeVars
  BY <1>1 DEF judgeVars, history, JudgeInv, JudgeTypeOK, Mirrored, Slot, Shown
<1>2. CASE Update
  BY <1>1, <1>2, JudgeStep DEF Update, Posture, Conducting
<1>3. CASE Rejected \/ Press \/ UNCHANGED vars
  BY <1>1, <1>3 DEF Rejected, Press, vars
<1>4. CASE SelectMotion
  <2>1. solfegeIndex' \in Motions /\ UNCHANGED <<dbArray, dbCounter, lastState, button, history>>
    BY <1>4 DEF SelectMotion, Select
  <2> QED BY <2>1 DEF history, JudgeInv, JudgeTypeOK, Mirrored, Slot, Shown
<1> QED BY <1>2, <1>3, <1>4 DEF Next

-----------------------------------------------------------------------------
(* The ring of intervals.                                                  *)

\* r is s with v behind it, cut to the last Times.
LEMMA LastIntervals ==
    ASSUME NEW s \in Seq(Nat), Len(s) <= Times, NEW v \in Nat,
           NEW r, r = IF Len(s) < Times THEN Append(s, v) ELSE Append(Tail(s), v)
    PROVE  /\ Len(r) = (IF Len(s) < Times THEN Len(s) + 1 ELSE Times) /\ Len(s) \in Nat
           /\ r[Len(r)] = v
           /\ \A n \in 1 .. Len(r) - 1 : r[Len(r) - n] = s[Len(s) - (n - 1)]
<1>1. CASE Len(s) < Times
  <2>1. /\ r = Append(s, v) /\ Len(r) = Len(s) + 1 /\ r[Len(s) + 1] = v /\ Len(s) \in Nat
        /\ \A j \in 1 .. Len(s) : r[j] = s[j]
    BY <1>1
  <2> QED BY <1>1, <2>1
<1>2. CASE ~(Len(s) < Times)
  <2>1. Len(s) = Times /\ s # <<>> /\ r = Append(Tail(s), v)
    BY <1>2, TimesAssumption
  <2>2. /\ Tail(s) \in Seq(Nat) /\ Len(Tail(s)) = Times - 1
        /\ \A j \in 1 .. Times - 1 : Tail(s)[j] = s[j + 1]
    BY <2>1
  <2>3. /\ Len(r) = Times /\ r[Times] = v
        /\ \A j \in 1 .. Times - 1 : r[j] = Tail(s)[j]
    BY <2>1, <2>2, TimesAssumption
  <2> QED BY <1>2, <2>1, <2>2, <2>3, TimesAssumption
<1> QED BY <1>1, <1>2

\* The ring turns by one.
LEMMA AgoTurns ==
    ASSUME timeIndex \in TempoSlots, timeIndex' = Advance
    PROVE  /\ Advance \in TempoSlots /\ Ago(0)' = Advance
           /\ \A n \in TempoSlots : n # 0 =>
                /\ n - 1 \in TempoSlots
                /\ Ago(n)' = Ago(n - 1) /\ Ago(n - 1) \in TempoSlots /\ Ago(n - 1) # Advance
  BY TimesAssumption DEF Ago, Advance, TempoSlots

LEMMA RememberMotion == ASSUME TempoTypeOK, Remembered, Motion PROVE Remembered'
<1>1. /\ timeIndex \in TempoSlots /\ deltaT \in [TempoSlots -> Nat] /\ intervals \in Seq(Nat)
      /\ Len(intervals) <= Times /\ Len(intervals) \in Nat
  BY DEF TempoTypeOK, Remembered
<1>2. Later \in Nat
  BY LaterBounds DEF TempoTypeOK
<1>3. /\ timeIndex' = Advance /\ deltaT' = Deltas(Later) /\ beatsPerMinute' = Tempo(deltaT')
      /\ beatsPerMinute' # NaN => feedBack' = beatsPerMinute'
  BY DEF Motion, Display
<1>4. /\ Advance \in TempoSlots /\ Ago(0)' = Advance
      /\ \A n \in TempoSlots : n # 0 =>
           /\ n - 1 \in TempoSlots
           /\ Ago(n)' = Ago(n - 1) /\ Ago(n - 1) \in TempoSlots /\ Ago(n - 1) # Advance
  BY <1>1, <1>3, AgoTurns
<1>5. CASE Later > Threshold
  <2>1. intervals' = <<>> /\ deltaT' = Cleared
    BY <1>3, <1>5 DEF Motion, Deltas
  <2>2. ASSUME NEW n \in TempoSlots PROVE deltaT'[Ago(n)'] = 0
    <3>1. Ago(n)' \in TempoSlots
      <4>1. CASE n = 0
        BY <1>4, <4>1
      <4>2. CASE n # 0
        BY <1>4, <4>2
      <4> QED BY <4>1, <4>2
    <3> QED BY <2>1, <3>1 DEF Cleared
  <2>3. Len(intervals') = 0 /\ \A n \in TempoSlots : ~(n < 0)
    BY <2>1 DEF TempoSlots
  <2>4. Len(intervals') <= Times
    BY <2>3, TimesAssumption
  <2> QED BY <2>1, <2>2, <2>3, <2>4, Zenon DEF Remembered
<1>6. CASE ~(Later > Threshold)
  <2>1. /\ intervals' = IF Len(intervals) < Times THEN Append(intervals, Later)
                        ELSE Append(Tail(intervals), Later)
        /\ deltaT' = [deltaT EXCEPT ![Advance] = Later]
    BY <1>3, <1>6 DEF Motion, Deltas
  <2>2. /\ Len(intervals') = (IF Len(intervals) < Times THEN Len(intervals) + 1 ELSE Times)
        /\ intervals'[Len(intervals')] = Later
        /\ \A n \in 1 .. Len(intervals') - 1 :
             intervals'[Len(intervals') - n] = intervals[Len(intervals) - (n - 1)]
    BY <1>1, <1>2, <2>1, LastIntervals
  <2>3. Len(intervals') <= Times /\ Len(intervals') \in Nat /\ Len(intervals') > 0
    BY <1>1, <2>2, TimesAssumption
  <2>4. ASSUME NEW n \in TempoSlots
        PROVE  deltaT'[Ago(n)'] =
                 IF n < Len(intervals') THEN intervals'[Len(intervals') - n] ELSE 0
    <3>1. CASE n = 0
      <4>1. deltaT'[Ago(0)'] = Later
        BY <1>1, <1>4, <2>1
      <4>2. 0 < Len(intervals') /\ Len(intervals') - 0 = Len(intervals')
        BY <1>1, <2>2, TimesAssumption
      <4> QED BY <2>2, <3>1, <4>1, <4>2
    <3>2. CASE n # 0
      <4>1. /\ n - 1 \in TempoSlots /\ Ago(n)' = Ago(n - 1) /\ Ago(n - 1) \in TempoSlots
            /\ Ago(n - 1) # Advance
        BY <1>4, <3>2
      <4>2. deltaT'[Ago(n)'] = deltaT[Ago(n - 1)]
        BY <1>1, <2>1, <4>1
      <4>3. deltaT[Ago(n - 1)] =
              IF n - 1 < Len(intervals) THEN intervals[Len(intervals) - (n - 1)] ELSE 0
        BY <4>1 DEF Remembered
      <4>4. n \in Nat /\ n < Times /\ n >= 1
        BY <3>2, TimesAssumption DEF TempoSlots
      <4>5. n < Len(intervals') <=> n - 1 < Len(intervals)
        BY <1>1, <2>2, <4>4, TimesAssumption
      <4>6. n < Len(intervals') => n \in 1 .. Len(intervals') - 1
        BY <2>3, <4>4
      <4> QED BY <2>2, <4>2, <4>3, <4>5, <4>6
    <3> QED BY <3>1, <3>2
  <2> QED BY <1>3, <2>3, <2>4, Zenon DEF Remembered
<1> QED BY <1>5, <1>6

LEMMA InitRemembers == Init => Remembered
<1> SUFFICES ASSUME Init PROVE Remembered
  OBVIOUS
<1>1. /\ intervals = <<>> /\ Len(intervals) = 0 /\ timeIndex = 0 /\ deltaT = Cleared
  BY DEF Init, TempoInit
<1>2. ASSUME NEW n \in TempoSlots PROVE Ago(n) \in TempoSlots /\ ~(n < 0)
  BY <1>1, TimesAssumption DEF Ago, TempoSlots
<1> QED BY <1>1, <1>2, TimesAssumption DEF Remembered, Cleared

LEMMA StepRemembers == TempoTypeOK /\ Remembered /\ [Next]_vars => Remembered'
<1> SUFFICES ASSUME TempoTypeOK, Remembered, [Next]_vars PROVE Remembered'
  OBVIOUS
<1>1. CASE UNCHANGED <<timeIndex, deltaT, beatsPerMinute, intervals>> /\ (Display \/ UNCHANGED feedBack)
  <2>1. UNCHANGED <<timeIndex, deltaT, beatsPerMinute, intervals>>
    BY <1>1
  <2>2. intervals # <<>> => /\ beatsPerMinute = Tempo(deltaT)
                            /\ beatsPerMinute # NaN => feedBack' = beatsPerMinute
    BY <1>1, <2>1, Zenon DEF Remembered, Display
  <2> QED BY <2>1, <2>2, Zenon DEF Remembered, Ago
<1>2. CASE Motion
  BY <1>2, RememberMotion
<1>3. Motion \/ (UNCHANGED <<timeIndex, deltaT, beatsPerMinute, intervals>> /\ (Display \/ UNCHANGED feedBack))
  BY DEF Next, Update, Posture, Conducting, Judged, Deaf, Still, Unjudged, Rejected, Press,
     SelectMotion, vars, tempoVars
<1> QED BY <1>1, <1>2, <1>3

-----------------------------------------------------------------------------
\* Filter, calibration, verdict and tempo keep their invariants in every scene.
THEOREM Invariance == Spec => []IInv
<1>1. FilterInv /\ JudgeInv /\ TempoInv /\ Remembered <=> IInv
  BY DEF IInv
<1>2. Spec => []FilterInv
  BY ScenesFilter, FilterInvariance, PTL
<1>3. Init => JudgeInv
  BY InitJudge DEF Init
<1>4. TempoInv => TempoTypeOK
  BY DEF TempoInv
<1> QED BY <1>1, <1>2, <1>3, <1>4, InitTempo, NextTempo, StepJudges, InitRemembers, StepRemembers,
       PTL DEF Spec

\* Multiple rapid motions are not counted, from the first motion on.
THEOREM RapidMotionsIgnored == Spec => []NoRapidBeat
<1>1. IInv => NoRapidBeat
  BY DEF IInv, TempoInv
<1> QED BY <1>1, Invariance, PTL

\* The ring that the tempo is computed of holds the last intervals since a pause,
\* Times of them at most, whatever the length of the ring and wherever in it the
\* pause happened; and what the button shows is this tempo.
THEOREM RingIsRecent == Spec => []Remembered
<1>1. IInv => Remembered
  BY DEF IInv
<1> QED BY <1>1, Invariance, PTL

\* In the scenes, too, what is judged was calibrated with exactly the frames
\* since the calibration began.
THEOREM ScenesCalibrated == Spec => []Calibrated
<1> QED BY ScenesFilter, CalibratedAlways, PTL

\* Debounce verdicts that agree are shown, for every Debounce.
THEOREM AgreementIsShown == Spec => []Settled
<1>1. IInv => Settled
  <2> SUFFICES ASSUME JudgeInv, Len(verdicts) = Debounce PROVE Settled
    BY DEF IInv, Settled
  <2>1. verdicts # <<>> /\ verdicts \in Seq(BOOLEAN)
    BY DEF JudgeInv, JudgeTypeOK
  <2>2. ASSUME NEW i \in DOMAIN dbArray
        PROVE  \E j \in 1 .. Debounce : dbArray[i] <=> verdicts[j]
    <3>1. PICK k \in 1 .. Debounce : Slot(k) = i
      BY SlotsCover DEF JudgeInv
    <3>2. k <= Len(verdicts) /\ Debounce - k + 1 \in 1 .. Debounce
      OBVIOUS
    <3> QED BY <3>1, <3>2 DEF JudgeInv, Mirrored
  <2> QED BY <2>1, <2>2, Zenon DEF JudgeInv, Shown, Settled
<1> QED BY <1>1, Invariance, PTL

\* What is shown changes only after Debounce verdicts that agree on it.
THEOREM OneFrameChangesNothing == Spec => Steady
<1> DEFINE A == button # "none" /\ button' # button =>
                  /\ Len(verdicts') = Debounce
                  /\ \A i \in 1 .. Debounce : verdicts'[i] = (button' = "PASS")
<1>1. IInv /\ [Next]_vars => [A]_judgeVars
  <2> SUFFICES ASSUME JudgeInv, [Next]_vars, button # "none", button' # button PROVE A
    BY DEF IInv
  <2>1. PICK fits \in SUBSET Motions : Judge(fits)
    BY DEF Next, Update, Posture, Conducting, Rejected, Press, SelectMotion, Select, vars, judgeVars
  <2> QED BY <2>1, JudgeChange
<1> QED BY <1>1, Invariance, PTL DEF Spec, Steady
=============================================================================
