-------------------------------- MODULE Gui ---------------------------------
(***************************************************************************)
(* Update() of the two evaluating scenes: a frame that parseAccel() took   *)
(* goes through the filter and, unless it is used up by a calibration, to  *)
(* the evaluation.  The posture scene (testing.cs) judges a motion, the    *)
(* conducting scene (ConductingEval.cs) measures the tempo; the buttons    *)
(* that start a calibration belong to the first one only.                  *)
(***************************************************************************)
EXTENDS GuiFilter, GuiJudge, GuiTempo

\* The calibration outlasts the time-out of the first motion: 60 frames and 13.
ASSUME WarmUpAssumption == TimeoutValue <= GravityCount /\ GravityCount <= MaxPause

VARIABLE scene      \* which script runs

vars == <<scene, filterVars, judgeVars, tempoVars>>

Init ==
    /\ scene \in {"posture", "conducting"}
    /\ FilterInit /\ JudgeInit /\ TempoInit

\* What Update() does once the frame is filtered.
Posture ==
    /\ scene = "posture"
    /\ \/ evaluated' /\ \E fits \in SUBSET Motions : Judge(fits)
       \/ ~evaluated' /\ UNCHANGED judgeVars
    /\ UNCHANGED tempoVars

Conducting ==
    /\ scene = "conducting"
    /\ \/ evaluated' /\ Judged
       \/ ~evaluated' /\ Unjudged
    /\ UNCHANGED judgeVars

Update ==
    /\ FilterUpdate
    /\ Posture \/ Conducting
    /\ UNCHANGED scene

\* parseAccel() returns false: Update() returns, and time goes on.
Rejected ==
    /\ scene = "conducting"
    /\ Unjudged
    /\ UNCHANGED <<scene, filterVars, judgeVars>>

Press ==
    /\ scene = "posture"
    /\ PressCalibrate \/ PressRelease
    /\ UNCHANGED <<scene, judgeVars, tempoVars>>

SelectMotion ==
    /\ scene = "posture"
    /\ Select
    /\ UNCHANGED <<scene, filterVars, tempoVars>>

Next == Update \/ Rejected \/ Press \/ SelectMotion

Spec == Init /\ [][Next]_vars

-----------------------------------------------------------------------------
\* What makes NoRapidBeat inductive: the time-out runs no faster than time, and
\* until the first frame is judged the calibration has taken as much time as
\* it has frames.
Warming ==
    /\ calibrationFlag \/ calibrationCounter > 0
    /\ timeoutCounter = 0
    /\ elapsed >= Len(window)

Patient == timeoutCounter + elapsed >= TimeoutValue

TempoInv ==
    /\ TempoTypeOK
    /\ NoRapidBeat
    /\ scene = "posture" => deltaT = Cleared
    /\ scene = "conducting" => Patient \/ Warming

IInv == FilterInv /\ JudgeInv /\ TempoInv /\ Remembered
=============================================================================
