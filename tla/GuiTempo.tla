------------------------------ MODULE GuiTempo ------------------------------
(***************************************************************************)
(* The conducting evaluator (ConductingEval.cs): findDirection() reports a *)
(* motion and is then deaf for timeoutValue frames; Update() takes the     *)
(* time between two motions into a ring of the last times intervals, whose *)
(* mean is the tempo, and forgets them after a pause.                      *)
(*                                                                         *)
(* Time is counted in frames; one that the parser rejects, or that goes    *)
(* into the calibration, is time as well.  Gui composes these steps.       *)
(***************************************************************************)
EXTENDS Integers, Sequences, SequencesExt

CONSTANTS
    Times,          \* times
    TimeoutValue,   \* timeoutValue
    Threshold,      \* threshold, in frames
    MaxPause        \* bound of the model: longer pauses are all alike

ASSUME TimesAssumption == Times \in Nat \ {0}
ASSUME TimeoutAssumption == TimeoutValue \in Nat /\ Threshold \in Nat
ASSUME PauseAssumption == MaxPause \in Nat /\ MaxPause > Threshold /\ MaxPause > TimeoutValue

VARIABLES
    timeoutCounter, timeIndex, deltaT,
    elapsed,        \* Time.time - lastTime
    beatsPerMinute, \* count and sum of the intervals it is the quotient of
    feedBack,       \* the text of feedBackButton, a tempo once one was computed
    intervals       \* the last intervals since a pause (history)

tempoVars == <<timeoutCounter, timeIndex, deltaT, elapsed, beatsPerMinute, feedBack, intervals>>

TempoSlots == 0 .. Times - 1
Cleared == [i \in TempoSlots |-> 0]
NaN == <<0, 0>>
Zero == <<0, 1>>
Calibrating == <<>>

TempoInit ==
    /\ timeoutCounter = 0 /\ timeIndex = 0
    /\ deltaT = Cleared
    /\ elapsed = 0
    /\ beatsPerMinute = Zero /\ feedBack = Calibrating
    /\ intervals = <<>>

-----------------------------------------------------------------------------
Later == IF elapsed < MaxPause THEN elapsed + 1 ELSE elapsed

\* Slip: off by one.
AdvanceShort == IF timeIndex + 1 >= Times - 1 THEN 0 ELSE timeIndex + 1

Advance == IF timeIndex + 1 = Times THEN 0 ELSE timeIndex + 1

Deltas(delta) ==
    IF delta > Threshold THEN Cleared ELSE [deltaT EXCEPT ![Advance] = delta]

\* The count and the sum of the slots that are not zero.
Used(ring) == {i \in TempoSlots : ring[i] # 0}
Tempo(ring) ==
    FoldLeft(LAMBDA acc, i : IF ring[i - 1] # 0 THEN <<acc[1] + 1, acc[2] + ring[i - 1]>> ELSE acc,
             NaN, [i \in 1 .. Times |-> i])

\* A tempo that is not a number leaves the last one on the button.
Display == feedBack' = IF beatsPerMinute' # NaN THEN beatsPerMinute' ELSE feedBack

Deaf ==
    /\ timeoutCounter > 0
    /\ timeoutCounter' = timeoutCounter - 1
    /\ elapsed' = Later
    /\ UNCHANGED <<timeIndex, deltaT, beatsPerMinute, intervals>>
    /\ Display

Still ==
    /\ timeoutCounter = 0
    /\ elapsed' = Later
    /\ UNCHANGED <<timeoutCounter, timeIndex, deltaT, beatsPerMinute, intervals>>
    /\ Display

\* Slip: one frame too short.
DeafShort == timeoutCounter' = IF TimeoutValue > 0 THEN TimeoutValue - 1 ELSE 0

Deafened == timeoutCounter' = TimeoutValue

Motion ==
    /\ timeoutCounter = 0
    /\ Deafened
    /\ timeIndex' = Advance
    /\ deltaT' = Deltas(Later)
    /\ beatsPerMinute' = Tempo(Deltas(Later))
    /\ Display
    /\ elapsed' = 0
    /\ intervals' = IF Later > Threshold THEN <<>>
                    ELSE IF Len(intervals) < Times THEN Append(intervals, Later)
                    ELSE Append(Tail(intervals), Later)

\* A frame that parseAccel() rejects, or that is calibrated with.
Unjudged ==
    /\ elapsed' = Later
    /\ UNCHANGED <<timeoutCounter, timeIndex, deltaT, beatsPerMinute, feedBack, intervals>>

Judged == Deaf \/ Still \/ Motion

-----------------------------------------------------------------------------
TempoTypeOK ==
    /\ timeoutCounter \in 0 .. TimeoutValue
    /\ timeIndex \in TempoSlots
    /\ deltaT \in [TempoSlots -> Nat]
    /\ elapsed \in Nat
    /\ intervals \in Seq(Nat)

\* The slot that was written n motions ago.
Ago(n) == IF n <= timeIndex THEN timeIndex - n ELSE timeIndex - n + Times

\* The ring holds the last intervals since a pause, newest first from timeIndex
\* down, and nothing else; the tempo is computed of it and displayed.
Remembered ==
    /\ Len(intervals) <= Times
    /\ \A n \in TempoSlots :
         deltaT[Ago(n)] = IF n < Len(intervals) THEN intervals[Len(intervals) - n] ELSE 0
    /\ intervals # <<>> => /\ beatsPerMinute = Tempo(deltaT)
                           /\ beatsPerMinute # NaN => feedBack = beatsPerMinute

\* "implements a timeout to ensure multiple rapid motions are not counted": no
\* interval is shorter than the time-out, and none is a pause.
NoRapidBeat ==
    \A i \in Used(deltaT) : TimeoutValue < deltaT[i] /\ deltaT[i] <= Threshold

\* What the button shows is the mean of the last intervals since a pause, Times
\* of them at most, as soon as there is one: neither an interval from before a
\* pause nor a slot that was overwritten counts, wherever in the ring the pause
\* happened, and a text that was kept over the pause is gone.
TempoIsRecent ==
    intervals # <<>> =>
        feedBack = <<Len(intervals), FoldLeft(LAMBDA a, b : a + b, 0, intervals)>>
=============================================================================
