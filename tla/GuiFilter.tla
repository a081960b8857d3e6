----------------------------- MODULE GuiFilter ------------------------------
(***************************************************************************)
(* What the GUI does with a frame before it judges it (testing.cs):        *)
(* kinematicFilter() replaces a frame that is too far from the last good   *)
(* one, unless two in a row were, and calibrate() then collects the next   *)
(* gravityCount frames after the button was pressed.                       *)
(*                                                                         *)
(* A frame is one number, the axis that is furthest from its last good     *)
(* value; gravityCal is the readings averaged, not their mean.             *)
(***************************************************************************)
EXTENDS Integers, Sequences

CONSTANTS
    Frames,         \* the frames, as numbers
    Delta,          \* deltaFilter
    GravityCount,   \* gravityCount
    None            \* no reading yet

ASSUME FramesAssumption == Frames \subseteq Int
ASSUME DeltaAssumption == Delta \in Nat
ASSUME CountAssumption == GravityCount \in Nat \ {0}
ASSUME NoneAssumption == None \notin Frames

VARIABLES
    accelRaw, accelRawPrev, firstFlag, kinematicCounter,
    calibrationFlag, calibrationCounter, gravityAverage, gravityCal,
    evaluated,      \* the last Update() went on to the evaluation
    replaced,       \* frames in a row that were replaced (history)
    window,         \* the frames since the last calibration began (history)
    cancelled       \* a calibration asked for was cancelled before a frame came (history)

filter == <<accelRaw, accelRawPrev, firstFlag, kinematicCounter, replaced>>
gravity == <<calibrationCounter, gravityAverage, gravityCal, evaluated, window>>
filterVars == <<filter, calibrationFlag, cancelled, gravity>>

GravitySlots == 0 .. GravityCount - 1

\* The arrays of C# start as zeros; no reading is 0 here.
FilterInit ==
    /\ accelRaw = None /\ accelRawPrev = None
    /\ firstFlag = TRUE
    /\ kinematicCounter = 0
    /\ calibrationFlag = TRUE
    /\ calibrationCounter = 0
    /\ gravityAverage = [j \in GravitySlots |-> None]
    /\ gravityCal = [j \in GravitySlots |-> None]
    /\ evaluated = FALSE
    /\ replaced = 0
    /\ window = <<>>
    /\ cancelled = FALSE

-----------------------------------------------------------------------------
(* kinematicFilter()                                                       *)

Far(f, g) == f - g > Delta \/ g - f > Delta

Take(f) ==
    /\ accelRaw' = f
    /\ accelRawPrev' = f
    /\ replaced' = 0

First(f) ==
    /\ firstFlag
    /\ Take(f)
    /\ firstFlag' = FALSE
    /\ UNCHANGED kinematicCounter

Good(f) ==
    /\ ~firstFlag /\ ~Far(accelRawPrev, f)
    /\ Take(f)
    /\ kinematicCounter' = 0
    /\ UNCHANGED firstFlag

\* Slip: the second junk frame does not open the filter.
JunkForever(f) ==
    /\ ~firstFlag /\ Far(accelRawPrev, f)
    /\ accelRaw' = accelRawPrev
    /\ replaced' = replaced + 1
    /\ kinematicCounter' = (kinematicCounter + 1) % 2
    /\ UNCHANGED <<accelRawPrev, firstFlag>>

\* Slip: one junk frame opens it.
JunkOpens(f) ==
    /\ ~firstFlag /\ Far(accelRawPrev, f)
    /\ accelRaw' = accelRawPrev
    /\ replaced' = replaced + 1
    /\ kinematicCounter' = 0
    /\ firstFlag' = TRUE
    /\ UNCHANGED accelRawPrev

Junk(f) ==
    /\ ~firstFlag /\ Far(accelRawPrev, f)
    /\ accelRaw' = accelRawPrev
    /\ replaced' = replaced + 1
    /\ kinematicCounter' = (kinematicCounter + 1) % 2
    /\ firstFlag' = (kinematicCounter = 1)
    /\ UNCHANGED accelRawPrev

KinematicFilter(f) == First(f) \/ Good(f) \/ Junk(f)

-----------------------------------------------------------------------------
(* calibrate(), and what Update() does around it.                          *)

\* Slip: a press is only looked at when no calibration runs.
CounterKept ==
    IF calibrationFlag /\ calibrationCounter = 0 THEN GravityCount ELSE calibrationCounter

CounterNow == IF calibrationFlag THEN GravityCount ELSE calibrationCounter

Calibrate ==
    /\ CounterNow > 0
    /\ calibrationCounter' = CounterNow - 1
    /\ gravityAverage' = [gravityAverage EXCEPT ![CounterNow - 1] = accelRaw']
    /\ gravityCal' = IF CounterNow = 1 THEN gravityAverage' ELSE gravityCal
    /\ evaluated' = FALSE
    /\ window' = Append(IF calibrationFlag THEN <<>> ELSE window, accelRaw')

GoOn ==
    /\ CounterNow = 0
    /\ evaluated' = TRUE
    /\ UNCHANGED <<calibrationCounter, gravityAverage, gravityCal, window>>

FilterUpdate ==
    \E f \in Frames :
        /\ KinematicFilter(f)
        /\ calibrationFlag' = FALSE
        /\ Calibrate \/ GoOn
        /\ UNCHANGED cancelled

\* The two buttons (calibrateButtonBehavior.cs, ReleaseCal.cs).
PressCalibrate == calibrationFlag' = TRUE /\ UNCHANGED <<filter, gravity, cancelled>>
PressRelease ==
    /\ calibrationFlag' = FALSE
    /\ cancelled' = (cancelled \/ calibrationFlag)
    /\ UNCHANGED <<filter, gravity>>

FilterNext == FilterUpdate \/ PressCalibrate \/ PressRelease

FilterSpec == FilterInit /\ [][FilterNext]_filterVars

-----------------------------------------------------------------------------
FilterTypeOK ==
    /\ accelRaw \in Frames \cup {None}
    /\ accelRawPrev \in Frames \cup {None}
    /\ firstFlag \in BOOLEAN
    /\ kinematicCounter \in 0 .. 1
    /\ calibrationFlag \in BOOLEAN
    /\ calibrationCounter \in 0 .. GravityCount - 1
    /\ gravityAverage \in [GravitySlots -> Frames \cup {None}]
    /\ gravityCal \in [GravitySlots -> Frames \cup {None}]
    /\ evaluated \in BOOLEAN
    /\ replaced \in Nat
    /\ window \in Seq(Frames)
    /\ Len(window) <= GravityCount
    /\ cancelled \in BOOLEAN

\* "getting rid of sudden (kinematically impossible) jumps": the value that
\* goes on jumps only after two frames in a row were replaced.
NoSuddenJump ==
    [][accelRaw # None /\ Far(accelRaw, accelRaw') => replaced = 2]_filterVars

\* The filter never holds on to an old value for more than two frames, however
\* the frames come: a hand that really moved is followed by the third one.
NeverStuck == replaced <= 2

\* A frame is evaluated against exactly the gravityCount frames that followed the
\* beginning of the last calibration, even when the button was pressed in the
\* middle of another one; and against no calibration at all only when one was
\* cancelled by the release button before its first frame.
Calibrated ==
    evaluated =>
        \/ window = <<>> /\ cancelled
        \/ /\ Len(window) = GravityCount
           /\ \A k \in 1 .. GravityCount : gravityCal[GravityCount - k] = window[k]

\* What makes them inductive: the filter passes its last good value on, and
\* has counted what it replaced; the calibration fills its array from the end,
\* one slot for each frame since it began.
Filtered ==
    /\ accelRaw = accelRawPrev
    /\ ~firstFlag => accelRaw # None /\ replaced = kinematicCounter
    /\ firstFlag => kinematicCounter = 0
    /\ firstFlag => replaced = IF accelRaw = None THEN 0 ELSE 2

Collected ==
    /\ window = <<>> => calibrationCounter = 0
    /\ window = <<>> => (calibrationFlag /\ ~evaluated) \/ cancelled
    /\ window # <<>> =>
        /\ Len(window) = GravityCount - calibrationCounter
        /\ \A k \in 1 .. Len(window) : gravityAverage[GravityCount - k] = window[k]
        /\ calibrationCounter = 0 => gravityCal = gravityAverage
    /\ evaluated => calibrationCounter = 0

FilterInv == FilterTypeOK /\ Filtered /\ Collected
=============================================================================
