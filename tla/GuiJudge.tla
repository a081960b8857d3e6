------------------------------ MODULE GuiJudge ------------------------------
(***************************************************************************)
(* PASS or FAIL (testing.cs): every judged frame fits some of the motions; *)
(* booleanDebounce() puts whether it fits the selected one in a ring and   *)
(* booleanDisplay() changes the button when the whole ring disagrees.      *)
(***************************************************************************)
EXTENDS Integers, Sequences

CONSTANTS
    Motions,        \* the entries of the drop-down list, or the keyboard
    Debounce        \* debounce

ASSUME DebounceAssumption == Debounce \in Nat \ {0}

VARIABLES
    solfegeIndex,   \* the motion selected
    dbArray, dbCounter, lastState,
    button,         \* the text of passFailButton
    verdicts,       \* the last Debounce verdicts (history)
    misses,         \* judged frames since a motion was last made (history)
    judged          \* the motion of the last verdict (history)

history == <<verdicts, misses, judged>>
judgeVars == <<solfegeIndex, dbArray, dbCounter, lastState, button, history>>

JudgeInit ==
    /\ solfegeIndex \in Motions
    /\ dbArray = [i \in 0 .. Debounce - 1 |-> FALSE]
    /\ dbCounter = 0
    /\ lastState = FALSE
    /\ button = "none"
    /\ verdicts = <<>> /\ misses = [m \in Motions |-> Debounce] /\ judged = solfegeIndex

\* Slip: off by one.
RingShort(kb) ==
    /\ dbArray' = [dbArray EXCEPT ![dbCounter % Debounce] = kb]
    /\ dbCounter' = (dbCounter + 1) % (Debounce - 1)

\* dbCounter counts on in the source; only its remainder is used, as long as
\* the count stays below 2^31.
Ring(kb) ==
    /\ dbArray' = [dbArray EXCEPT ![dbCounter % Debounce] = kb]
    /\ dbCounter' = (dbCounter + 1) % Debounce

All == \A i \in DOMAIN dbArray : dbArray'[i]
Some == \E i \in DOMAIN dbArray : dbArray'[i]

\* Slip: the same rule whatever is shown.
DebouncedEager == Some

Debounced == IF lastState THEN Some ELSE All

Recent(s) == SubSeq(s, Len(s) - (IF Len(s) < Debounce THEN Len(s) ELSE Debounce) + 1, Len(s))

\* The end of Update() with a frame that fits the motions fits.
Judge(fits) ==
    LET kb == solfegeIndex \in fits
    IN  /\ Ring(kb)
        /\ lastState' = Debounced
        /\ button' = IF Debounced THEN "PASS" ELSE "FAIL"
        /\ verdicts' = Recent(Append(verdicts, kb))
        /\ misses' = [m \in Motions |->
                        IF m \in fits THEN 0
                        ELSE IF misses[m] < Debounce THEN misses[m] + 1 ELSE Debounce]
        /\ judged' = solfegeIndex
        /\ UNCHANGED solfegeIndex

Select ==
    /\ solfegeIndex' \in Motions
    /\ UNCHANGED <<dbArray, dbCounter, lastState, button, history>>

-----------------------------------------------------------------------------
JudgeTypeOK ==
    /\ solfegeIndex \in Motions /\ judged \in Motions
    /\ dbArray \in [0 .. Debounce - 1 -> BOOLEAN]
    /\ dbCounter \in 0 .. Debounce - 1
    /\ lastState \in BOOLEAN
    /\ button \in {"none", "PASS", "FAIL"}
    /\ verdicts \in Seq(BOOLEAN)
    /\ misses \in [Motions -> 0 .. Debounce]

\* One frame, or two, never change what is shown: a change needs Debounce
\* verdicts in a row that agree on it.
Steady ==
    [][button # "none" /\ button' # button =>
         /\ Len(verdicts') = Debounce
         /\ \A i \in 1 .. Debounce : verdicts'[i] = (button' = "PASS")]_judgeVars

\* ... and is not put off: Debounce verdicts that agree are shown.
Settled ==
    Len(verdicts) = Debounce =>
        /\ (\A i \in 1 .. Debounce : verdicts[i]) => button = "PASS"
        /\ (\A i \in 1 .. Debounce : ~verdicts[i]) => button = "FAIL"

\* What makes them inductive: the ring holds the verdicts, the last of them
\* before dbCounter, and what is shown never contradicts a whole ring.
Slot(k) == IF k <= dbCounter THEN dbCounter - k ELSE dbCounter + Debounce - k

Mirrored ==
    /\ Len(verdicts) <= Debounce
    /\ \A k \in 1 .. Debounce :
           dbArray[Slot(k)] <=> k <= Len(verdicts) /\ verdicts[Len(verdicts) - k + 1]

Shown ==
    /\ verdicts = <<>> <=> button = "none"
    /\ verdicts # <<>> => button = IF lastState THEN "PASS" ELSE "FAIL"
    /\ lastState => Len(verdicts) = Debounce /\ \E i \in DOMAIN dbArray : dbArray[i]
    /\ ~lastState => \E i \in DOMAIN dbArray : ~dbArray[i]

JudgeInv == JudgeTypeOK /\ Mirrored /\ Shown

\* "You have executed the motion correctly!!!": one of the frames on which the
\* verdict rests fits the motion it is about.
PassMeansExecuted == button = "PASS" => misses[judged] < Debounce
=============================================================================
