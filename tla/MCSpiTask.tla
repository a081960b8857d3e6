----------------------------- MODULE MCSpiTask ------------------------------
(***************************************************************************)
(* SpiTask with quaternions for poses: rest and close are 37 degrees       *)
(* apart, tilted is 53 degrees from rest about another axis, away and      *)
(* behind are far from rest.  behind is -close, the same orientation as    *)
(* close, but far from rest: the code does not take q and -q for one.      *)
(***************************************************************************)
EXTENDS SpiTask, Quaternions

rest   == <<1, 0, 0, 0>>
close  == <<3, 1, 0, 0>>
tilted == <<2, 0, 1, 0>>
away   == <<1, 1, 0, 1>>
behind == <<-3, -1, 0, 0>>

AllPoses == {rest, close, tilted, away, behind}

\* differenceQ(q, lastQ, diffQ), toAxisAngle(diffQ, axis, &angle), angle < 1.25
IsNear(q, reference) == AngleIsSmall(DifferenceQ(q, reference))

NearPairs == {pair \in AllPoses \X AllPoses : IsNear(pair[1], pair[2])}

\* What is compared is the orientation of the arm against its reference and
\* not against the world: had the player been turned by r before the first
\* frame, and with him every later pose, the LED would be the same.
TurnedTogether ==
    \A q, r \in AllPoses :
        lastQ # NoPose =>
            (IsNear(MultiplyQ(r, q), MultiplyQ(r, lastQ)) <=> IsNear(q, lastQ))
=============================================================================
