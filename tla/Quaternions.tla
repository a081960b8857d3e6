---------------------------- MODULE Quaternions -----------------------------
(***************************************************************************)
(* The part of MathLibrary.c that the running tasks use on orientations    *)
(* and sensor axes, in exact arithmetic: a quaternion <<w, x, y, z>> and a *)
(* vector <<x, y, z>> have integer components and are not normalised, so   *)
(* what the code divides by a length, the model multiplies by its square.  *)
(***************************************************************************)
EXTENDS Integers

Quaternion == Int \X Int \X Int \X Int
Vector == Int \X Int \X Int

MultiplyQ(q1, q2) ==
    <<q1[1]*q2[1] - q1[2]*q2[2] - q1[3]*q2[3] - q1[4]*q2[4],
      q1[1]*q2[2] + q1[2]*q2[1] + q1[3]*q2[4] - q1[4]*q2[3],
      q1[1]*q2[3] - q1[2]*q2[4] + q1[3]*q2[1] + q1[4]*q2[2],
      q1[1]*q2[4] + q1[2]*q2[3] - q1[3]*q2[2] + q1[4]*q2[1]>>

ConjugateQ(q) == <<q[1], -q[2], -q[3], -q[4]>>

\* The square of the length that normalizeQ() divides by.
Norm2(q) == q[1]*q[1] + q[2]*q[2] + q[3]*q[3] + q[4]*q[4]

\* Slip: conjugateQ() forgotten.
ProductQ(q1, q2) == MultiplyQ(q1, q2)

\* "performs conjugate(A) * B"
DifferenceQ(q1, q2) == MultiplyQ(ConjugateQ(q1), q2)

\* toAxisAngle() gives the angle 2 acos(w), or 0 where w is 1 or -1, and
\* evaluate() compares it with 1.25: acos(w) < 0.625 where w > 0.81096, and
\* 0.65766 is the square of that.
AngleIsSmall(q) ==
    \/ q[1]*q[1] = Norm2(q)
    \/ q[1] > 0 /\ 100000 * (q[1]*q[1]) > 65766 * Norm2(q)

\* The vector part of q v q*: a rotation, times the square of the length of q.
QuatMultVect(q, v) ==
    LET multQ == MultiplyQ(MultiplyQ(q, <<0, v[1], v[2], v[3]>>), ConjugateQ(q))
    IN  <<multQ[2], multQ[3], multQ[4]>>

DotProduct(vect1, vect2) ==
    vect1[1]*vect2[1] + vect1[2]*vect2[2] + vect1[3]*vect2[3]

\* As the code has it: the second component has the sign of B X A.
CrossProduct(vect1, vect2) ==
    <<vect1[2]*vect2[3] - vect1[3]*vect2[2],
      vect1[1]*vect2[3] - vect1[3]*vect2[1],
      vect1[1]*vect2[2] - vect1[2]*vect2[1]>>
=============================================================================
