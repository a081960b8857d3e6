--------------------------- MODULE SpiTaskProofs ----------------------------
(***************************************************************************)
(* What SPI_Task promises: the reach of I2C_Task's stray reply, for every  *)
(* length of the frame, of the reply and of the overread, and the LED, for *)
(* every set of poses, nearness relation, limit and threshold.  The two    *)
(* invariants are independent: no action that touches the bytes touches    *)
(* the poses, and evaluate() changes no byte.                              *)
(***************************************************************************)
EXTENDS MCSpiTask, TLAPS

FrameTypeOK ==
    /\ pc \in {"receive", "floats", "header", "final", "transfer", "evaluate"}
    /\ next \in 0 .. SendCount + Overread
    /\ pc = "floats" => next \in Body
    /\ pc = "transfer" => next < SendCount + Overread
    /\ frame \in Nat
    /\ buffer \in [Cells -> Int]
    /\ wire \in Seq(Int)
    /\ disturbed \in BOOLEAN

\* The cells composed so far: what a transfer may rely on.
Composed ==
    CASE pc = "floats" -> 1 .. next - 1
      [] pc = "header" -> Body
      [] pc = "final" -> Body \cup {0}
      [] pc = "transfer" -> Cells
      [] OTHER -> {}

FrameInv ==
    /\ FrameTypeOK
    /\ \A k \in Composed : Kept(k) => buffer[k] = Due(k)
    /\ pc = "transfer" => Len(wire) = next
    /\ Transmitting => \A k \in 0 .. Len(wire) - 1 : Kept(k) => wire[k + 1] = Due(k)

PoseTypeOK ==
    /\ firstFlag \in BOOLEAN
    /\ lastQ \in Poses \cup {NoPose}
    /\ counter \in 0 .. Limit
    /\ led \in BOOLEAN
    /\ nears \in 0 .. MaxHistory
    /\ fars \in 0 .. MaxHistory
    /\ allFars \in 0 .. MaxHistory

\* The counter is squeezed between the runs of near and far comparisons.
Squeezed ==
    /\ led <=> ~firstFlag /\ counter < Threshold
    /\ firstFlag <=> lastQ = NoPose
    /\ firstFlag => counter = 0 /\ nears = 0 /\ fars = 0 /\ allFars = 0
    /\ nears + counter <= Limit \/ counter = 0
    /\ fars <= counter \/ counter = Limit
    /\ counter <= allFars

PoseInv == PoseTypeOK /\ Squeezed

-----------------------------------------------------------------------------
(* The frame. *)

LEMMA InitFrameInv == Init => FrameInv
<1> USE SendCountAssumption, ReplyCountAssumption, OverreadAssumption
<1> SUFFICES ASSUME Init PROVE FrameInv
  OBVIOUS
<1>1. FrameTypeOK
  <2>1. buffer \in [Cells -> Int] /\ wire \in Seq(Int) /\ next \in 0 .. SendCount + Overread
    BY DEF Init, Cells, Final
  <2> QED BY <2>1 DEF Init, FrameTypeOK
<1>2. Composed = {} /\ ~Transmitting /\ pc # "transfer"
  BY DEF Init, Composed, Transmitting
<1> QED BY <1>1, <1>2 DEF FrameInv

LEMMA ReceiveFrameInv == FrameInv /\ Receive => FrameInv'
<1> USE SendCountAssumption, ReplyCountAssumption, OverreadAssumption
<1> SUFFICES ASSUME FrameInv, Receive PROVE FrameInv'
  OBVIOUS
<1>1. FrameTypeOK'
  <2>1. next' \in 0 .. SendCount + Overread /\ next' \in Body /\ frame' \in Nat
    BY DEF Receive, FrameInv, FrameTypeOK, Body
  <2> QED BY <2>1 DEF Receive, FrameInv, FrameTypeOK
<1>2. Composed' = {} /\ ~Transmitting' /\ pc' # "transfer"
  BY DEF Receive, Composed, Transmitting
<1> QED BY <1>1, <1>2 DEF FrameInv

LEMMA WriteFloatFrameInv == FrameInv /\ WriteFloat => FrameInv'
<1> USE SendCountAssumption, ReplyCountAssumption, OverreadAssumption
<1> SUFFICES ASSUME FrameInv, WriteFloat PROVE FrameInv'
  OBVIOUS
<1>1. FrameTypeOK'
  BY DEF WriteFloat, FrameInv, FrameTypeOK, Cells, Body
<1>2. Composed' = Composed \cup {next} /\ next \in Body /\ Composed \subseteq Body
  BY DEF WriteFloat, FrameInv, FrameTypeOK, Body, Composed
<1>3. ASSUME NEW k \in Composed', Kept(k)' PROVE buffer'[k] = Due(k)'
  BY <1>2, <1>3 DEF WriteFloat, FrameInv, FrameTypeOK, Cells, Body, Due, Kept
<1>4. ~Transmitting'
  BY DEF WriteFloat, Transmitting
<1> QED BY <1>1, <1>3, <1>4 DEF WriteFloat, FrameInv, Transmitting

LEMMA WriteHeaderFrameInv == FrameInv /\ WriteHeader => FrameInv'
<1> USE SendCountAssumption, ReplyCountAssumption, OverreadAssumption
<1> SUFFICES ASSUME FrameInv, WriteHeader PROVE FrameInv'
  OBVIOUS
<1>1. FrameTypeOK'
  BY DEF WriteHeader, WithHeader, FrameInv, FrameTypeOK, Cells, Header
<1>2. ASSUME NEW k \in Body \cup {0}, Kept(k)' PROVE buffer'[k] = Due(k)'
  BY <1>2 DEF WriteHeader, WithHeader, FrameInv, FrameTypeOK, Cells, Body, Composed, Due, Kept
<1> QED BY <1>1, <1>2 DEF WriteHeader, FrameInv, Composed, Transmitting

LEMMA WriteFinalFrameInv == FrameInv /\ WriteFinal => FrameInv'
<1> USE SendCountAssumption, ReplyCountAssumption, OverreadAssumption
<1> SUFFICES ASSUME FrameInv, WriteFinal PROVE FrameInv'
  OBVIOUS
<1>1. FrameTypeOK'
  BY DEF WriteFinal, FrameInv, FrameTypeOK, Cells, Final
<1>2. ASSUME NEW k \in Cells, Kept(k)' PROVE buffer'[k] = Due(k)'
  BY <1>2 DEF WriteFinal, FrameInv, FrameTypeOK, Cells, Body, Composed, Due, Kept
<1> QED BY <1>1, <1>2 DEF WriteFinal, FrameInv, Composed

LEMMA TransferFrameInv == FrameInv /\ Transfer => FrameInv'
<1> USE SendCountAssumption, ReplyCountAssumption, OverreadAssumption
<1> SUFFICES ASSUME FrameInv, Transfer PROVE FrameInv'
  OBVIOUS
<1> DEFINE byte == IF next \in Cells THEN buffer[next] ELSE Behind
<1>1. byte \in Int /\ wire' = Append(wire, byte) /\ next' = next + 1 /\ Len(wire) = next
  BY DEF Transfer, FrameInv, FrameTypeOK, Behind
<1>2. FrameTypeOK'
  BY <1>1 DEF Transfer, FrameInv, FrameTypeOK, Body
<1>3. ASSUME Kept(next) PROVE byte = Due(next)
  BY <1>3 DEF Transfer, FrameInv, FrameTypeOK, Composed, Cells, Body, Due
<1>4. ASSUME NEW k \in 0 .. Len(wire') - 1, Kept(k)' PROVE wire'[k + 1] = Due(k)'
  <2>1. Kept(k) /\ Due(k)' = Due(k)
    BY <1>4 DEF Transfer, Kept, Due
  <2>2. CASE k = next
    BY <1>1, <1>3, <2>1, <2>2 DEF FrameInv, FrameTypeOK
  <2>3. CASE k < next
    <3>1. wire[k + 1] = Due(k)
      BY <1>1, <2>1, <2>3 DEF Transfer, FrameInv, Transmitting
    <3> QED BY <1>1, <2>1, <2>3, <3>1 DEF FrameInv, FrameTypeOK
  <2> QED BY <1>1, <2>2, <2>3 DEF FrameInv, FrameTypeOK
<1>5. ASSUME NEW k \in Composed', Kept(k)' PROVE buffer'[k] = Due(k)'
  BY <1>5 DEF Transfer, FrameInv, Composed, Due, Kept
<1> QED BY <1>1, <1>2, <1>4, <1>5 DEF FrameInv, FrameTypeOK

LEMMA WriteReplyFrameInv == FrameInv /\ WriteReply => FrameInv'
<1> USE SendCountAssumption, ReplyCountAssumption, OverreadAssumption
<1> SUFFICES ASSUME FrameInv, WriteReply PROVE FrameInv'
  OBVIOUS
<1>1. FrameTypeOK'
  BY DEF WriteReply, FrameInv, FrameTypeOK, Cells, Reply
<1>2. Composed' = Composed /\ Composed \subseteq Cells /\ (Transmitting' <=> Transmitting)
  BY DEF WriteReply, FrameInv, FrameTypeOK, Composed, Cells, Body, Transmitting
<1>3. ASSUME NEW k \in Nat, Kept(k)' PROVE Kept(k) /\ Due(k)' = Due(k) /\ k \notin ReplyCells
  BY <1>3 DEF WriteReply, Kept, Due, ReplyCells
<1>4. ASSUME NEW k \in Composed', Kept(k)' PROVE buffer'[k] = Due(k)'
  BY <1>2, <1>3, <1>4 DEF WriteReply, FrameInv, FrameTypeOK, Cells
<1>5. ASSUME Transmitting', NEW k \in 0 .. Len(wire') - 1, Kept(k)' PROVE wire'[k + 1] = Due(k)'
  BY <1>2, <1>3, <1>5 DEF WriteReply, FrameInv
<1> QED BY <1>1, <1>4, <1>5 DEF WriteReply, FrameInv

\* evaluate() leaves the bytes as they are.
LEMMA EvaluatedFrameInv == FrameInv /\ Evaluated => FrameInv'
<1> SUFFICES ASSUME FrameInv, Evaluated PROVE FrameInv'
  OBVIOUS
<1>1. FrameTypeOK'
  BY DEF Evaluated, FrameInv, FrameTypeOK
<1>2. Composed' = {} /\ pc' # "transfer" /\ Transmitting
  BY DEF Evaluated, Composed, Transmitting
<1>3. ASSUME NEW k \in 0 .. Len(wire') - 1, Kept(k)' PROVE wire'[k + 1] = Due(k)'
  BY <1>2, <1>3 DEF Evaluated, FrameInv, Kept, Due
<1> QED BY <1>1, <1>2, <1>3 DEF FrameInv

LEMMA NextFrameInv == FrameInv /\ [Next]_vars => FrameInv'
<1>1. FrameInv /\ UNCHANGED vars => FrameInv'
  BY DEF vars, frameVars, FrameInv, FrameTypeOK, Composed, Transmitting, Kept, Due
<1>2. (\E q \in Poses : Evaluate(q)) \/ EvaluateNaN => Evaluated
  BY DEF Evaluate, EvaluateNaN
<1> QED
  BY <1>1, <1>2, ReceiveFrameInv, WriteFloatFrameInv, WriteHeaderFrameInv,
     WriteFinalFrameInv, TransferFrameInv, WriteReplyFrameInv, EvaluatedFrameInv
     DEF Next, SpiStep

\* The invariant of the shared buffer: what SPI_Task composed stays, except
\* where a reply was written during this frame.
THEOREM FrameInvariance == Spec => []FrameInv
  BY InitFrameInv, NextFrameInv, PTL DEF Spec

\* Every byte on the wire is the one composed for it, except the first
\* ReplyCount bytes of a frame during which a reply was written.
THEOREM Confined == Spec => []DamageConfined
<1>1. FrameInv => DamageConfined
  BY SendCountAssumption, OverreadAssumption DEF FrameInv, FrameTypeOK, DamageConfined
<1> QED BY <1>1, FrameInvariance, PTL

-----------------------------------------------------------------------------
(* The LED. *)

LEMMA InitPoseInv == Init => PoseInv
<1> SUFFICES ASSUME Init PROVE PoseInv
  OBVIOUS
<1>1. 0 \in 0 .. Limit /\ 0 \in 0 .. MaxHistory /\ 0 + 0 <= Limit /\ 0 <= 0
  BY LimitAssumption, HistoryAssumption, SMT
<1>2. PoseTypeOK
  BY <1>1, Zenon DEF Init, PoseTypeOK
<1>3. (led <=> ~firstFlag /\ counter < Threshold) /\ (firstFlag <=> lastQ = NoPose)
  BY Zenon DEF Init
<1> QED BY <1>1, <1>2, <1>3, Zenon DEF Init, PoseInv, Squeezed

\* One comparison moves the counter by at most one, towards its limit or zero.
LEMMA EvaluatePoseInv == ASSUME PoseInv, NEW q \in Poses, Evaluate(q) PROVE PoseInv'
<1> USE LimitAssumption, HistoryAssumption, PosesAssumption
<1> DEFINE near == <<q, Reference(q)>> \in Near
<1>1. /\ counter \in Nat /\ counter <= Limit /\ nears \in Nat /\ fars \in Nat
      /\ allFars \in Nat /\ nears <= MaxHistory /\ fars <= MaxHistory
      /\ allFars <= MaxHistory /\ Started \in Nat /\ Started = counter
  BY DEF PoseInv, PoseTypeOK, Squeezed, Started
<1>2. firstFlag' = FALSE /\ lastQ' \in Poses /\ lastQ' # NoPose
  BY DEF Evaluate, Reference, PoseInv, PoseTypeOK, Squeezed
<1>3. (led' <=> ~firstFlag' /\ counter' < Threshold) /\ led' \in BOOLEAN
  <2>1. led' = (Counted(near) < Threshold) /\ counter' = Counted(near)
    BY Zenon DEF Evaluate, Lit
  <2>2. led' = (counter' < Threshold)
    BY <2>1, Zenon
  <2>3. (counter' < Threshold) \in BOOLEAN
    BY SMT
  <2> QED BY <1>2, <2>2, <2>3, Zenon
<1>4. CASE near
  <2>1. /\ counter' = (IF counter > 0 THEN counter - 1 ELSE counter)
        /\ nears' = Capped(nears) /\ fars' = 0 /\ allFars' = allFars
    BY <1>1, <1>4 DEF Evaluate, Counted
  <2>2. counter' \in 0 .. Limit /\ nears' \in 0 .. MaxHistory /\ allFars' \in 0 .. MaxHistory
    BY <1>1, <2>1 DEF Capped
  <2>3. nears' + counter' <= Limit \/ counter' = 0
    BY <1>1, <2>1 DEF Capped, PoseInv, Squeezed
  <2>4. fars' <= counter' /\ counter' <= allFars' /\ fars' \in 0 .. MaxHistory
    BY <1>1, <2>1, <2>2 DEF PoseInv, Squeezed
  <2> QED BY <1>2, <1>3, <2>2, <2>3, <2>4 DEF PoseInv, PoseTypeOK, Squeezed
<1>5. CASE ~near
  <2>1. /\ counter' = (IF counter < Limit THEN counter + 1 ELSE counter)
        /\ nears' = 0 /\ fars' = Capped(fars) /\ allFars' = Capped(allFars)
    BY <1>1, <1>5 DEF Evaluate, Counted
  <2>2. counter' \in 0 .. Limit /\ fars' \in 0 .. MaxHistory /\ allFars' \in 0 .. MaxHistory
    BY <1>1, <2>1 DEF Capped
  <2>3. nears' + counter' <= Limit /\ nears' \in 0 .. MaxHistory
    BY <1>1, <2>1, <2>2
  <2>4. fars' <= counter' \/ counter' = Limit
    BY <1>1, <2>1 DEF Capped, PoseInv, Squeezed
  <2>5. counter' <= allFars'
    BY <1>1, <2>1 DEF Capped, PoseInv, Squeezed
  <2> QED BY <1>2, <1>3, <2>2, <2>3, <2>4, <2>5 DEF PoseInv, PoseTypeOK, Squeezed
<1> QED BY <1>4, <1>5

\* Composing, transmitting and replying leave the LED and its counter alone.
LEMMA OtherSteps ==
    ASSUME [Next]_vars, \A q \in Poses : ~Evaluate(q) PROVE UNCHANGED poseVars
<1>1. Receive \/ WriteFloat \/ WriteHeader \/ WriteFinal \/ Transfer \/ WriteReply
        => UNCHANGED poseVars
  BY Zenon DEF Receive, WriteFloat, WriteHeader, WriteFinal, Transfer, WriteReply
<1>2. EvaluateNaN \/ UNCHANGED vars => UNCHANGED poseVars
  BY Zenon DEF EvaluateNaN, vars
<1> QED BY <1>1, <1>2, Zenon DEF Next, SpiStep

LEMMA NextPoseInv == PoseInv /\ [Next]_vars => PoseInv'
<1> SUFFICES ASSUME PoseInv, [Next]_vars PROVE PoseInv'
  OBVIOUS
<1>1. ASSUME NEW q \in Poses, Evaluate(q) PROVE PoseInv'
  BY <1>1, EvaluatePoseInv
<1>2. UNCHANGED poseVars => PoseInv'
  BY DEF poseVars, PoseInv, PoseTypeOK, Squeezed
<1> QED BY <1>1, <1>2, OtherSteps, Zenon

\* The invariant of evaluate(): the counter lies between what the current run
\* of near and of far comparisons leaves possible.
THEOREM PoseInvariance == Spec => []PoseInv
  BY InitPoseInv, NextPoseInv, PTL DEF Spec

\* However long the pose was far, Limit - Threshold + 1 near comparisons light
\* the LED.
THEOREM LedRecovers == Spec => []Recovers
<1>1. PoseInv => Recovers
  BY LimitAssumption DEF PoseInv, PoseTypeOK, Squeezed, Recovers
<1> QED BY <1>1, PoseInvariance, PTL

\* Threshold far comparisons in a row put the LED out.
THEOREM LedGoesOut == Spec => []GoesOut
<1>1. PoseInv => GoesOut
  BY LimitAssumption DEF PoseInv, PoseTypeOK, Squeezed, GoesOut
<1> QED BY <1>1, PoseInvariance, PTL

\* Fewer than Threshold far comparisons never put the LED out.
THEOREM LedTolerant == Spec => []Tolerant
<1>1. PoseInv => Tolerant
  BY LimitAssumption DEF PoseInv, PoseTypeOK, Squeezed, Tolerant
<1> QED BY <1>1, PoseInvariance, PTL

\* The first pose that is a number is the reference for ever.
THEOREM FixedReference == Spec => ReferenceFixed
<1>1. PoseInv /\ [Next]_vars => [lastQ # NoPose => lastQ' = lastQ]_vars
  <2> SUFFICES ASSUME PoseInv, [Next]_vars, lastQ # NoPose PROVE lastQ' = lastQ
    OBVIOUS
  <2>1. ASSUME NEW q \in Poses, Evaluate(q) PROVE lastQ' = lastQ
    BY <2>1, Zenon DEF Evaluate, Reference, PoseInv, Squeezed
  <2>2. UNCHANGED poseVars => lastQ' = lastQ
    BY DEF poseVars
  <2> QED BY <2>1, <2>2, OtherSteps, Zenon
<1> QED BY <1>1, PoseInvariance, PTL DEF Spec, ReferenceFixed

-----------------------------------------------------------------------------
(* What the quaternion operations of MathLibrary.c compute, for every      *)
(* quaternion and vector with integer components; a rational one is an     *)
(* integer one times a factor that the comparisons do not see.             *)

LEMMA ProductType ==
    ASSUME NEW p \in Quaternion, NEW q \in Quaternion PROVE MultiplyQ(p, q) \in Quaternion
  BY DEF Quaternion, MultiplyQ

LEMMA ConjugateType ==
    ASSUME NEW q \in Quaternion PROVE ConjugateQ(q) \in Quaternion
  BY DEF Quaternion, ConjugateQ

LEMMA ConjugateLength ==
    ASSUME NEW q \in Quaternion PROVE Norm2(ConjugateQ(q)) = Norm2(q)
  BY DEF Quaternion, ConjugateQ, Norm2

LEMMA SquareIsNat == ASSUME NEW n \in Int PROVE n * n \in Nat
<1>1. CASE n >= 0
  BY <1>1
<1>2. CASE n < 0
  <2>1. -n \in Nat /\ n * n = (-n) * (-n)
    BY <1>2
  <2>2. ASSUME NEW m \in Nat PROVE m * m \in Nat
    OBVIOUS
  <2> QED BY <2>1, <2>2
<1> QED BY <1>1, <1>2

LEMMA LengthIsNat == ASSUME NEW q \in Quaternion PROVE Norm2(q) \in Nat
<1>1. \A k \in 1 .. 4 : q[k] \in Int
  BY DEF Quaternion
<1>2. \A k \in 1 .. 4 : q[k] * q[k] \in Nat
  BY <1>1, SquareIsNat
<1>3. ASSUME NEW a \in Nat, NEW b \in Nat, NEW c \in Nat, NEW d \in Nat
      PROVE  a + b + c + d \in Nat
  OBVIOUS
<1> QED BY <1>2, <1>3 DEF Norm2

\* normalizeQ() between two products changes nothing but rounding: the length
\* of a product is the product of the lengths.
THEOREM LengthOfProduct ==
    ASSUME NEW p \in Quaternion, NEW q \in Quaternion
    PROVE  Norm2(MultiplyQ(p, q)) = Norm2(p) * Norm2(q)
  BY DEF Quaternion, MultiplyQ, Norm2

LEMMA RealPartTurned ==
    ASSUME NEW p \in Quaternion, NEW q \in Quaternion, NEW r \in Quaternion
    PROVE  DifferenceQ(MultiplyQ(r, p), MultiplyQ(r, q))[1] = Norm2(r) * DifferenceQ(p, q)[1]
<1> DEFINE rp == MultiplyQ(r, p)
           rq == MultiplyQ(r, q)
<1>1. DifferenceQ(p, q)[1] = p[1]*q[1] + p[2]*q[2] + p[3]*q[3] + p[4]*q[4]
  BY DEF Quaternion, DifferenceQ, ConjugateQ, MultiplyQ
<1>2. DifferenceQ(rp, rq)[1] = rp[1]*rq[1] + rp[2]*rq[2] + rp[3]*rq[3] + rp[4]*rq[4]
  <2> HIDE DEF rp, rq
  <2>1. rp \in Quaternion /\ rq \in Quaternion
    BY ProductType DEF rp, rq
  <2> QED BY <2>1 DEF Quaternion, DifferenceQ, ConjugateQ, MultiplyQ
<1>3. rp[1]*rq[1] + rp[2]*rq[2] + rp[3]*rq[3] + rp[4]*rq[4]
        = Norm2(r) * (p[1]*q[1] + p[2]*q[2] + p[3]*q[3] + p[4]*q[4])
  BY DEF Quaternion, MultiplyQ, Norm2
<1> QED BY <1>1, <1>2, <1>3

LEMMA LengthTurned ==
    ASSUME NEW p \in Quaternion, NEW q \in Quaternion, NEW r \in Quaternion
    PROVE  Norm2(DifferenceQ(MultiplyQ(r, p), MultiplyQ(r, q)))
             = (Norm2(r) * Norm2(r)) * Norm2(DifferenceQ(p, q))
<1>1. Norm2(r) \in Int /\ Norm2(p) \in Int /\ Norm2(q) \in Int
  BY DEF Quaternion, Norm2
<1>2. Norm2(DifferenceQ(p, q)) = Norm2(p) * Norm2(q)
  BY LengthOfProduct, ConjugateType, ConjugateLength DEF DifferenceQ
<1>3. Norm2(DifferenceQ(MultiplyQ(r, p), MultiplyQ(r, q)))
        = (Norm2(r) * Norm2(p)) * (Norm2(r) * Norm2(q))
  BY LengthOfProduct, ProductType, ConjugateType, ConjugateLength DEF DifferenceQ
<1> QED BY <1>1, <1>2, <1>3

LEMMA Scaled ==
    ASSUME NEW n \in Nat, n > 0, NEW a \in Int, NEW b \in Int
    PROVE  /\ n * a = n * b <=> a = b
           /\ n * a > n * b <=> a > b
  OBVIOUS

\* evaluate() compares the orientation of the arm with its reference, whatever
\* orientation r the player has in the room.
THEOREM VerdictIsRelative ==
    ASSUME NEW p \in Quaternion, NEW q \in Quaternion, NEW r \in Quaternion, Norm2(r) # 0
    PROVE  AngleIsSmall(DifferenceQ(MultiplyQ(r, p), MultiplyQ(r, q)))
             <=> AngleIsSmall(DifferenceQ(p, q))
<1> DEFINE n == Norm2(r)
           w == DifferenceQ(p, q)[1]
           l == Norm2(DifferenceQ(p, q))
<1>1. n \in Nat /\ n > 0
  BY LengthIsNat
<1>2. w \in Int /\ l \in Int
  BY ProductType, ConjugateType DEF Quaternion, Norm2, DifferenceQ
<1>3. /\ DifferenceQ(MultiplyQ(r, p), MultiplyQ(r, q))[1] = n * w
      /\ Norm2(DifferenceQ(MultiplyQ(r, p), MultiplyQ(r, q))) = (n * n) * l
  BY RealPartTurned, LengthTurned
<1> DEFINE m == n * n
<1> HIDE DEF n, w, l
<1>4. m \in Nat /\ m > 0 /\ (n * w) * (n * w) = m * (w * w)
  <2>1. m \in Nat /\ m > 0
    BY <1>1, Scaled
  <2>2. (n * w) * (n * w) = m * (w * w)
    BY <1>1, <1>2
  <2> QED BY <2>1, <2>2
<1>5. w * w \in Int /\ 100000 * (w * w) \in Int /\ 65766 * l \in Int
  BY <1>2
<1> HIDE DEF m
<1>6. (n * w) * (n * w) = m * l <=> w * w = l
  BY <1>2, <1>4, <1>5, Scaled
<1>7. n * w > 0 <=> w > 0
  BY <1>1, <1>2, Scaled
<1>8. 100000 * ((n * w) * (n * w)) > 65766 * (m * l) <=> 100000 * (w * w) > 65766 * l
  <2>1. 100000 * (m * (w * w)) = m * (100000 * (w * w)) /\ 65766 * (m * l) = m * (65766 * l)
    BY <1>2, <1>4, <1>5
  <2> QED BY <1>2, <1>4, <1>5, <2>1, Scaled
<1> QED BY <1>3, <1>6, <1>7, <1>8 DEF AngleIsSmall, n, w, l, m

\* The comparison does not depend on which of the two poses is the reference.
THEOREM VerdictIsSymmetric ==
    ASSUME NEW p \in Quaternion, NEW q \in Quaternion
    PROVE  AngleIsSmall(DifferenceQ(p, q)) <=> AngleIsSmall(DifferenceQ(q, p))
<1>1. DifferenceQ(p, q)[1] = DifferenceQ(q, p)[1]
  BY DEF Quaternion, DifferenceQ, ConjugateQ, MultiplyQ
<1>2. Norm2(DifferenceQ(p, q)) = Norm2(DifferenceQ(q, p))
  BY DEF Quaternion, DifferenceQ, ConjugateQ, MultiplyQ, Norm2
<1> QED BY <1>1, <1>2 DEF AngleIsSmall

\* quatMultVect() turns a vector without stretching it.
THEOREM RotationKeepsLength ==
    ASSUME NEW q \in Quaternion, NEW v \in Vector
    PROVE  DotProduct(QuatMultVect(q, v), QuatMultVect(q, v))
             = (Norm2(q) * Norm2(q)) * DotProduct(v, v)
<1> DEFINE vQ == <<0, v[1], v[2], v[3]>>
           multQ == MultiplyQ(MultiplyQ(q, vQ), ConjugateQ(q))
<1>1. vQ \in Quaternion /\ Norm2(vQ) = DotProduct(v, v)
  BY DEF Quaternion, Vector, Norm2, DotProduct
<1>2. multQ \in Quaternion /\ multQ[1] = 0
  <2>1. multQ \in Quaternion
    BY <1>1, ProductType, ConjugateType
  <2>2. multQ[1] = 0
    BY DEF Quaternion, Vector, MultiplyQ, ConjugateQ
  <2> QED BY <2>1, <2>2
<1>3. Norm2(multQ) = (Norm2(q) * Norm2(vQ)) * Norm2(q)
  BY <1>1, LengthOfProduct, ProductType, ConjugateType, ConjugateLength
<1>4. Norm2(multQ) = DotProduct(QuatMultVect(q, v), QuatMultVect(q, v))
  <2> HIDE DEF multQ
  <2>1. QuatMultVect(q, v) = <<multQ[2], multQ[3], multQ[4]>>
    BY DEF QuatMultVect, multQ
  <2> QED BY <1>2, <2>1 DEF Quaternion, Norm2, DotProduct
<1>5. Norm2(q) \in Int /\ Norm2(vQ) \in Int
  BY <1>1 DEF Quaternion, Norm2
<1> HIDE DEF vQ, multQ
<1> QED BY <1>1, <1>3, <1>4, <1>5

\* crossProduct() has the length of A X B.
THEOREM CrossLength ==
    ASSUME NEW a \in Vector, NEW b \in Vector
    PROVE  DotProduct(CrossProduct(a, b), CrossProduct(a, b))
             = DotProduct(a, a) * DotProduct(b, b) - DotProduct(a, b) * DotProduct(a, b)
  BY DEF Vector, CrossProduct, DotProduct

\* But, "A X B" by its comment, it is perpendicular to A only where the second
\* component of A or of A X B is zero; the East and North axes that
\* QVectorToQuaternionTask derives from Down with it are askew otherwise.
THEOREM CrossIsAskew ==
    ASSUME NEW a \in Vector, NEW b \in Vector
    PROVE  DotProduct(a, CrossProduct(a, b)) = 2 * (a[2] * CrossProduct(a, b)[2])
  BY DEF Vector, CrossProduct, DotProduct

-----------------------------------------------------------------------------
(* The comparison of evaluate(), which a state makes with its reference.   *)

LEMMA PosesAreQuaternions ==
    ASSUME NEW q \in AllPoses PROVE q \in Quaternion /\ Norm2(q) # 0
<1>1. CASE q = rest
  BY <1>1 DEF rest, Quaternion, Norm2
<1>2. CASE q = close
  BY <1>2 DEF close, Quaternion, Norm2
<1>3. CASE q = tilted
  BY <1>3 DEF tilted, Quaternion, Norm2
<1>4. CASE q = away
  BY <1>4 DEF away, Quaternion, Norm2
<1>5. CASE q = behind
  BY <1>5 DEF behind, Quaternion, Norm2
<1> QED BY <1>1, <1>2, <1>3, <1>4, <1>5 DEF AllPoses

\* Whatever the reference has become, the LED of a player who is turned, with
\* his reference, by one of the poses is that of one who is not.
THEOREM TurningChangesNothing ==
    ASSUME Poses \subseteq Quaternion PROVE Spec => []TurnedTogether
<1>1. ASSUME PoseInv PROVE TurnedTogether
  <2> SUFFICES ASSUME NEW q \in AllPoses, NEW r \in AllPoses, lastQ # NoPose
               PROVE  IsNear(MultiplyQ(r, q), MultiplyQ(r, lastQ)) <=> IsNear(q, lastQ)
    BY DEF TurnedTogether
  <2>1. lastQ \in Quaternion
    BY <1>1 DEF PoseInv, PoseTypeOK
  <2> QED BY <2>1, PosesAreQuaternions, VerdictIsRelative DEF IsNear
<1> QED BY <1>1, PoseInvariance, PTL
=============================================================================
