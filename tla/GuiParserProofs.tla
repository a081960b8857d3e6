-------------------------- MODULE GuiParserProofs --------------------------
(***************************************************************************)
(* What parseAccel() accepts, for every number of sensors and samples and  *)
(* every set of data bytes.  A byte is followed through the buffer and on  *)
(* the line by how many bytes come after it: what is missing in between    *)
(* was lost, and of a frame no more than MaxLost is.                       *)
(***************************************************************************)
EXTENDS GuiParser, TLAPS

USE ShapeAssumption, DataAssumption, BoundsAssumption

\* What may be missing of a frame.
Bound == IF lossless THEN 0 ELSE MaxLost

\* x comes n bytes after b in what arrives: in the same frame at most B bytes
\* are missing between them, and none of a later frame comes before the rest
\* of b's has been sent.
Gap(B, b, n, x) ==
    IF x.frame = b.frame
      THEN b.position + n <= x.position /\ x.position <= b.position + n + B
      ELSE x.frame > b.frame /\ b.position + n >= FrameSize - B

\* The same of the byte that is sent next, in frame f at position p, after l
\* bytes of f were lost.
LineGap(B, f, p, l, b, n) ==
    IF f = b.frame
      THEN b.position + n <= p /\ p <= b.position + n + l
      ELSE f > b.frame /\ b.position + n >= FrameSize - B

\* b came n bytes before the head of the buffer s (or is in it, for n < 0).
FollowedBy(B, s, f, p, l, b, n) ==
    /\ \A k \in 1 .. Len(s) : n + k >= 1 => Gap(B, b, n + k, s[k])
    /\ LineGap(B, f, p, l, b, n + Len(s) + 1)

Followed(b, n) == FollowedBy(Bound, buffer, frame, position, lost, b, n)

Bytes == [value : 0 .. 255, frame : 1 .. MaxFrames, position : 0 .. FrameSize - 1]

LineInv ==
    /\ lossless \in BOOLEAN
    /\ frame \in 1 .. MaxFrames + 1 /\ position \in 0 .. FrameSize - 1
    /\ lost \in 0 .. Bound
    /\ buffer \in Seq(Bytes)
    /\ \A k \in 1 .. Len(buffer) : Followed(buffer[k], -k)

-----------------------------------------------------------------------------
(* Where the reader is in a frame, unless a data byte misled it.           *)

Sensor == i \div (Axes + 1)
Column == i % (Axes + 1)        \* 0 for the flag

\* The bytes read since the 'A' that began the frame.
Count ==
    Sensor * Group + (IF Column = 0 THEN 0 ELSE 2 * Column - 1) + (IF pc = "low" THEN 1 ELSE 0)

\* The samples stored, and the sensors whose samples a flag followed.
Stored == Sensor * Axes + (IF Column = 0 THEN 0 ELSE Column - 1)
Confirmed == IF Column = 0 THEN Sensor - 1 ELSE Sensor

InPlace(f, j) ==
    /\ t[j][1].frame = f /\ t[j][1].position = HighOf(j)
    /\ t[j][2].frame = f /\ t[j][2].position = HighOf(j) + 1

\* x was read c bytes after b.
ReadAfter(b, c, x) == x \in Bytes /\ Gap(Bound, b, c, x) /\ Followed(x, Count - c)

FlagAt(f, p) == [value |-> A, frame |-> f, position |-> p]

Reading(b) ==
    /\ IsFlag(b.position)
    /\ Followed(b, Count)
    /\ i > 0 => b.position = 0
    /\ \A j \in Samples :
         /\ j \div Axes < Confirmed => InPlace(b.frame, j)
         /\ j \div Axes >= Confirmed /\ j < Stored =>
              ReadAfter(b, HighOf(j), t[j][1]) /\ ReadAfter(b, HighOf(j) + 1, t[j][2])
    /\ pc = "low" => ReadAfter(b, Count, bytes)

Slots == Bytes \cup {NoByte}

ReaderInv ==
    /\ pc \in {"sync", "frame", "low"}
    /\ i \in 0 .. IMUCount * (Axes + 1) - 1
    /\ pc = "low" => Column # 0
    /\ t \in [Samples -> Slots \X Slots] /\ bytes \in Slots
    /\ accepted \in BOOLEAN
    /\ pc # "sync" /\ ~misled /\ Bound < 2 * Axes =>
         \E f \in 1 .. MaxFrames, p \in 0 .. FrameSize - 1 : Reading(FlagAt(f, p))
    /\ accepted => pc = "sync" /\ WholeFrame
    /\ accepted /\ Bound < 2 * Axes => DamageConfined

Inv == LineInv /\ ReaderInv

-----------------------------------------------------------------------------
(* The shape of a frame.                                                   *)

LEMMA Division ==
    ASSUME NEW n \in Nat, NEW k \in Nat \ {0}
    PROVE  n % k = n - (n \div k) * k /\ n % k \in 0 .. k - 1 /\ n \div k \in Nat
  BY SMT

LEMMA Quotient ==
    ASSUME NEW k \in Nat \ {0}, NEW q \in Nat, NEW r \in 0 .. k - 1
    PROVE  (q * k + r) \div k = q /\ (q * k + r) % k = r
  BY SMT

LEMMA Sizes ==
    /\ Group \in Nat /\ Group = 1 + 2 * Axes /\ FrameSize \in Nat
    /\ FrameSize >= 1 + Group
    /\ \A k \in 0 .. Sensors - 1 : k * Group \in Nat /\ 1 + k * Group + Group <= FrameSize
    /\ IMUCount \in 1 .. Sensors
<1>1. Group \in Nat /\ Group = 1 + 2 * Axes
  BY DEF Group
<1> HIDE DEF Group
<1>2. ASSUME NEW g \in Nat PROVE Sensors * g \in Nat /\ Sensors * g >= g
  OBVIOUS
<1>3. FrameSize \in Nat /\ FrameSize >= 1 + Group
  BY <1>1, <1>2 DEF FrameSize
<1>4. ASSUME NEW g \in Nat, NEW k \in 0 .. Sensors - 1
      PROVE  k * g \in Nat /\ k * g + g <= Sensors * g
  <2>1. (k + 1) * g <= Sensors * g
    OBVIOUS
  <2> QED BY <2>1
<1>5. \A k \in 0 .. Sensors - 1 : k * Group \in Nat /\ 1 + k * Group + Group <= FrameSize
  BY <1>1, <1>4 DEF FrameSize
<1> QED BY <1>1, <1>3, <1>5

\* The flags of a frame: one at its beginning and one before each sensor.
LEMMA FlagPlaces ==
    ASSUME NEW p \in 0 .. FrameSize - 1, IsFlag(p), p # 0
    PROVE  \E k \in 0 .. Sensors - 1 : p = 1 + k * Group
<1> DEFINE k == (p - 1) \div Group
<1>1. p - 1 \in Nat /\ Group \in Nat \ {0}
  BY Sizes
<1>2. (p - 1) % Group = 0
  BY DEF IsFlag
<1>3. k \in Nat /\ p - 1 = k * Group
  <2>1. k \in Nat /\ (p - 1) % Group = (p - 1) - k * Group
    BY <1>1, Division
  <2> HIDE DEF k
  <2>2. k * Group \in Nat
    BY <1>1, <2>1
  <2> QED BY <1>1, <1>2, <2>1, <2>2
<1> HIDE DEF k
<1>4. k < Sensors
  <2> SUFFICES ASSUME k >= Sensors PROVE FALSE
    BY <1>3
  <2>1. ASSUME NEW g \in Nat PROVE k * g >= Sensors * g
    BY <1>3
  <2>2. k * Group >= Sensors * Group
    BY <1>1, <2>1
  <2> QED BY <1>1, <1>3, <2>2, Sizes DEF FrameSize
<1> QED BY <1>3, <1>4

LEMMA FlagHere == ASSUME NEW k \in Nat PROVE IsFlag(1 + k * Group)
<1>1. Group \in Nat \ {0}
  BY Sizes
<1>2. (k * Group + 0) % Group = 0
  BY <1>1, Quotient
<1>3. (1 + k * Group) - 1 = k * Group + 0
  BY <1>1
<1> QED BY <1>2, <1>3 DEF IsFlag

\* Fewer bytes than a sensor has after a place for a flag, there is no other.
LEMMA NextFlag ==
    ASSUME NEW k \in 0 .. Sensors - 1, NEW q \in 0 .. FrameSize - 1, IsFlag(q),
           1 + k * Group <= q, q < 1 + k * Group + Group
    PROVE  q = 1 + k * Group
<1>1. Group \in Nat \ {0} /\ k * Group \in Nat
  BY Sizes
<1>2. PICK m \in 0 .. Sensors - 1 : q = 1 + m * Group
  BY <1>1, FlagPlaces
<1>3. ASSUME NEW g \in Nat \ {0}, k * g <= m * g, m * g < k * g + g PROVE m = k
  <2>1. m >= k
    <3> SUFFICES ASSUME m + 1 <= k PROVE FALSE
      OBVIOUS
    <3>1. (m + 1) * g <= k * g
      OBVIOUS
    <3> QED BY <1>3, <3>1
  <2>2. m <= k
    <3> SUFFICES ASSUME k + 1 <= m PROVE FALSE
      OBVIOUS
    <3>1. (k + 1) * g <= m * g
      OBVIOUS
    <3> QED BY <1>3, <3>1
  <2> QED BY <2>1, <2>2
<1>4. k * Group <= m * Group /\ m * Group < k * Group + Group
  <2>1. m * Group \in Nat
    BY Sizes
  <2> QED BY <1>1, <1>2, <2>1
<1>5. m = k
  BY <1>1, <1>3, <1>4
<1> QED BY <1>2, <1>5

\* i is the column of a sensor: the flag, or a sample.
LEMMA Place ==
    ASSUME NEW n \in 0 .. IMUCount * (Axes + 1) - 1
    PROVE  \E k \in 0 .. IMUCount - 1, r \in 0 .. Axes :
              /\ n = k * (Axes + 1) + r
              /\ k = n \div (Axes + 1) /\ r = n % (Axes + 1)
<1> DEFINE k == n \div (Axes + 1)
           r == n % (Axes + 1)
           w == Axes + 1
<1>1. n \in Nat /\ w \in Nat \ {0} /\ n < IMUCount * w
  OBVIOUS
<1>2. r = n - k * w /\ r \in 0 .. w - 1 /\ k \in Nat
  BY <1>1, Division
<1>3. r \in 0 .. Axes
  BY <1>2
<1> HIDE DEF k, r, w
<1>4. n = k * w + r
  <2>1. k * w \in Nat
    BY <1>1, <1>2
  <2> QED BY <1>1, <1>2, <2>1
<1>5. k < IMUCount
  <2> SUFFICES ASSUME k >= IMUCount PROVE FALSE
    BY <1>2
  <2>1. k * w >= IMUCount * w
    BY <1>1, <1>2
  <2> QED BY <1>1, <1>2, <1>4, <2>1
<1> QED BY <1>2, <1>3, <1>4, <1>5 DEF k, r, w

LEMMA NextPlace ==
    ASSUME NEW k \in Nat, NEW r \in 0 .. Axes, NEW n \in Nat, n = k * (Axes + 1) + r
    PROVE  /\ r < Axes => (n + 1) \div (Axes + 1) = k /\ (n + 1) % (Axes + 1) = r + 1
           /\ r = Axes => (n + 1) \div (Axes + 1) = k + 1 /\ (n + 1) % (Axes + 1) = 0
<1> DEFINE w == Axes + 1
<1>1. w \in Nat \ {0}
  OBVIOUS
<1>2. CASE r < Axes
  <2>1. r + 1 \in 0 .. w - 1
    BY <1>2
  <2>2. n + 1 = k * w + (r + 1)
    OBVIOUS
  <2> HIDE DEF w
  <2>3. (k * w + (r + 1)) \div w = k /\ (k * w + (r + 1)) % w = r + 1
    <3>1. PICK q \in 0 .. w - 1 : q = r + 1
      BY <2>1
    <3>2. (k * w + q) \div w = k /\ (k * w + q) % w = q
      BY <1>1, Quotient
    <3> QED BY <3>1, <3>2, Zenon
  <2>4. (n + 1) \div w = k /\ (n + 1) % w = r + 1
    BY <2>2, <2>3, Zenon
  <2> QED BY <1>2, <2>4 DEF w
<1>3. CASE r = Axes
  <2>1. n + 1 = (k + 1) * w + 0
    BY <1>3
  <2>2. 0 \in 0 .. w - 1 /\ k + 1 \in Nat
    OBVIOUS
  <2> HIDE DEF w
  <2> DEFINE m == k + 1
  <2> HIDE DEF m
  <2>3. (m * w + 0) \div w = m /\ (m * w + 0) % w = 0
    BY <1>1, <2>2, Quotient DEF m
  <2>4. n + 1 = m * w + 0
    BY <2>1 DEF m
  <2>5. (n + 1) \div w = m /\ (n + 1) % w = 0
    BY <2>3, <2>4, Zenon
  <2> QED BY <1>3, <2>5 DEF w, m
<1> QED BY <1>2, <1>3

\* Sample q of sensor k.
LEMMA SampleHere ==
    ASSUME NEW k \in Nat, NEW q \in 0 .. Axes - 1
    PROVE  /\ (k * Axes + q) \div Axes = k
           /\ HighOf(k * Axes + q) = 2 + k * Group + 2 * q
<1>1. (k * Axes + q) \div Axes = k /\ (k * Axes + q) % Axes = q
  BY Quotient
<1> QED BY <1>1, Zenon DEF HighOf

LEMMA SamplePlace ==
    ASSUME NEW j \in Samples
    PROVE  \E k \in 0 .. IMUCount - 1, q \in 0 .. Axes - 1 :
              /\ j = k * Axes + q /\ k = j \div Axes
              /\ HighOf(j) = 2 + k * Group + 2 * q
<1> DEFINE k == j \div Axes
           q == j % Axes
<1>1. j \in Nat /\ j < IMUCount * Axes
  BY DEF Samples
<1>2. q = j - k * Axes /\ q \in 0 .. Axes - 1 /\ k \in Nat
  BY <1>1, Division
<1> HIDE DEF k, q
<1>3. j = k * Axes + q
  <2>1. k * Axes \in Nat
    BY <1>2
  <2> QED BY <1>1, <1>2, <2>1
<1>4. k < IMUCount
  <2> SUFFICES ASSUME k >= IMUCount PROVE FALSE
    BY <1>2
  <2>1. k * Axes >= IMUCount * Axes
    BY <1>2
  <2> QED BY <1>1, <1>2, <1>3, <2>1
<1>5. HighOf(j) = 2 + k * Group + 2 * q
  BY <1>2, <1>3, SampleHere
<1> QED BY <1>2, <1>3, <1>4, <1>5 DEF k

\* The samples before those of sensor k are those of the sensors before it.
LEMMA SamplesBefore ==
    ASSUME NEW j \in Samples, NEW k \in Nat
    PROVE  j \div Axes < k <=> j < k * Axes
<1>1. PICK m \in 0 .. IMUCount - 1, q \in 0 .. Axes - 1 : j = m * Axes + q /\ m = j \div Axes
  BY SamplePlace
<1>2. CASE m < k
  <2>1. (m + 1) * Axes <= k * Axes
    BY <1>2
  <2> QED BY <1>1, <1>2, <2>1
<1>3. CASE m >= k
  <2>1. m * Axes >= k * Axes
    BY <1>3
  <2> QED BY <1>1, <1>3, <2>1
<1> QED BY <1>2, <1>3

-----------------------------------------------------------------------------
(* A byte followed while the line and the reader move on.                  *)

LEMMA BytesAre ==
    ASSUME NEW b \in Bytes
    PROVE  b.value \in 0 .. 255 /\ b.frame \in 1 .. MaxFrames /\ b.position \in 0 .. FrameSize - 1
  BY DEF Bytes

LEMMA GapWidens ==
    ASSUME NEW B \in Nat, NEW C \in Nat, B <= C, NEW b \in Bytes, NEW x \in Bytes, NEW n \in Int,
           Gap(B, b, n, x)
    PROVE  Gap(C, b, n, x)
  BY BytesAre, Sizes DEF Gap

LEMMA TailIs ==
    ASSUME NEW S, NEW s \in Seq(S), s # <<>>
    PROVE  /\ Tail(s) \in Seq(S) /\ Len(Tail(s)) = Len(s) - 1 /\ Len(s) \in Nat \ {0}
           /\ Head(s) = s[1] /\ s[1] \in S
           /\ \A k \in 1 .. Len(s) - 1 : Tail(s)[k] = s[k + 1]
  OBVIOUS

LEMMA AppendIs ==
    ASSUME NEW S, NEW s \in Seq(S), NEW y \in S
    PROVE  /\ Append(s, y) \in Seq(S) /\ Len(Append(s, y)) = Len(s) + 1 /\ Len(s) \in Nat
           /\ \A k \in 1 .. Len(s) : Append(s, y)[k] = s[k]
           /\ Append(s, y)[Len(s) + 1] = y
  OBVIOUS

LEMMA FollowRead ==
    ASSUME NEW B \in Nat, NEW s \in Seq(Bytes), s # <<>>, NEW f, NEW p, NEW l,
           NEW b \in Bytes, NEW n \in Int, FollowedBy(B, s, f, p, l, b, n)
    PROVE  FollowedBy(B, Tail(s), f, p, l, b, n + 1)
<1>1. /\ Len(Tail(s)) = Len(s) - 1 /\ Len(s) \in Nat
      /\ \A k \in 1 .. Len(s) - 1 : Tail(s)[k] = s[k + 1]
  BY TailIs
<1>2. ASSUME NEW k \in 1 .. Len(Tail(s)), (n + 1) + k >= 1
      PROVE  Gap(B, b, (n + 1) + k, Tail(s)[k])
  <2>1. k + 1 \in 1 .. Len(s) /\ n + (k + 1) >= 1 /\ n + (k + 1) = (n + 1) + k
    BY <1>1, <1>2
  <2>2. Gap(B, b, n + (k + 1), s[k + 1])
    BY <2>1 DEF FollowedBy
  <2>3. Tail(s)[k] = s[k + 1]
    BY <1>1, <1>2
  <2> QED BY <2>1, <2>2, <2>3
<1>3. n + Len(s) + 1 = (n + 1) + Len(Tail(s)) + 1
  BY <1>1
<1>4. LineGap(B, f, p, l, b, (n + 1) + Len(Tail(s)) + 1)
  BY <1>3 DEF FollowedBy
<1> QED BY <1>2, <1>4 DEF FollowedBy

LEMMA FollowHead ==
    ASSUME NEW B \in Nat, NEW s \in Seq(Bytes), s # <<>>, NEW f, NEW p, NEW l,
           NEW b \in Bytes, NEW n \in Nat, FollowedBy(B, s, f, p, l, b, n)
    PROVE  Gap(B, b, n + 1, s[1])
<1>1. 1 \in 1 .. Len(s) /\ n + 1 >= 1
  BY TailIs
<1> QED BY <1>1 DEF FollowedBy

\* The byte that is sent next, and what the line does then.
NextFrame(f, p) == IF p + 1 = FrameSize THEN f + 1 ELSE f
NextPosition(p) == (p + 1) % FrameSize
NextLost(p, l) == IF p + 1 = FrameSize THEN 0 ELSE l

LEMMA NextPositionIs ==
    ASSUME NEW p \in 0 .. FrameSize - 1
    PROVE  NextPosition(p) = IF p + 1 = FrameSize THEN 0 ELSE p + 1
<1>1. FrameSize \in Nat \ {0}
  BY Sizes
<1>2. CASE p + 1 = FrameSize
  <2>1. (1 * FrameSize + 0) % FrameSize = 0
    BY <1>1, Quotient
  <2>2. 1 * FrameSize + 0 = p + 1
    BY <1>1, <1>2
  <2> QED BY <1>2, <2>1, <2>2, Zenon DEF NextPosition
<1>3. CASE p + 1 # FrameSize
  <2>1. p + 1 \in 0 .. FrameSize - 1 /\ 0 * FrameSize + (p + 1) = p + 1
    BY <1>1, <1>3
  <2>2. (0 * FrameSize + (p + 1)) % FrameSize = p + 1
    BY <1>1, <2>1, Quotient
  <2>3. (p + 1) % FrameSize = p + 1
    BY <2>1, <2>2, Zenon
  <2> QED BY <1>3, <2>3, Zenon DEF NextPosition
<1> QED BY <1>2, <1>3

LEMMA LineSends ==
    ASSUME NEW B \in Nat, NEW f \in 1 .. MaxFrames, NEW p \in 0 .. FrameSize - 1, NEW l \in 0 .. B,
           NEW b \in Bytes, NEW n \in Int, LineGap(B, f, p, l, b, n)
    PROVE  LineGap(B, NextFrame(f, p), NextPosition(p), NextLost(p, l), b, n + 1)
<1>1. b.frame \in Nat /\ b.position \in Nat /\ FrameSize \in Nat
  BY BytesAre, Sizes
<1>2. CASE p + 1 = FrameSize
  BY <1>1, <1>2 DEF LineGap, NextFrame
<1>3. CASE p + 1 # FrameSize
  <2>1. NextFrame(f, p) = f /\ NextPosition(p) = p + 1 /\ NextLost(p, l) = l
    BY <1>3, NextPositionIs DEF NextFrame, NextLost
  <2> QED BY <1>1, <2>1 DEF LineGap
<1> QED BY <1>2, <1>3

LEMMA LineLoses ==
    ASSUME NEW B \in Nat, NEW C \in Nat, B <= C,
           NEW f \in 1 .. MaxFrames, NEW p \in 0 .. FrameSize - 1, NEW l \in 0 .. B, l + 1 <= C,
           NEW b \in Bytes, NEW n \in Int, LineGap(B, f, p, l, b, n)
    PROVE  LineGap(C, NextFrame(f, p), NextPosition(p), NextLost(p, l + 1), b, n)
<1>1. b.frame \in Nat /\ b.position \in Nat /\ FrameSize \in Nat
  BY BytesAre, Sizes
<1>2. CASE p + 1 = FrameSize
  BY <1>1, <1>2 DEF LineGap, NextFrame
<1>3. CASE p + 1 # FrameSize
  <2>1. NextFrame(f, p) = f /\ NextPosition(p) = p + 1 /\ NextLost(p, l + 1) = l + 1
    BY <1>3, NextPositionIs DEF NextFrame, NextLost
  <2> QED BY <1>1, <2>1 DEF LineGap
<1> QED BY <1>2, <1>3

LEMMA FollowSend ==
    ASSUME NEW B \in Nat, NEW s \in Seq(Bytes),
           NEW f \in 1 .. MaxFrames, NEW p \in 0 .. FrameSize - 1, NEW l \in 0 .. B,
           NEW y \in Bytes, y.frame = f, y.position = p,
           NEW b \in Bytes, NEW n \in Int, FollowedBy(B, s, f, p, l, b, n)
    PROVE  FollowedBy(B, Append(s, y), NextFrame(f, p), NextPosition(p), NextLost(p, l), b, n)
<1> DEFINE r == Append(s, y)
<1>1. /\ Len(r) = Len(s) + 1 /\ Len(s) \in Nat
      /\ \A k \in 1 .. Len(s) : r[k] = s[k]
      /\ r[Len(s) + 1] = y
  BY AppendIs
<1> HIDE DEF r
<1>2. LineGap(B, f, p, l, b, n + Len(s) + 1)
  BY DEF FollowedBy
<1>3. Gap(B, b, n + Len(s) + 1, y)
  BY <1>1, <1>2, BytesAre, Sizes, SMTT(20) DEF Gap, LineGap
<1>4. ASSUME NEW k \in 1 .. Len(r), n + k >= 1 PROVE Gap(B, b, n + k, r[k])
  <2>1. CASE k = Len(s) + 1
    <3>1. n + k = n + Len(s) + 1 /\ r[k] = y
      BY <1>1, <2>1
    <3> QED BY <1>3, <3>1
  <2>2. CASE k # Len(s) + 1
    <3>1. k \in 1 .. Len(s) /\ r[k] = s[k]
      BY <1>1, <2>2
    <3> QED BY <1>4, <3>1 DEF FollowedBy
  <2> QED BY <2>1, <2>2
<1>5. LineGap(B, NextFrame(f, p), NextPosition(p), NextLost(p, l), b, n + Len(r) + 1)
  <2>1. n + Len(s) + 1 \in Int /\ n + Len(r) + 1 = (n + Len(s) + 1) + 1
    BY <1>1
  <2> QED BY <1>2, <2>1, LineSends
<1> QED BY <1>4, <1>5 DEF FollowedBy, r

LEMMA FollowLose ==
    ASSUME NEW B \in Nat, NEW C \in Nat, B <= C, NEW s \in Seq(Bytes),
           NEW f \in 1 .. MaxFrames, NEW p \in 0 .. FrameSize - 1, NEW l \in 0 .. B, l + 1 <= C,
           NEW b \in Bytes, NEW n \in Int, FollowedBy(B, s, f, p, l, b, n)
    PROVE  FollowedBy(C, s, NextFrame(f, p), NextPosition(p), NextLost(p, l + 1), b, n)
<1>1. Len(s) \in Nat /\ \A k \in 1 .. Len(s) : s[k] \in Bytes
  OBVIOUS
<1>2. ASSUME NEW k \in 1 .. Len(s), n + k >= 1 PROVE Gap(C, b, n + k, s[k])
  <2>1. Gap(B, b, n + k, s[k])
    BY <1>2 DEF FollowedBy
  <2>2. n + k \in Int /\ s[k] \in Bytes
    BY <1>1
  <2> QED BY <2>1, <2>2, GapWidens
<1>3. LineGap(C, NextFrame(f, p), NextPosition(p), NextLost(p, l + 1), b, n + Len(s) + 1)
  <2>1. LineGap(B, f, p, l, b, n + Len(s) + 1) /\ n + Len(s) + 1 \in Int
    BY <1>1 DEF FollowedBy
  <2> QED BY <2>1, LineLoses
<1> QED BY <1>2, <1>3 DEF FollowedBy

-----------------------------------------------------------------------------
(* The line and the buffer.                                                *)

\* What was followed is still followed, r bytes further from the head.
StillFollowed(r) ==
    \A b \in Bytes, n \in Int :
        FollowedBy(Bound, buffer, frame, position, lost, b, n) =>
            FollowedBy(Bound', buffer', frame', position', lost', b, n + r)

LEMMA BoundIs == ASSUME lossless \in BOOLEAN PROVE Bound \in Nat /\ Bound <= MaxLost
  BY DEF Bound

LEMMA SendLine ==
    ASSUME LineInv, Send
    PROVE  LineInv' /\ Bound' = Bound /\ StillFollowed(0)
<1> DEFINE B == Bound
           f == frame
           p == position
           l == lost
           s == buffer
<1>1. PICK v \in IF IsFlag(position) THEN {A} ELSE Data :
          buffer' = Append(buffer, [value |-> v, frame |-> frame, position |-> position])
  BY DEF Send
<1> DEFINE y == [value |-> v, frame |-> f, position |-> p]
<1>2. /\ B \in Nat /\ f \in 1 .. MaxFrames /\ p \in 0 .. FrameSize - 1 /\ l \in 0 .. B
      /\ s \in Seq(Bytes)
  BY BoundIs DEF LineInv, Send, NextByte
<1>3. /\ frame' = NextFrame(f, p) /\ position' = NextPosition(p) /\ lost' = NextLost(p, l)
      /\ lossless' = lossless
  BY DEF Send, NextByte, Lost, NextFrame, NextPosition, NextLost
<1>4. Bound' = B
  BY <1>3 DEF Bound
<1>5. y \in Bytes /\ y.frame = f /\ y.position = p
  <2>1. v \in 0 .. 255
    BY <1>1 DEF A
  <2> QED BY <1>2, <2>1 DEF Bytes
<1>7. ASSUME NEW b \in Bytes, NEW n \in Int, FollowedBy(B, s, f, p, l, b, n)
      PROVE  FollowedBy(Bound', buffer', frame', position', lost', b, n)
  <2> HIDE DEF B, f, p, l, s, y
  <2>1. FollowedBy(B, Append(s, y), NextFrame(f, p), NextPosition(p), NextLost(p, l), b, n)
    BY <1>2, <1>5, <1>7, FollowSend
  <2>2. buffer' = Append(s, y)
    BY <1>1 DEF s, y, f, p
  <2> QED BY <1>3, <1>4, <2>1, <2>2, Zenon
<1>8. StillFollowed(0)
  <2>1. \A n \in Int : n + 0 = n
    OBVIOUS
  <2> QED BY <1>7, <2>1 DEF StillFollowed
<1>9. LineInv'
  <2>1. /\ buffer' \in Seq(Bytes) /\ Len(buffer') = Len(s) + 1 /\ Len(s) \in Nat
        /\ \A k \in 1 .. Len(s) : buffer'[k] = s[k]
        /\ buffer'[Len(s) + 1] = y
    <3>1. buffer' = Append(s, y)
      BY <1>1
    <3> HIDE DEF s, y
    <3> QED BY <1>2, <1>5, <3>1, AppendIs
  <2>2. lossless' \in BOOLEAN /\ frame' \in 1 .. MaxFrames + 1
        /\ position' \in 0 .. FrameSize - 1 /\ lost' \in 0 .. Bound'
    <3> HIDE DEF B, f, p, l
    <3>1. NextPosition(p) \in 0 .. FrameSize - 1
      BY <1>2, NextPositionIs, Sizes
    <3>2. NextFrame(f, p) \in 1 .. MaxFrames + 1 /\ NextLost(p, l) \in 0 .. B
      BY <1>2 DEF NextFrame, NextLost
    <3>3. lossless' \in BOOLEAN
      BY <1>3, Zenon DEF LineInv
    <3> QED BY <1>3, <1>4, <3>1, <3>2, <3>3, Zenon
  <2>3. ASSUME NEW k \in 1 .. Len(buffer')
        PROVE  FollowedBy(Bound', buffer', frame', position', lost', buffer'[k], -k)
    <3>1. CASE k = Len(s) + 1
      <4>1. buffer'[k] = y
        BY <2>1, <3>1
      <4>2. \A m \in 1 .. Len(buffer') : ~(-k + m >= 1)
        BY <2>1, <3>1
      <4>3. -k + Len(buffer') + 1 = 1
        BY <2>1, <3>1
      <4>4. LineGap(B, NextFrame(f, p), NextPosition(p), NextLost(p, l), y, 1)
        <5> HIDE DEF B, f, p, l, y
        <5>1. CASE p + 1 = FrameSize
          BY <1>2, <1>5, <5>1, Sizes DEF LineGap, NextFrame
        <5>2. CASE p + 1 # FrameSize
          <6>1. NextFrame(f, p) = f /\ NextPosition(p) = p + 1 /\ NextLost(p, l) = l
            BY <1>2, <5>2, NextPositionIs DEF NextFrame, NextLost
          <6> QED BY <1>2, <1>5, <6>1 DEF LineGap
        <5> QED BY <5>1, <5>2
      <4>5. LineGap(Bound', frame', position', lost', y, -k + Len(buffer') + 1)
        BY <1>3, <1>4, <4>3, <4>4, Zenon
      <4> HIDE DEF y
      <4> QED BY <4>1, <4>2, <4>5 DEF FollowedBy
    <3>2. CASE k # Len(s) + 1
      <4>1. k \in 1 .. Len(s) /\ buffer'[k] = s[k] /\ s[k] \in Bytes /\ -k \in Int
        BY <1>2, <2>1, <3>2
      <4>2. FollowedBy(B, s, f, p, l, s[k], -k)
        BY <4>1 DEF LineInv, Followed
      <4>3. FollowedBy(Bound', buffer', frame', position', lost', s[k], -k)
        BY <1>7, <4>1, <4>2
      <4> QED BY <4>1, <4>2, <4>3
    <3> QED BY <3>1, <3>2
  <2> QED BY <2>1, <2>2, <2>3 DEF LineInv, Followed
<1> QED BY <1>4, <1>8, <1>9

LEMMA LoseLine ==
    ASSUME LineInv, Lose
    PROVE  LineInv' /\ Bound <= Bound' /\ lossless' = FALSE /\ StillFollowed(0)
<1> DEFINE B == Bound
           f == frame
           p == position
           l == lost
           s == buffer
<1>1. /\ B \in Nat /\ B <= MaxLost
      /\ f \in 1 .. MaxFrames /\ p \in 0 .. FrameSize - 1 /\ l \in 0 .. B
      /\ s \in Seq(Bytes)
  BY BoundIs DEF LineInv, Lose, NextByte
<1>2. /\ frame' = NextFrame(f, p) /\ position' = NextPosition(p) /\ lost' = NextLost(p, l + 1)
      /\ lossless' = FALSE /\ buffer' = s /\ l < MaxLost
  BY DEF Lose, NextByte, Lost, NextFrame, NextPosition, NextLost
<1>3. Bound' = MaxLost
  BY <1>2 DEF Bound
<1>4. ASSUME NEW b \in Bytes, NEW n \in Int, FollowedBy(B, s, f, p, l, b, n)
      PROVE  FollowedBy(Bound', buffer', frame', position', lost', b, n)
  <2> HIDE DEF B, f, p, l, s
  <2>1. FollowedBy(MaxLost, s, NextFrame(f, p), NextPosition(p), NextLost(p, l + 1), b, n)
    <3>1. MaxLost \in Nat /\ l + 1 <= MaxLost
      BY <1>1, <1>2
    <3> QED BY <1>1, <1>4, <3>1, FollowLose
  <2> QED BY <1>2, <1>3, <2>1, Zenon
<1>5. StillFollowed(0)
  <2>1. \A n \in Int : n + 0 = n
    OBVIOUS
  <2> QED BY <1>4, <2>1 DEF StillFollowed
<1>6. LineInv'
  <2>1. frame' \in 1 .. MaxFrames + 1 /\ position' \in 0 .. FrameSize - 1 /\ lost' \in 0 .. Bound'
    <3> HIDE DEF B, f, p, l
    <3>1. NextPosition(p) \in 0 .. FrameSize - 1
      BY <1>1, NextPositionIs, Sizes
    <3>2. NextFrame(f, p) \in 1 .. MaxFrames + 1 /\ NextLost(p, l + 1) \in 0 .. MaxLost
      BY <1>1, <1>2 DEF NextFrame, NextLost
    <3> QED BY <1>2, <1>3, <3>1, <3>2, Zenon
  <2>2. ASSUME NEW k \in 1 .. Len(s)
        PROVE  FollowedBy(Bound', buffer', frame', position', lost', s[k], -k)
    <3>1. s[k] \in Bytes /\ -k \in Int
      BY <1>1
    <3> QED BY <1>4, <3>1 DEF LineInv, Followed
  <2>3. lossless' \in BOOLEAN
    BY <1>2, Zenon
  <2>4. buffer' \in Seq(Bytes) /\ Len(buffer') = Len(s)
    BY <1>1, <1>2
  <2> QED BY <1>2, <2>1, <2>2, <2>3, <2>4 DEF LineInv, Followed
<1> QED BY <1>1, <1>2, <1>3, <1>5, <1>6

LEMMA ReadLine ==
    ASSUME LineInv, Arrived, Read, UNCHANGED line
    PROVE  /\ LineInv' /\ Bound' = Bound /\ StillFollowed(1)
           /\ Byte = buffer[1] /\ Byte \in Bytes
           /\ FollowedBy(Bound', buffer', frame', position', lost', Byte, 0)
<1> DEFINE s == buffer
<1>1. Bound \in Nat /\ s \in Seq(Bytes) /\ s # <<>>
  BY BoundIs DEF LineInv, Arrived
<1>2. /\ buffer' = Tail(s) /\ UNCHANGED <<frame, position, lost, lossless>>
      /\ Bound' = Bound
  BY DEF Read, line, Bound
<1>3. /\ Tail(s) \in Seq(Bytes) /\ Len(Tail(s)) = Len(s) - 1 /\ Len(s) \in Nat \ {0}
      /\ Head(s) = s[1] /\ s[1] \in Bytes
      /\ \A k \in 1 .. Len(s) - 1 : Tail(s)[k] = s[k + 1]
  <2> HIDE DEF s
  <2> QED BY <1>1, TailIs
<1>4. ASSUME NEW b \in Bytes, NEW n \in Int, FollowedBy(Bound, s, frame, position, lost, b, n)
      PROVE  FollowedBy(Bound', buffer', frame', position', lost', b, n + 1)
  <2> HIDE DEF s
  <2>1. FollowedBy(Bound, Tail(s), frame, position, lost, b, n + 1)
    BY <1>1, <1>4, FollowRead
  <2> QED BY <1>2, <2>1, Zenon
<1>5. ASSUME NEW k \in 1 .. Len(s)
      PROVE  /\ s[k] \in Bytes
             /\ FollowedBy(Bound', buffer', frame', position', lost', s[k], -k + 1)
  <2>1. s[k] \in Bytes /\ -k \in Int
    BY <1>1, <1>3
  <2>2. FollowedBy(Bound, s, frame, position, lost, s[k], -k)
    BY DEF LineInv, Followed
  <2> QED BY <1>4, <2>1, <2>2
<1>6. ASSUME NEW k \in 1 .. Len(buffer')
      PROVE  FollowedBy(Bound', buffer', frame', position', lost', buffer'[k], -k)
  <2>1. k + 1 \in 1 .. Len(s) /\ buffer'[k] = s[k + 1] /\ -(k + 1) + 1 = -k
    BY <1>2, <1>3
  <2> QED BY <1>5, <2>1
<1>7. LineInv'
  <2>1. buffer' \in Seq(Bytes)
    BY <1>2, <1>3
  <2>2. /\ lossless' \in BOOLEAN /\ frame' \in 1 .. MaxFrames + 1
        /\ position' \in 0 .. FrameSize - 1 /\ lost' \in 0 .. Bound'
    BY <1>2, Zenon DEF LineInv
  <2> QED BY <1>6, <2>1, <2>2 DEF LineInv, Followed
<1>8. Byte = s[1]
  BY <1>3 DEF Byte
<1>9. FollowedBy(Bound', buffer', frame', position', lost', Byte, 0)
  <2>1. 1 \in 1 .. Len(s) /\ -1 + 1 = 0
    BY <1>3
  <2> QED BY <1>5, <1>8, <2>1
<1> QED BY <1>2, <1>3, <1>4, <1>7, <1>8, <1>9 DEF StillFollowed

LEMMA DiscardLine == ASSUME LineInv, buffer' = <<>>, UNCHANGED line PROVE LineInv' /\ Bound' = Bound
<1>1. UNCHANGED <<frame, position, lost, lossless>> /\ Bound' = Bound
  BY DEF line, Bound
<1>2. buffer' \in Seq(Bytes) /\ \A k \in 1 .. Len(buffer') : FALSE
  OBVIOUS
<1>3. /\ lossless' \in BOOLEAN /\ frame' \in 1 .. MaxFrames + 1
      /\ position' \in 0 .. FrameSize - 1 /\ lost' \in 0 .. Bound'
  BY <1>1, Zenon DEF LineInv
<1> QED BY <1>1, <1>2, <1>3 DEF LineInv

LEMMA LineStays ==
    ASSUME LineInv, UNCHANGED <<frame, position, lost, lossless, buffer>>
    PROVE  LineInv' /\ Bound' = Bound /\ StillFollowed(0)
<1>1. Bound' = Bound
  BY DEF Bound
<1>2. LineInv'
  BY <1>1, Zenon DEF LineInv, Followed
<1>3. \A n \in Int : n + 0 = n
  OBVIOUS
<1>4. StillFollowed(0)
  BY <1>1, <1>3, Zenon DEF StillFollowed
<1> QED BY <1>1, <1>2, <1>4

-----------------------------------------------------------------------------
(* The reader.                                                             *)

LEMMA CountIs ==
    ASSUME i \in 0 .. IMUCount * (Axes + 1) - 1
    PROVE  \E k \in 0 .. IMUCount - 1, r \in 0 .. Axes :
              /\ Sensor = k /\ Column = r /\ i = k * (Axes + 1) + r
              /\ k * Group \in Nat /\ k * Axes \in Nat
              /\ Count = k * Group + (IF r = 0 THEN 0 ELSE 2 * r - 1) + (IF pc = "low" THEN 1 ELSE 0)
              /\ Count \in Nat
<1>1. PICK k \in 0 .. IMUCount - 1, r \in 0 .. Axes :
         i = k * (Axes + 1) + r /\ Sensor = k /\ Column = r
  BY Place DEF Sensor, Column
<1>2. k * Group \in Nat /\ k * Axes \in Nat
  BY Sizes
<1>3. Count = k * Group + (IF r = 0 THEN 0 ELSE 2 * r - 1) + (IF pc = "low" THEN 1 ELSE 0)
  BY <1>1, Zenon DEF Count
<1>4. Count \in Nat
  BY <1>2, <1>3
<1> QED BY <1>1, <1>2, <1>3, <1>4

\* What was read after b stays so.
LEMMA StillReadAfter ==
    ASSUME LineInv, Bound' \in Nat, Bound <= Bound', Count \in Int,
           NEW r \in Int, StillFollowed(r), Count' = Count + r,
           NEW b \in Bytes, NEW c \in Int, NEW x, ReadAfter(b, c, x)
    PROVE  x \in Bytes /\ Gap(Bound', b, c, x)
           /\ FollowedBy(Bound', buffer', frame', position', lost', x, Count' - c)
<1>1. /\ x \in Bytes /\ Gap(Bound, b, c, x)
      /\ FollowedBy(Bound, buffer, frame, position, lost, x, Count - c)
  BY DEF ReadAfter, Followed
<1>2. Bound \in Nat
  BY BoundIs DEF LineInv
<1>3. Gap(Bound', b, c, x)
  <2>1. ASSUME NEW C \in Nat, C = Bound' PROVE Gap(C, b, c, x)
    BY <1>1, <1>2, <2>1, GapWidens
  <2> QED BY <2>1
<1>4. Count - c \in Int /\ (Count - c) + r = Count' - c
  OBVIOUS
<1> QED BY <1>1, <1>3, <1>4 DEF StillFollowed

Pending(b, j) == ReadAfter(b, HighOf(j), t[j][1]) /\ ReadAfter(b, HighOf(j) + 1, t[j][2])

LEMMA FlagAtIs ==
    ASSUME NEW f \in 1 .. MaxFrames, NEW p \in 0 .. FrameSize - 1
    PROVE  FlagAt(f, p) \in Bytes /\ FlagAt(f, p).frame = f /\ FlagAt(f, p).position = p
  BY DEF FlagAt, Bytes, A

LEMMA HighOfIs == ASSUME NEW j \in Samples PROVE HighOf(j) \in Nat
<1>1. PICK k \in 0 .. IMUCount - 1, q \in 0 .. Axes - 1 : HighOf(j) = 2 + k * Group + 2 * q
  BY SamplePlace
<1>2. k * Group \in Nat
  BY Sizes
<1> QED BY <1>1, <1>2

\* What was read of a frame is still what it was, r bytes later.
LEMMA StillReading ==
    ASSUME LineInv, Bound' \in Nat, Bound <= Bound', Count \in Int,
           NEW r \in Int, StillFollowed(r), Count' = Count + r,
           NEW b \in Bytes, Reading(b)
    PROVE  /\ Followed(b, Count)'
           /\ \A j \in Samples : t'[j] = t[j] =>
                /\ InPlace(b.frame, j) => InPlace(b.frame, j)'
                /\ Pending(b, j) => Pending(b, j)'
<1>1. Followed(b, Count)'
  <2>1. FollowedBy(Bound, buffer, frame, position, lost, b, Count)
    BY DEF Reading, Followed
  <2> QED BY <2>1 DEF StillFollowed, Followed
<1>2. ASSUME NEW j \in Samples, t'[j] = t[j], InPlace(b.frame, j)
      PROVE  InPlace(b.frame, j)'
  BY <1>2, Zenon DEF InPlace
<1>3. ASSUME NEW j \in Samples, t'[j] = t[j], Pending(b, j)
      PROVE  Pending(b, j)'
  <2>1. HighOf(j) \in Int /\ HighOf(j) + 1 \in Int
    BY HighOfIs
  <2>2. /\ t[j][1] \in Bytes /\ Gap(Bound', b, HighOf(j), t[j][1])
        /\ FollowedBy(Bound', buffer', frame', position', lost', t[j][1], Count' - HighOf(j))
    BY <1>3, <2>1, StillReadAfter DEF Pending
  <2>3. /\ t[j][2] \in Bytes /\ Gap(Bound', b, HighOf(j) + 1, t[j][2])
        /\ FollowedBy(Bound', buffer', frame', position', lost', t[j][2], Count' - (HighOf(j) + 1))
    BY <1>3, <2>1, StillReadAfter DEF Pending
  <2> QED BY <1>3, <2>2, <2>3, Zenon DEF Pending, ReadAfter, Followed
<1> QED BY <1>1, <1>2, <1>3, Zenon

\* The line moves and the reader does not.
LEMMA LineMoves ==
    ASSUME LineInv, ReaderInv, Bound' \in Nat, Bound <= Bound', lossless' => lossless,
           StillFollowed(0), UNCHANGED parser
    PROVE  ReaderInv'
<1>1. UNCHANGED <<pc, i, bytes, t, accepted, misled>>
  BY DEF parser
<1>2. /\ Count' = Count /\ Stored' = Stored /\ Confirmed' = Confirmed /\ Column' = Column
  BY <1>1, Zenon DEF Count, Stored, Confirmed, Column, Sensor
<1>3. Bound \in Nat
  BY BoundIs DEF LineInv
<1>4. ASSUME pc' # "sync", ~misled', Bound' < 2 * Axes
      PROVE  \E f \in 1 .. MaxFrames, p \in 0 .. FrameSize - 1 : Reading(FlagAt(f, p))'
  <2>1. Bound < 2 * Axes
    <3>1. ASSUME NEW C \in Nat, C = Bound' PROVE Bound < 2 * Axes
      BY <1>3, <1>4, <3>1
    <3> QED BY <3>1
  <2>2. PICK f \in 1 .. MaxFrames, p \in 0 .. FrameSize - 1 : Reading(FlagAt(f, p))
    BY <1>1, <1>4, <2>1, Zenon DEF ReaderInv
  <2> DEFINE b == FlagAt(f, p)
  <2>3. b \in Bytes
    BY FlagAtIs
  <2> HIDE DEF b
  <2>4. Count \in Nat
    BY CountIs DEF ReaderInv
  <2>5. Count \in Int /\ Count' = Count + 0
    BY <1>2, <2>4
  <2>6. Reading(b)
    BY <2>2 DEF b
  <2>7. /\ Followed(b, Count)'
        /\ \A j \in Samples :
                /\ InPlace(b.frame, j) => InPlace(b.frame, j)'
                /\ Pending(b, j) => Pending(b, j)'
    BY <1>1, <2>3, <2>5, <2>6, StillReading
  <2>8. pc' = "low" => ReadAfter(b, Count, bytes)'
    <3>1. SUFFICES ASSUME pc = "low" PROVE ReadAfter(b, Count, bytes)'
      BY <1>1
    <3>2. ReadAfter(b, Count, bytes)
      BY <2>6, <3>1 DEF Reading
    <3>3. /\ bytes \in Bytes /\ Gap(Bound', b, Count, bytes)
          /\ FollowedBy(Bound', buffer', frame', position', lost', bytes, Count' - Count)
      BY <2>3, <2>5, <3>2, StillReadAfter
    <3> QED BY <1>1, <1>2, <3>3, Zenon DEF ReadAfter, Followed
  <2>9. Reading(b)'
    BY <1>1, <1>2, <2>6, <2>7, <2>8, Zenon DEF Reading, Pending
  <2> QED BY <2>9 DEF b
<1>5. accepted' => pc' = "sync" /\ WholeFrame'
  BY <1>1, Zenon DEF ReaderInv, WholeFrame, From
<1>6. accepted' /\ Bound' < 2 * Axes => DamageConfined'
  <2> SUFFICES ASSUME accepted', Bound' < 2 * Axes PROVE DamageConfined'
    OBVIOUS
  <2>1. Bound < 2 * Axes
    <3>1. ASSUME NEW C \in Nat, C = Bound' PROVE Bound < 2 * Axes
      BY <1>3, <3>1
    <3> QED BY <3>1
  <2>2. DamageConfined
    BY <1>1, <2>1, Zenon DEF ReaderInv
  <2> QED BY <1>1, <2>2, Zenon DEF DamageConfined, From
<1> QED BY <1>1, <1>2, <1>4, <1>5, <1>6, Zenon DEF ReaderInv

LEMMA ReaderReturns ==
    ASSUME ReaderInv, pc' = "sync", i' = i, t' = t, bytes' = bytes, accepted' = FALSE
    PROVE  ReaderInv'
<1>1. /\ i' \in 0 .. IMUCount * (Axes + 1) - 1
      /\ t' \in [Samples -> Slots \X Slots] /\ bytes' \in Slots
  BY Zenon DEF ReaderInv
<1>2. accepted' \in BOOLEAN /\ ~accepted'
  BY Zenon
<1>3. pc' \in {"sync", "frame", "low"} /\ ~(pc' # "sync") /\ ~(pc' = "low")
  OBVIOUS
<1> QED BY <1>1, <1>2, <1>3, Zenon DEF ReaderInv

LEMMA ReadTimeoutStep == ASSUME ReaderInv, ReadTimeout PROVE ReaderInv'
  BY ReaderReturns DEF ReadTimeout

LEMMA Start == 0 \div (Axes + 1) = 0 /\ 0 % (Axes + 1) = 0
<1>1. 0 \in 0 .. (Axes + 1) - 1 /\ Axes + 1 \in Nat \ {0} /\ 0 * (Axes + 1) + 0 = 0
  OBVIOUS
<1>2. (0 * (Axes + 1) + 0) \div (Axes + 1) = 0 /\ (0 * (Axes + 1) + 0) % (Axes + 1) = 0
  BY <1>1, Quotient
<1> QED BY <1>1, <1>2, Zenon

LEMMA SyncStep == ASSUME LineInv, ReaderInv, Sync PROVE ReaderInv'
<1>1. /\ Arrived /\ Read /\ accepted' = FALSE /\ i' = 0 /\ UNCHANGED <<bytes, t, line>>
      /\ misled' = FalseFlag
      /\ pc' = IF Byte.value = A THEN "frame" ELSE "sync"
  BY DEF Sync
<1>2. /\ Byte \in Bytes
      /\ FollowedBy(Bound', buffer', frame', position', lost', Byte, 0)
  BY <1>1, ReadLine
<1>3. ASSUME pc' # "sync", ~misled'
      PROVE  \E f \in 1 .. MaxFrames, p \in 0 .. FrameSize - 1 : Reading(FlagAt(f, p))'
  <2>1. Byte.value = A /\ pc' = "frame"
    BY <1>1, <1>3
  <2>2. PICK b \in Bytes : b = Byte
    BY <1>2
  <2>3. b.value = A /\ IsFlag(b.position)
    BY <1>1, <1>3, <2>1, <2>2, Zenon DEF FalseFlag
  <2>4. b.frame \in 1 .. MaxFrames /\ b.position \in 0 .. FrameSize - 1
    BY BytesAre
  <2>5. b = FlagAt(b.frame, b.position)
    BY <2>3 DEF FlagAt, Bytes
  <2>6. Sensor' = 0 /\ Column' = 0
    BY <1>1, Start, Zenon DEF Sensor, Column
  <2>7. Count' = 0
    <3>1. Count' = 0 * Group + 0 + 0
      BY <2>1, <2>6 DEF Count
    <3> QED BY <3>1, Sizes
  <2>8. Stored' = 0 /\ Confirmed' = -1
    BY <2>6 DEF Stored, Confirmed
  <2>9. Followed(b, Count)'
    BY <1>2, <2>2, <2>7, Zenon DEF Followed
  <2>10. \A j \in Samples : ~(j \div Axes < Confirmed') /\ ~(j < Stored')
    <3> TAKE j \in Samples
    <3>1. j \div Axes \in Nat /\ j \in Nat
      BY SamplePlace DEF Samples
    <3> QED BY <2>8, <3>1
  <2>11. ~(i' > 0) /\ ~(pc' = "low")
    BY <1>1, <2>1
  <2>12. Reading(b)'
    BY <2>3, <2>9, <2>10, <2>11, Zenon DEF Reading
  <2> QED BY <2>4, <2>5, <2>12
<1>4. i' \in 0 .. IMUCount * (Axes + 1) - 1
  <2>1. IMUCount * (Axes + 1) \in Nat \ {0}
    OBVIOUS
  <2> QED BY <1>1, <2>1
<1>5. /\ t' \in [Samples -> Slots \X Slots] /\ bytes' \in Slots
      /\ accepted' \in BOOLEAN /\ ~accepted'
  BY <1>1, Zenon DEF ReaderInv
<1>6. pc' \in {"sync", "frame", "low"} /\ ~(pc' = "low")
  BY <1>1
<1> QED BY <1>3, <1>4, <1>5, <1>6, Zenon DEF ReaderInv

LEMMA HighByteStep == ASSUME LineInv, ReaderInv, HighByte PROVE ReaderInv'
<1>1. /\ pc = "frame" /\ Column # 0 /\ Arrived /\ Read /\ bytes' = Byte /\ pc' = "low"
      /\ UNCHANGED <<i, t, accepted, misled>> /\ UNCHANGED line
  BY DEF HighByte, Column
<1>2. /\ Bound' = Bound /\ StillFollowed(1) /\ Byte = buffer[1] /\ Byte \in Bytes
      /\ FollowedBy(Bound', buffer', frame', position', lost', Byte, 0)
  BY <1>1, ReadLine
<1>3. Bound \in Nat
  BY BoundIs DEF LineInv
<1>4. PICK k \in 0 .. IMUCount - 1, r \in 0 .. Axes :
              /\ Sensor = k /\ Column = r /\ k * Group \in Nat
              /\ Count = k * Group + (IF r = 0 THEN 0 ELSE 2 * r - 1) + 0
              /\ Count \in Nat
  <2>1. i \in 0 .. IMUCount * (Axes + 1) - 1 /\ ~(pc = "low")
    BY <1>1 DEF ReaderInv
  <2> QED BY <2>1, CountIs
<1>5. Column' = Column /\ Sensor' = Sensor /\ Stored' = Stored /\ Confirmed' = Confirmed
  BY <1>1, Zenon DEF Column, Sensor, Stored, Confirmed
<1>6. Count' = Count + 1
  <2>1. Count' = k * Group + (IF r = 0 THEN 0 ELSE 2 * r - 1) + 1
    BY <1>1, <1>4, <1>5 DEF Count
  <2> QED BY <1>4, <2>1
<1>7. ASSUME ~misled', Bound' < 2 * Axes
      PROVE  \E f \in 1 .. MaxFrames, p \in 0 .. FrameSize - 1 : Reading(FlagAt(f, p))'
  <2>1. Bound < 2 * Axes
    BY <1>2, <1>7, Zenon
  <2>2. PICK f \in 1 .. MaxFrames, p \in 0 .. FrameSize - 1 : Reading(FlagAt(f, p))
    BY <1>1, <1>7, <2>1 DEF ReaderInv
  <2> DEFINE b == FlagAt(f, p)
  <2>3. b \in Bytes
    BY FlagAtIs
  <2> HIDE DEF b
  <2>4. Reading(b)
    BY <2>2 DEF b
  <2>5. /\ Followed(b, Count)'
        /\ \A j \in Samples :
                /\ InPlace(b.frame, j) => InPlace(b.frame, j)'
                /\ Pending(b, j) => Pending(b, j)'
    <3>1. Bound' \in Nat /\ Bound <= Bound' /\ Count \in Int
      BY <1>2, <1>3, <1>4
    <3> QED BY <1>1, <1>2, <1>6, <2>3, <2>4, <3>1, StillReading
  <2>6. ReadAfter(b, Count, bytes)'
    <3>1. buffer \in Seq(Bytes) /\ buffer # <<>>
      BY <1>1 DEF LineInv, Arrived
    <3>2. FollowedBy(Bound, buffer, frame, position, lost, b, Count)
      BY <2>4 DEF Reading, Followed
    <3>3. Gap(Bound, b, Count + 1, buffer[1])
      BY <1>3, <1>4, <2>3, <3>1, <3>2, FollowHead
    <3>4. Count' - Count' = 0
      <4>1. PICK n \in Nat : n = Count'
        BY <1>4, <1>6
      <4>2. n - n = 0
        OBVIOUS
      <4> QED BY <4>1, <4>2, Zenon
    <3> QED BY <1>1, <1>2, <1>6, <3>3, <3>4, Zenon DEF ReadAfter, Followed
  <2>7. Reading(b)'
    BY <1>1, <1>5, <2>4, <2>5, <2>6, Zenon DEF Reading, Pending
  <2> QED BY <2>7 DEF b
<1>8. ~accepted'
  <2>1. ~accepted
    BY <1>1, Zenon DEF ReaderInv
  <2> QED BY <1>1, <2>1, Zenon
<1>9. /\ i' \in 0 .. IMUCount * (Axes + 1) - 1 /\ t' \in [Samples -> Slots \X Slots]
      /\ accepted' \in BOOLEAN /\ Column' # 0 /\ bytes' \in Slots
  BY <1>1, <1>2, <1>5, Zenon DEF ReaderInv, Slots
<1> QED BY <1>1, <1>7, <1>8, <1>9, Zenon DEF ReaderInv

\* The flag of sensor k that is read in its turn is the flag of sensor k.
LEMMA FlagFound ==
    ASSUME NEW B \in Nat, B < 2 * Axes, NEW k \in 0 .. IMUCount - 1,
           NEW b \in Bytes, NEW x \in Bytes, IsFlag(b.position), IsFlag(x.position),
           k # 0 => b.position = 0, Gap(B, b, k * Group + 1, x)
    PROVE  b.position = 0 /\ x.frame = b.frame /\ x.position = 1 + k * Group
<1> DEFINE g == Group
           h == k * Group
           q == b.position
<1>1. /\ q \in Nat /\ x.position \in Nat /\ q \in 0 .. FrameSize - 1 /\ x.position \in 0 .. FrameSize - 1
      /\ b.frame \in Nat /\ x.frame \in Nat
      /\ h \in Nat /\ 1 + h + g <= FrameSize /\ g = 1 + 2 * Axes /\ g \in Nat
      /\ FrameSize \in Nat /\ FrameSize >= 1 + g
  BY BytesAre, Sizes
<1>2. Gap(B, b, h + 1, x)
  OBVIOUS
<1>3. CASE q = 0
  <2>1. x.frame = b.frame /\ 1 + h <= x.position /\ x.position < 1 + h + g
    <3> HIDE DEF g, h
    <3> QED BY <1>1, <1>2, <1>3 DEF Gap, q
  <2>2. x.position = 1 + k * Group
    BY <1>1, <2>1, NextFlag
  <2> QED BY <1>3, <2>1, <2>2
<1>4. CASE q # 0
  <2>1. PICK m \in 0 .. Sensors - 1 : q = 1 + m * Group
    BY <1>1, <1>4, FlagPlaces
  <2>2. m * Group \in Nat /\ 1 + m * Group + g <= FrameSize
    BY Sizes
  <2>3. h = 0
    <3>1. k = 0
      BY <1>4
    <3>2. 0 * Group = 0
      BY Sizes
    <3> QED BY <3>1, <3>2
  <2>4. x.frame = b.frame /\ q < x.position /\ x.position < q + g
    <3> DEFINE u == m * Group
    <3>1. q = 1 + u /\ u \in Nat /\ 1 + u + g <= FrameSize
      BY <2>1, <2>2
    <3> HIDE DEF g, h, u
    <3> QED BY <1>1, <1>2, <2>3, <3>1 DEF Gap, q
  <2>5. x.position = 1 + m * Group
    <3>1. 1 + m * Group <= x.position /\ x.position < 1 + m * Group + Group
      <4> DEFINE u == m * Group
      <4>1. q = 1 + u /\ u \in Nat
        BY <2>1, <2>2
      <4> HIDE DEF u, q
      <4>2. 1 + u <= x.position /\ x.position < 1 + u + g
        BY <1>1, <2>4, <4>1
      <4> QED BY <4>2 DEF u
    <3> QED BY <1>1, <3>1, NextFlag
  <2>6. q = x.position
    BY <2>1, <2>5
  <2> HIDE DEF q
  <2> QED BY <1>1, <2>4, <2>6
<1> QED BY <1>3, <1>4

\* What was read between the beginning of a frame and a byte in its place is in
\* its place.
LEMMA Between ==
    ASSUME NEW B \in Nat, NEW b \in Bytes, NEW x \in Bytes, NEW y \in Bytes,
           NEW c \in Nat, NEW d \in Nat, b.position = 0,
           x.frame = b.frame, x.position = d, Gap(B, b, c, y), Gap(B, y, d - c, x)
    PROVE  y.frame = b.frame /\ y.position = c
  BY BytesAre, Sizes DEF Gap

\* The bytes of the samples before sensor k come before its flag.
LEMMA BeforeTheFlag ==
    ASSUME NEW k \in Nat, NEW j \in Samples, j \div Axes < k
    PROVE  HighOf(j) \in Nat /\ HighOf(j) + 1 <= k * Group
<1>1. PICK m \in 0 .. IMUCount - 1, q \in 0 .. Axes - 1 :
         m = j \div Axes /\ HighOf(j) = 2 + m * Group + 2 * q
  BY SamplePlace
<1>2. ASSUME NEW g \in Nat PROVE m * g \in Nat /\ m * g + g <= k * g /\ k * g \in Nat
  <2>1. (m + 1) * g <= k * g
    BY <1>1
  <2> QED BY <2>1
<1>3. /\ m * Group \in Nat /\ m * Group + Group <= k * Group /\ k * Group \in Nat
      /\ Group \in Nat /\ Group = 1 + 2 * Axes
  BY <1>2, Sizes
<1> DEFINE u == m * Group
           v == k * Group
           g == Group
<1>4. u \in Nat /\ u + g <= v /\ v \in Nat /\ g = 1 + 2 * Axes /\ HighOf(j) = 2 + u + 2 * q
  BY <1>1, <1>3
<1> HIDE DEF u, v, g
<1>5. HighOf(j) \in Nat /\ HighOf(j) + 1 <= v
  BY <1>4
<1> QED BY <1>5 DEF v

\* The byte that is read comes after the samples that were read.
LEMMA FollowSample ==
    ASSUME LineInv, Arrived, Count \in Nat,
           NEW b \in Bytes, NEW c \in Nat, c <= Count, NEW y, ReadAfter(b, c, y)
    PROVE  y \in Bytes /\ Gap(Bound, b, c, y) /\ Gap(Bound, y, (Count + 1) - c, Byte)
<1>1. Bound \in Nat /\ buffer \in Seq(Bytes) /\ buffer # <<>>
  BY BoundIs DEF LineInv, Arrived
<1>2. /\ y \in Bytes /\ Gap(Bound, b, c, y)
      /\ FollowedBy(Bound, buffer, frame, position, lost, y, Count - c)
  BY DEF ReadAfter, Followed
<1>3. Count - c \in Nat /\ (Count - c) + 1 = (Count + 1) - c
  OBVIOUS
<1>4. Gap(Bound, y, (Count - c) + 1, buffer[1])
  BY <1>1, <1>2, <1>3, FollowHead
<1>5. Byte = buffer[1]
  BY <1>1, TailIs DEF Byte
<1> QED BY <1>2, <1>3, <1>4, <1>5

LEMMA BetweenRead ==
    ASSUME LineInv, Arrived, Count \in Nat,
           NEW b \in Bytes, NEW c \in Nat, c <= Count, NEW y, ReadAfter(b, c, y),
           b.position = 0, Byte.frame = b.frame, Byte.position = Count + 1
    PROVE  y.frame = b.frame /\ y.position = c
<1>1. Bound \in Nat /\ buffer # <<>> /\ buffer \in Seq(Bytes)
  BY BoundIs DEF LineInv, Arrived
<1>2. PICK x \in Bytes : x = Byte
  BY <1>1, TailIs DEF Byte
<1>3. y \in Bytes /\ Gap(Bound, b, c, y) /\ Gap(Bound, y, (Count + 1) - c, x)
  BY <1>2, FollowSample
<1>4. x.frame = b.frame /\ x.position = Count + 1
  BY <1>2
<1>5. PICK B \in Nat, d \in Nat : B = Bound /\ d = Count + 1
  BY <1>1
<1>6. Gap(B, b, c, y) /\ Gap(B, y, d - c, x) /\ x.position = d
  BY <1>3, <1>4, <1>5
<1> QED BY <1>3, <1>4, <1>6, Between

LEMMA FlagStep == ASSUME LineInv, ReaderInv, Flag PROVE ReaderInv'
<1>1. CASE Byte.value # A
  BY <1>1, ReaderReturns DEF Flag, Return
<1>2. CASE Byte.value = A
  <2>1. /\ pc = "frame" /\ Column = 0 /\ Arrived /\ Read /\ i' = i + 1
        /\ UNCHANGED <<pc, accepted, bytes, t>> /\ UNCHANGED line
        /\ misled' = (misled \/ FalseFlag)
    BY <1>2 DEF Flag, Column
  <2>2. /\ Bound' = Bound /\ StillFollowed(1)
        /\ Byte = buffer[1] /\ Byte \in Bytes
    BY <2>1, ReadLine
  <2>3. Bound \in Nat
    BY BoundIs DEF LineInv
  <2>4. PICK k \in 0 .. IMUCount - 1 :
           /\ Sensor = k /\ i = k * (Axes + 1) + 0
           /\ k * Group \in Nat /\ k * Axes \in Nat
           /\ Count = k * Group + 0 + 0
    <3>1. i \in 0 .. IMUCount * (Axes + 1) - 1 /\ ~(pc = "low")
      BY <2>1 DEF ReaderInv
    <3>2. PICK k \in 0 .. IMUCount - 1, r \in 0 .. Axes :
              /\ Sensor = k /\ Column = r /\ i = k * (Axes + 1) + r
              /\ k * Group \in Nat /\ k * Axes \in Nat
              /\ Count = k * Group + (IF r = 0 THEN 0 ELSE 2 * r - 1) + (IF pc = "low" THEN 1 ELSE 0)
      BY <3>1, CountIs
    <3>3. r = 0
      BY <2>1, <3>2
    <3>4. Count = k * Group + 0 + 0
      BY <3>1, <3>2, <3>3
    <3> QED BY <3>2, <3>3, <3>4
  <2>5. Sensor' = k /\ Column' = 1 /\ i' \in 0 .. IMUCount * (Axes + 1) - 1
    <3>1. 0 \in 0 .. Axes /\ 0 < Axes /\ i \in Nat /\ k \in Nat
      BY <2>4
    <3>2. (i + 1) \div (Axes + 1) = k /\ (i + 1) % (Axes + 1) = 0 + 1
      BY <2>4, <3>1, NextPlace
    <3>3. Sensor' = k /\ Column' = 1
      BY <2>1, <3>2 DEF Sensor, Column
    <3>4. i + 1 \in 0 .. IMUCount * (Axes + 1) - 1
      <4>1. ASSUME NEW w \in Nat, w >= 2 PROVE k * w + 1 <= IMUCount * w - 1 /\ k * w \in Nat
        <5>1. (k + 1) * w <= IMUCount * w
          OBVIOUS
        <5> QED BY <4>1, <5>1
      <4>2. Axes + 1 \in Nat /\ Axes + 1 >= 2
        OBVIOUS
      <4> QED BY <2>4, <4>1, <4>2
    <3> QED BY <2>1, <3>3, <3>4
  <2>6. /\ Count = k * Group /\ Count \in Nat /\ Count' = Count + 1
        /\ Stored = k * Axes /\ Stored' = k * Axes
        /\ Confirmed = k - 1 /\ Confirmed' = k
    <3>1. Count' = k * Group + 1 + 0
      BY <2>1, <2>5 DEF Count
    <3>2. Stored = k * Axes + 0 /\ Stored' = k * Axes + 0
      BY <2>1, <2>4, <2>5 DEF Stored
    <3>3. Confirmed = k - 1 /\ Confirmed' = k
      BY <2>1, <2>4, <2>5 DEF Confirmed
    <3> QED BY <2>4, <3>1, <3>2, <3>3
  <2>7. ASSUME ~misled', Bound' < 2 * Axes
        PROVE  \E f \in 1 .. MaxFrames, p \in 0 .. FrameSize - 1 : Reading(FlagAt(f, p))'
    <3>0. ~misled /\ IsFlag(Byte.position)
      BY <1>2, <2>1, <2>7, Zenon DEF FalseFlag
    <3>1. Bound < 2 * Axes
      BY <2>2, <2>7, Zenon
    <3>2. PICK f \in 1 .. MaxFrames, p \in 0 .. FrameSize - 1 : Reading(FlagAt(f, p))
      BY <2>1, <3>0, <3>1 DEF ReaderInv
    <3> DEFINE b == FlagAt(f, p)
    <3>3. b \in Bytes
      BY FlagAtIs
    <3> HIDE DEF b
    <3>4. Reading(b)
      BY <3>2 DEF b
    <3>5. b.position = 0 /\ Byte.frame = b.frame /\ Byte.position = Count + 1
      <4>1. buffer \in Seq(Bytes) /\ buffer # <<>>
        BY <2>1 DEF LineInv, Arrived
      <4>2. FollowedBy(Bound, buffer, frame, position, lost, b, Count)
        BY <3>4 DEF Reading, Followed
      <4>3. Gap(Bound, b, Count + 1, Byte)
        BY <2>2, <2>3, <2>6, <3>3, <4>1, <4>2, FollowHead
      <4>4. k # 0 => b.position = 0
        <5> SUFFICES ASSUME k # 0 PROVE b.position = 0
          OBVIOUS
        <5>1. ASSUME NEW w \in Nat, w >= 2 PROVE k * w + 0 > 0
          <6>1. k * w >= 1 * w
            OBVIOUS
          <6> QED BY <5>1, <6>1
        <5>2. i > 0
          BY <2>4, <5>1
        <5> QED BY <3>4, <5>2 DEF Reading
      <4>5. Gap(Bound, b, k * Group + 1, Byte)
        BY <2>6, <4>3
      <4>6. b.position = 0 /\ Byte.frame = b.frame /\ Byte.position = 1 + k * Group
        <5>1. PICK x \in Bytes : x = Byte
          BY <2>2
        <5>2. IsFlag(b.position) /\ IsFlag(x.position) /\ Gap(Bound, b, k * Group + 1, x)
          BY <3>0, <3>4, <4>5, <5>1, Zenon DEF Reading
        <5>3. b.position = 0 /\ x.frame = b.frame /\ x.position = 1 + k * Group
          BY <2>3, <3>1, <3>3, <4>4, <5>2, FlagFound
        <5> QED BY <5>1, <5>3, Zenon
      <4>7. 1 + k * Group = Count + 1
        BY <2>4, <2>6
      <4> QED BY <4>6, <4>7, Zenon
    <3>6. ASSUME NEW j \in Samples, j \div Axes < k PROVE InPlace(b.frame, j)
      <4>1. CASE j \div Axes < k - 1
        BY <2>6, <3>4, <4>1 DEF Reading
      <4>2. CASE ~(j \div Axes < k - 1)
        <5>1. j < k * Axes
          BY <3>6, SamplesBefore
        <5>2. Pending(b, j)
          <6>1. j \div Axes >= k - 1
            <7>1. j \div Axes \in Nat
              BY SamplePlace
            <7> QED BY <4>2, <7>1
          <6> QED BY <2>6, <3>4, <5>1, <6>1 DEF Reading, Pending
        <5>3. HighOf(j) \in Nat /\ HighOf(j) + 1 <= Count
          BY <2>6, <3>6, BeforeTheFlag
        <5>4. t[j][1].frame = b.frame /\ t[j][1].position = HighOf(j)
          <6>1. HighOf(j) <= Count
            BY <2>6, <5>3
          <6> QED BY <2>1, <2>6, <3>3, <3>5, <5>2, <5>3, <6>1, BetweenRead DEF Pending
        <5>5. t[j][2].frame = b.frame /\ t[j][2].position = HighOf(j) + 1
          <6>1. HighOf(j) + 1 \in Nat
            BY <5>3
          <6> QED BY <2>1, <2>6, <3>3, <3>5, <5>2, <5>3, <6>1, BetweenRead DEF Pending
        <5> QED BY <5>4, <5>5 DEF InPlace
      <4> QED BY <4>1, <4>2
    <3>7. /\ Followed(b, Count)'
          /\ \A j \in Samples : InPlace(b.frame, j) => InPlace(b.frame, j)'
      <4>1. Bound' \in Nat /\ Bound <= Bound' /\ Count \in Int
        BY <2>2, <2>3, <2>6
      <4> QED BY <2>1, <2>2, <2>6, <3>3, <3>4, <4>1, StillReading
    <3>8. ASSUME NEW j \in Samples PROVE j \div Axes >= k => ~(j < k * Axes)
      <4>1. j \div Axes \in Nat
        BY SamplePlace
      <4> QED BY <4>1, SamplesBefore
    <3>9. ASSUME NEW j \in Samples
          PROVE  /\ j \div Axes < Confirmed' => InPlace(b.frame, j)'
                 /\ ~(j \div Axes >= Confirmed' /\ j < Stored')
      BY <2>6, <3>6, <3>7, <3>8, Zenon
    <3>10. Reading(b)'
      BY <2>1, <3>4, <3>5, <3>7, <3>9, Zenon DEF Reading
    <3> QED BY <3>10 DEF b
  <2>8. ~accepted' /\ pc' \in {"sync", "frame", "low"} /\ ~(pc' = "low")
    <3>1. ~accepted
      BY <2>1, Zenon DEF ReaderInv
    <3> QED BY <2>1, <3>1, Zenon
  <2>9. t' \in [Samples -> Slots \X Slots] /\ bytes' \in Slots /\ accepted' \in BOOLEAN
    BY <2>1, Zenon DEF ReaderInv
  <2> QED BY <2>5, <2>7, <2>8, <2>9, Zenon DEF ReaderInv
<1> QED BY <1>1, <1>2

\* The sample that the second byte completes is the next one, and its first byte
\* is the last that was read.
LEMMA LowPlace ==
    ASSUME i \in 0 .. IMUCount * (Axes + 1) - 1, pc = "low", Column # 0
    PROVE  \E k \in 0 .. IMUCount - 1, r \in 1 .. Axes :
              /\ i = k * (Axes + 1) + r /\ k * Group \in Nat /\ k * Axes \in Nat
              /\ Count = k * Group + 2 * r /\ Count \in Nat
              /\ Confirmed = k /\ Stored = k * Axes + r - 1
              /\ Stored \in Samples /\ Stored \div Axes = k /\ HighOf(Stored) = Count
              /\ i - FrameBreakCount = Stored
<1>1. PICK k \in 0 .. IMUCount - 1, r \in 0 .. Axes :
              /\ Sensor = k /\ Column = r /\ i = k * (Axes + 1) + r
              /\ k * Group \in Nat /\ k * Axes \in Nat
              /\ Count = k * Group + (IF r = 0 THEN 0 ELSE 2 * r - 1) + (IF pc = "low" THEN 1 ELSE 0)
  BY CountIs
<1>2. r \in 1 .. Axes
  BY <1>1
<1>3. Count = k * Group + 2 * r /\ Count \in Nat
  BY <1>1, <1>2
<1>4. Confirmed = k /\ Stored = k * Axes + r - 1
  <2>1. Stored = k * Axes + (r - 1)
    BY <1>1, <1>2 DEF Stored
  <2> QED BY <1>1, <1>2, <2>1 DEF Confirmed
<1>5. Stored \in Samples
  <2>1. (k + 1) * Axes <= IMUCount * Axes
    OBVIOUS
  <2> QED BY <1>1, <1>2, <1>4, <2>1 DEF Samples
<1>6. Stored \div Axes = k /\ HighOf(Stored) = Count
  <2>1. PICK q \in 0 .. Axes - 1 : q = r - 1
    BY <1>2
  <2>2. Stored = k * Axes + q
    BY <1>1, <1>2, <1>4, <2>1
  <2>3. (k * Axes + q) \div Axes = k /\ HighOf(k * Axes + q) = 2 + k * Group + 2 * q
    BY SampleHere
  <2>4. 2 + k * Group + 2 * q = k * Group + 2 * r
    BY <1>1, <2>1
  <2> QED BY <1>3, <2>2, <2>3, <2>4, Zenon
<1>7. i - FrameBreakCount = Stored
  <2>1. FrameBreakCount = k + 1
    BY <1>1 DEF FrameBreakCount, Sensor
  <2>2. i = k * Axes + k + r
    BY <1>1
  <2> QED BY <1>1, <1>2, <1>4, <2>1, <2>2
<1> QED BY <1>1, <1>2, <1>3, <1>4, <1>5, <1>6, <1>7

LEMMA LowNext ==
    ASSUME NEW k \in 0 .. IMUCount - 1, NEW r \in 1 .. Axes, i = k * (Axes + 1) + r,
           pc' = "frame", i' = i + 1,
           Count = k * Group + 2 * r, Stored = k * Axes + r - 1
    PROVE  Count' = Count + 1 /\ Stored' = Stored + 1 /\ Confirmed' = k
<1>1. i \in Nat /\ k * Group \in Nat /\ k * Axes \in Nat /\ Group \in Nat /\ Group = 1 + 2 * Axes
  BY Sizes
<1>2. CASE r < Axes
  <2>1. (i + 1) \div (Axes + 1) = k /\ (i + 1) % (Axes + 1) = r + 1
    <3>1. k \in Nat /\ r \in 0 .. Axes
      OBVIOUS
    <3> QED BY <1>1, <1>2, <3>1, NextPlace, SMTT(30)
  <2>2. Sensor' = k /\ Column' = r + 1
    BY <2>1 DEF Sensor, Column
  <2>3. Count' = k * Group + (2 * (r + 1) - 1) + 0
    BY <2>2 DEF Count
  <2>4. Stored' = k * Axes + ((r + 1) - 1) /\ Confirmed' = k
    BY <2>2 DEF Stored, Confirmed
  <2> QED BY <1>1, <2>3, <2>4
<1>3. CASE r = Axes
  <2>1. (i + 1) \div (Axes + 1) = k + 1 /\ (i + 1) % (Axes + 1) = 0
    <3>1. k \in Nat /\ r \in 0 .. Axes
      OBVIOUS
    <3> QED BY <1>1, <1>3, <3>1, NextPlace, SMTT(30)
  <2>2. Sensor' = k + 1 /\ Column' = 0
    BY <2>1 DEF Sensor, Column
  <2>3. Count' = (k + 1) * Group + 0 + 0
    BY <2>2 DEF Count
  <2>4. Stored' = (k + 1) * Axes + 0 /\ Confirmed' = (k + 1) - 1
    BY <2>2 DEF Stored, Confirmed
  <2>5. ASSUME NEW g \in Nat PROVE (k + 1) * g = k * g + g /\ k * g \in Nat
    OBVIOUS
  <2>6. (k + 1) * Group = k * Group + Group /\ (k + 1) * Axes = k * Axes + Axes
    BY <1>1, <2>5
  <2>7. Count' = Count + 1
    <3> DEFINE u == k * Group
               v == (k + 1) * Group
    <3>1. u \in Nat /\ v = u + Group /\ Count = u + 2 * Axes /\ Count' = v + 0 + 0
      BY <1>1, <1>3, <2>3, <2>6
    <3> HIDE DEF u, v
    <3> QED BY <1>1, <3>1
  <2>8. Stored' = Stored + 1
    <3> DEFINE u == k * Axes
               v == (k + 1) * Axes
    <3>1. u \in Nat /\ v = u + Axes /\ Stored = u + Axes - 1 /\ Stored' = v + 0
      BY <1>1, <1>3, <2>4, <2>6
    <3> HIDE DEF u, v
    <3> QED BY <3>1
  <2> QED BY <2>4, <2>7, <2>8
<1> QED BY <1>2, <1>3

\* The last byte of a sample is in the frame.
LEMMA InTheFrame == ASSUME NEW j \in Samples PROVE HighOf(j) \in Nat /\ HighOf(j) + 1 < FrameSize
<1>1. PICK m \in 0 .. IMUCount - 1, q \in 0 .. Axes - 1 : HighOf(j) = 2 + m * Group + 2 * q
  BY SamplePlace
<1> DEFINE u == m * Group
           g == Group
<1>2. u \in Nat /\ 1 + u + g <= FrameSize /\ g = 1 + 2 * Axes /\ FrameSize \in Nat
  BY Sizes
<1>3. HighOf(j) = 2 + u + 2 * q
  BY <1>1
<1> HIDE DEF u, g
<1> QED BY <1>2, <1>3

\* Where nothing is missing, the bytes of a frame are read in their places.
LEMMA Exact ==
    ASSUME NEW b \in Bytes, NEW x \in Bytes, NEW c \in Nat, b.position = 0, c < FrameSize,
           Gap(0, b, c, x)
    PROVE  x.frame = b.frame /\ x.position = c
  BY BytesAre, Sizes DEF Gap

LEMMA Stores ==
    ASSUME NEW S, NEW V, NEW a \in [S -> V \X V], NEW n \in S, NEW x \in V, NEW y \in V
    PROVE  LET c == [a EXCEPT ![n] = <<x, y>>]
           IN  /\ c \in [S -> V \X V] /\ c[n] = <<x, y>> /\ c[n][1] = x /\ c[n][2] = y
               /\ \A m \in S : m # n => c[m] = a[m]
  OBVIOUS

\* What is stored of a byte is as far from the others as the byte.
LEMMA OriginIs ==
    ASSUME NEW x \in Slots
    PROVE  /\ Origin(x) \in Slots /\ Origin(x).frame = x.frame /\ Origin(x).position = x.position
           /\ x \in Bytes => Origin(x) \in Bytes
  BY Sizes DEF Origin, Slots, Bytes, NoByte

LEMMA OriginFollows ==
    ASSUME NEW x \in Slots, NEW B, NEW n
    PROVE  /\ \A b : Gap(B, b, n, x) => Gap(B, b, n, Origin(x))
           /\ \A s, f, p, l : FollowedBy(B, s, f, p, l, x, n) => FollowedBy(B, s, f, p, l, Origin(x), n)
<1>1. Origin(x).frame = x.frame /\ Origin(x).position = x.position
  BY OriginIs
<1>2. /\ \A b : Gap(B, b, n, x) => Gap(B, b, n, Origin(x))
      /\ \A m, b : Gap(B, x, m, b) => Gap(B, Origin(x), m, b)
      /\ \A f, p, l, m : LineGap(B, f, p, l, x, m) => LineGap(B, f, p, l, Origin(x), m)
  BY <1>1, Zenon DEF Gap, LineGap
<1> QED BY <1>2, Zenon DEF FollowedBy

\* The second byte of a sample that is not the last.
LEMMA LowGoesOn ==
    ASSUME LineInv, ReaderInv, pc = "low", Arrived, Read, UNCHANGED line,
           t' = [t EXCEPT ![i - FrameBreakCount] = <<Origin(bytes), Origin(Byte)>>],
           ~LastSample, pc' = "frame", i' = i + 1, UNCHANGED <<accepted, bytes, misled>>
    PROVE  ReaderInv'
<1>1. /\ Bound' = Bound /\ StillFollowed(1)
      /\ Byte = buffer[1] /\ Byte \in Bytes
      /\ FollowedBy(Bound', buffer', frame', position', lost', Byte, 0)
  BY ReadLine
<1>2. Bound \in Nat
  BY BoundIs DEF LineInv
<1>3. PICK k \in 0 .. IMUCount - 1, r \in 1 .. Axes :
              /\ i = k * (Axes + 1) + r /\ k * Group \in Nat /\ k * Axes \in Nat
              /\ Count = k * Group + 2 * r /\ Count \in Nat
              /\ Confirmed = k /\ Stored = k * Axes + r - 1
              /\ Stored \in Samples /\ Stored \div Axes = k /\ HighOf(Stored) = Count
              /\ i - FrameBreakCount = Stored
  BY LowPlace DEF ReaderInv
<1>4. Count' = Count + 1 /\ Stored' = Stored + 1 /\ Confirmed' = k
  BY <1>3, LowNext
<1>5. i' \in 0 .. IMUCount * (Axes + 1) - 1
  <2>1. IMUCount * (Axes + 1) \in Nat /\ i # IMUCount * (Axes + 1) - 1
    BY DEF LastSample
  <2>2. i \in 0 .. IMUCount * (Axes + 1) - 1
    BY DEF ReaderInv
  <2> QED BY <2>1, <2>2
<1>6. /\ t' \in [Samples -> Slots \X Slots]
      /\ t'[Stored][1] = Origin(bytes) /\ t'[Stored][2] = Origin(Byte)
      /\ \A j \in Samples : j # Stored => t'[j] = t[j]
  <2>1. Origin(Byte) \in Slots /\ Origin(bytes) \in Slots /\ t \in [Samples -> Slots \X Slots]
    BY <1>1, OriginIs, Zenon DEF Slots, ReaderInv
  <2>2. t' = [t EXCEPT ![Stored] = <<Origin(bytes), Origin(Byte)>>]
    BY <1>3, Zenon
  <2>3. PICK n \in Samples : n = Stored
    BY <1>3
  <2>4. LET c == [t EXCEPT ![n] = <<Origin(bytes), Origin(Byte)>>]
        IN  /\ c \in [Samples -> Slots \X Slots]
            /\ c[n][1] = Origin(bytes) /\ c[n][2] = Origin(Byte)
            /\ \A m \in Samples : m # n => c[m] = t[m]
    BY <2>1, Stores
  <2> QED BY <2>2, <2>3, <2>4, Zenon
<1>7. ASSUME ~misled', Bound' < 2 * Axes
      PROVE  \E f \in 1 .. MaxFrames, p \in 0 .. FrameSize - 1 : Reading(FlagAt(f, p))'
  <2>1. Bound < 2 * Axes
    BY <1>1, <1>7, Zenon
  <2>2. PICK f \in 1 .. MaxFrames, p \in 0 .. FrameSize - 1 : Reading(FlagAt(f, p))
    BY <1>7, <2>1 DEF ReaderInv
  <2> DEFINE b == FlagAt(f, p)
  <2>3. b \in Bytes
    BY FlagAtIs
  <2> HIDE DEF b
  <2>4. Reading(b)
    BY <2>2 DEF b
  <2>5. Bound' \in Nat /\ Bound <= Bound' /\ Count \in Int
    BY <1>1, <1>2, <1>3
  <2>6. /\ Followed(b, Count)'
        /\ \A j \in Samples : t'[j] = t[j] =>
                /\ InPlace(b.frame, j) => InPlace(b.frame, j)'
                /\ Pending(b, j) => Pending(b, j)'
    BY <1>1, <1>4, <2>3, <2>4, <2>5, StillReading
  <2>7. ReadAfter(b, Count, bytes)
    BY <2>4 DEF Reading
  <2>8. /\ bytes \in Bytes /\ Gap(Bound', b, Count, bytes)
        /\ FollowedBy(Bound', buffer', frame', position', lost', bytes, Count' - Count)
    BY <1>1, <1>4, <2>3, <2>5, <2>7, StillReadAfter
  <2>9. Gap(Bound', b, Count + 1, Byte)
    <3>1. buffer \in Seq(Bytes) /\ buffer # <<>>
      BY DEF LineInv, Arrived
    <3>2. FollowedBy(Bound, buffer, frame, position, lost, b, Count)
      BY <2>4 DEF Reading, Followed
    <3>3. Gap(Bound, b, Count + 1, buffer[1])
      BY <1>2, <1>3, <2>3, <3>1, <3>2, FollowHead
    <3> QED BY <1>1, <3>3, Zenon
  <2>10. ASSUME NEW j \in Samples, j = Stored PROVE Pending(b, j)'
    <3>1. Count' - (Count + 1) = 0
      <4>1. ASSUME NEW n \in Nat PROVE (n + 1) - (n + 1) = 0
        OBVIOUS
      <4> QED BY <1>3, <1>4, <4>1
    <3>2. FollowedBy(Bound', buffer', frame', position', lost', Byte, Count' - (Count + 1))
      BY <1>1, <3>1, Zenon
    <3>3. HighOf(j) = Count /\ t'[j][1] = Origin(bytes) /\ t'[j][2] = Origin(Byte)
      BY <1>3, <1>6, <2>10, Zenon
    <3>4. bytes \in Slots /\ Byte \in Slots
      BY <1>1, Zenon DEF Slots, ReaderInv
    <3>5. /\ Origin(bytes) \in Bytes /\ Gap(Bound', b, Count, Origin(bytes))
          /\ FollowedBy(Bound', buffer', frame', position', lost', Origin(bytes), Count' - Count)
      BY <2>8, <3>4, OriginIs, OriginFollows, Zenon
    <3>6. /\ Origin(Byte) \in Bytes /\ Gap(Bound', b, Count + 1, Origin(Byte))
          /\ FollowedBy(Bound', buffer', frame', position', lost', Origin(Byte), Count' - (Count + 1))
      BY <1>1, <2>9, <3>2, <3>4, OriginIs, OriginFollows, Zenon
    <3> QED BY <3>3, <3>5, <3>6, Zenon DEF Pending, ReadAfter, Followed
  <2>11. ASSUME NEW j \in Samples
         PROVE  /\ j \div Axes < Confirmed' => InPlace(b.frame, j)'
                /\ j \div Axes >= Confirmed' /\ j < Stored' => Pending(b, j)'
    <3>1. CASE j = Stored
      <4>1. Pending(b, j)'
        BY <2>10, <3>1
      <4>2. ~(j \div Axes < Confirmed')
        BY <1>3, <1>4, <3>1
      <4> QED BY <4>1, <4>2
    <3>2. CASE j # Stored
      <4>1. j \in Nat /\ Stored \in Nat
        BY <1>3 DEF Samples
      <4>2. j < Stored + 1 => j < Stored
        BY <3>2, <4>1
      <4>3. /\ j \div Axes < k => InPlace(b.frame, j)
            /\ j \div Axes >= k /\ j < Stored => Pending(b, j)
        BY <1>3, <2>4, Zenon DEF Reading, Pending
      <4>4. t'[j] = t[j]
        BY <1>6, <3>2
      <4> QED BY <1>4, <2>6, <4>2, <4>3, <4>4, Zenon
    <3> QED BY <3>1, <3>2
  <2>12. b.position = 0 /\ IsFlag(b.position) /\ ~(pc' = "low")
    <3>1. i > 0
      <4>1. ASSUME NEW w \in Nat PROVE k * w + r > 0
        <5>1. k * w \in Nat
          OBVIOUS
        <5> QED BY <5>1
      <4> QED BY <1>3, <4>1
    <3> QED BY <2>4, <3>1 DEF Reading
  <2>13. Reading(b)'
    BY <2>6, <2>11, <2>12, Zenon DEF Reading, Pending
  <2> QED BY <2>13 DEF b
<1>8. ~accepted'
  <2>1. ~accepted
    BY Zenon DEF ReaderInv
  <2> QED BY <2>1, Zenon
<1>9. /\ pc' \in {"sync", "frame", "low"} /\ ~(pc' = "low")
      /\ accepted' \in BOOLEAN /\ bytes' \in Slots
  BY Zenon DEF ReaderInv
<1> QED BY <1>5, <1>6, <1>7, <1>8, <1>9, Zenon DEF ReaderInv

\* The second byte of the last sample.
LEMMA LowEnds ==
    ASSUME LineInv, ReaderInv, pc = "low", Arrived, UNCHANGED line,
           t' = [t EXCEPT ![i - FrameBreakCount] = <<Origin(bytes), Origin(Byte)>>],
           LastSample, pc' = "sync", UNCHANGED <<i, bytes, misled>>, accepted' = TRUE
    PROVE  ReaderInv'
<1>1. /\ Bound' = Bound /\ Bound \in Nat /\ lossless' = lossless
  BY BoundIs DEF LineInv, line, Bound
<1>2. Byte = buffer[1] /\ Byte \in Bytes /\ buffer \in Seq(Bytes) /\ buffer # <<>>
  <2>1. buffer \in Seq(Bytes) /\ buffer # <<>>
    BY DEF LineInv, Arrived
  <2> QED BY <2>1, TailIs DEF Byte
<1>3. PICK k \in 0 .. IMUCount - 1, r \in 1 .. Axes :
              /\ i = k * (Axes + 1) + r /\ k * Group \in Nat /\ k * Axes \in Nat
              /\ Count = k * Group + 2 * r /\ Count \in Nat
              /\ Confirmed = k /\ Stored = k * Axes + r - 1
              /\ Stored \in Samples /\ Stored \div Axes = k /\ HighOf(Stored) = Count
              /\ i - FrameBreakCount = Stored
  BY LowPlace DEF ReaderInv
<1>4. k = IMUCount - 1 /\ r = Axes /\ \A j \in Samples : j # Stored => j < Stored
  <2>1. i = IMUCount * (Axes + 1) - 1
    BY DEF LastSample
  <2>2. k = IMUCount - 1
    <3> SUFFICES ASSUME k <= IMUCount - 2 PROVE FALSE
      OBVIOUS
    <3>1. ASSUME NEW w \in Nat, r <= w - 1 PROVE k * w + r < IMUCount * w - 1
      <4>1. (k + 2) * w <= IMUCount * w
        OBVIOUS
      <4> QED BY <3>1, <4>1
    <3>2. r <= (Axes + 1) - 1 /\ Axes + 1 \in Nat
      OBVIOUS
    <3> QED BY <1>3, <2>1, <3>1, <3>2
  <2>3. r = Axes
    <3>1. ASSUME NEW w \in Nat PROVE k * w + w = IMUCount * w
      BY <2>2
    <3>2. k * (Axes + 1) + (Axes + 1) = IMUCount * (Axes + 1) /\ k * (Axes + 1) \in Nat
      BY <3>1
    <3> QED BY <1>3, <2>1, <3>2
  <2>4. Stored = IMUCount * Axes - 1
    <3>1. k * Axes + Axes = IMUCount * Axes
      BY <2>2
    <3> QED BY <1>3, <2>3, <3>1
  <2> QED BY <2>2, <2>3, <2>4 DEF Samples
<1>5. /\ t' \in [Samples -> Slots \X Slots]
      /\ t'[Stored][1] = Origin(bytes) /\ t'[Stored][2] = Origin(Byte)
      /\ \A j \in Samples : j # Stored => t'[j] = t[j]
  <2>1. Origin(Byte) \in Slots /\ Origin(bytes) \in Slots /\ t \in [Samples -> Slots \X Slots]
    BY <1>2, OriginIs, Zenon DEF Slots, ReaderInv
  <2>2. t' = [t EXCEPT ![Stored] = <<Origin(bytes), Origin(Byte)>>]
    BY <1>3, Zenon
  <2>3. PICK n \in Samples : n = Stored
    BY <1>3
  <2>4. LET c == [t EXCEPT ![n] = <<Origin(bytes), Origin(Byte)>>]
        IN  /\ c \in [Samples -> Slots \X Slots]
            /\ c[n][1] = Origin(bytes) /\ c[n][2] = Origin(Byte)
            /\ \A m \in Samples : m # n => c[m] = t[m]
    BY <2>1, Stores
  <2> QED BY <2>2, <2>3, <2>4, Zenon
<1>6. ASSUME ~misled, Bound < 2 * Axes
      PROVE  \E b \in Bytes : Reading(b) /\ b.position = 0
  <2>1. PICK f \in 1 .. MaxFrames, p \in 0 .. FrameSize - 1 : Reading(FlagAt(f, p))
    BY <1>6 DEF ReaderInv
  <2>2. FlagAt(f, p) \in Bytes
    BY FlagAtIs
  <2>3. i > 0
    <3>1. ASSUME NEW w \in Nat PROVE k * w + r > 0
      <4>1. k * w \in Nat
        OBVIOUS
      <4> QED BY <4>1
    <3> QED BY <1>3, <3>1
  <2> QED BY <2>1, <2>2, <2>3 DEF Reading
<1>7. ASSUME NEW b \in Bytes, Reading(b), NEW j \in Samples, j \div Axes < k
      PROVE  InPlace(b.frame, j)'
  <2>1. j # Stored
    BY <1>3, <1>7
  <2>2. InPlace(b.frame, j)
    BY <1>3, <1>7 DEF Reading
  <2>3. t'[j] = t[j]
    BY <1>5, <2>1
  <2> QED BY <2>2, <2>3, Zenon DEF InPlace
<1>8. ASSUME Bound = 0, NEW b \in Bytes, Reading(b), b.position = 0, NEW j \in Samples
      PROVE  InPlace(b.frame, j)'
  <2>1. CASE j \div Axes < k
    BY <1>7, <1>8, <2>1
  <2>2. CASE ~(j \div Axes < k) /\ j # Stored
    <3>1. j \div Axes >= k
      <4>1. j \div Axes \in Nat
        BY SamplePlace
      <4> QED BY <2>2, <4>1
    <3>2. ReadAfter(b, HighOf(j), t[j][1]) /\ ReadAfter(b, HighOf(j) + 1, t[j][2])
      BY <1>3, <1>4, <1>8, <2>2, <3>1 DEF Reading
    <3>3. /\ t[j][1] \in Bytes /\ Gap(0, b, HighOf(j), t[j][1])
          /\ t[j][2] \in Bytes /\ Gap(0, b, HighOf(j) + 1, t[j][2])
      BY <1>8, <3>2, Zenon DEF ReadAfter
    <3>4. HighOf(j) \in Nat /\ HighOf(j) + 1 \in Nat /\ HighOf(j) < FrameSize /\ HighOf(j) + 1 < FrameSize
      BY InTheFrame, Sizes
    <3>5. t[j][1].frame = b.frame /\ t[j][1].position = HighOf(j)
      BY <1>8, <3>3, <3>4, Exact
    <3>6. t[j][2].frame = b.frame /\ t[j][2].position = HighOf(j) + 1
      BY <1>8, <3>3, <3>4, Exact
    <3>7. t'[j] = t[j]
      BY <1>5, <2>2
    <3> QED BY <3>5, <3>6, <3>7, Zenon DEF InPlace
  <2>3. CASE j = Stored
    <3>1. HighOf(j) = Count /\ t'[j][1] = Origin(bytes) /\ t'[j][2] = Origin(Byte)
      BY <1>3, <1>5, <2>3, Zenon
    <3>2. bytes \in Bytes /\ Gap(0, b, Count, bytes)
      BY <1>8, Zenon DEF Reading, ReadAfter
    <3>3. Gap(0, b, Count + 1, Byte)
      <4>1. FollowedBy(Bound, buffer, frame, position, lost, b, Count)
        BY <1>8 DEF Reading, Followed
      <4>2. Gap(Bound, b, Count + 1, buffer[1])
        BY <1>1, <1>2, <1>3, <4>1, FollowHead
      <4> QED BY <1>2, <1>8, <4>2, Zenon
    <3>4. Count \in Nat /\ Count + 1 \in Nat /\ Count < FrameSize /\ Count + 1 < FrameSize
      BY <1>3, <3>1, InTheFrame, Sizes
    <3>5. bytes.frame = b.frame /\ bytes.position = Count
      BY <1>8, <3>2, <3>4, Exact
    <3>6. Byte.frame = b.frame /\ Byte.position = Count + 1
      BY <1>2, <1>8, <3>3, <3>4, Exact
    <3>7. bytes \in Slots /\ Byte \in Slots
      BY <1>2, Zenon DEF Slots, ReaderInv
    <3>8. /\ Origin(bytes).frame = b.frame /\ Origin(bytes).position = Count
          /\ Origin(Byte).frame = b.frame /\ Origin(Byte).position = Count + 1
      BY <3>5, <3>6, <3>7, OriginIs, Zenon
    <3> QED BY <3>1, <3>8, Zenon DEF InPlace
  <2> QED BY <2>1, <2>2, <2>3
<1>9. ASSUME lossless', ~misled' PROVE \E f \in 1 .. MaxFrames : From(f, 0 .. IMUCount - 1)'
  <2>1. Bound = 0 /\ Bound < 2 * Axes
    <3>1. Bound = 0
      BY <1>1, <1>9 DEF Bound
    <3> QED BY <3>1
  <2>2. PICK b \in Bytes : Reading(b) /\ b.position = 0
    BY <1>6, <1>9, <2>1
  <2>3. \A j \in Samples : InPlace(b.frame, j)'
    BY <1>8, <2>1, <2>2
  <2>4. b.frame \in 1 .. MaxFrames
    BY BytesAre
  <2> QED BY <2>3, <2>4, Zenon DEF From, InPlace
<1>10. ASSUME ~misled', Bound' < 2 * Axes PROVE \E f \in 1 .. MaxFrames : From(f, 0 .. IMUCount - 2)'
  <2>1. Bound < 2 * Axes
    BY <1>1, <1>10, Zenon
  <2>2. PICK b \in Bytes : Reading(b) /\ b.position = 0
    BY <1>6, <1>10, <2>1
  <2>3. ASSUME NEW j \in Samples, j \div Axes \in 0 .. IMUCount - 2 PROVE InPlace(b.frame, j)'
    <3>1. j \div Axes < k
      BY <1>4, <2>3
    <3> QED BY <1>7, <2>2, <3>1
  <2>4. b.frame \in 1 .. MaxFrames
    BY BytesAre
  <2> QED BY <2>3, <2>4, Zenon DEF From, InPlace
<1>11. accepted' => pc' = "sync" /\ WholeFrame'
  BY <1>9, Zenon DEF WholeFrame
<1>12. accepted' /\ Bound' < 2 * Axes => DamageConfined'
  BY <1>10, Zenon DEF DamageConfined
<1>13. /\ pc' \in {"sync", "frame", "low"} /\ ~(pc' # "sync") /\ ~(pc' = "low")
       /\ accepted' \in BOOLEAN /\ bytes' \in Slots /\ i' \in 0 .. IMUCount * (Axes + 1) - 1
  BY Zenon DEF ReaderInv
<1> QED BY <1>5, <1>11, <1>12, <1>13, Zenon DEF ReaderInv

LEMMA LowByteStep == ASSUME LineInv, ReaderInv, LowByte PROVE ReaderInv'
<1>1. pc = "low" /\ Arrived /\ UNCHANGED <<bytes, misled>> /\ UNCHANGED line
  BY DEF LowByte
<1>2. CASE bytes.value = 0 /\ Byte.value = 0
  BY <1>2, ReaderReturns DEF LowByte, Return
<1>3. CASE ~(bytes.value = 0 /\ Byte.value = 0)
  <2>1. t' = [t EXCEPT ![i - FrameBreakCount] = <<Origin(bytes), Origin(Byte)>>]
    BY <1>3 DEF LowByte
  <2>2. CASE LastSample
    <3>1. pc' = "sync" /\ accepted' = TRUE /\ UNCHANGED i
      BY <1>3, <2>2, Zenon DEF LowByte, Return
    <3> QED BY <1>1, <2>1, <2>2, <3>1, LowEnds
  <2>3. CASE ~LastSample
    <3>1. Read /\ pc' = "frame" /\ i' = i + 1 /\ UNCHANGED accepted
      BY <1>3, <2>3 DEF LowByte
    <3> QED BY <1>1, <2>1, <2>3, <3>1, LowGoesOn
  <2> QED BY <2>2, <2>3
<1> QED BY <1>2, <1>3

LEMMA ParseLine == ASSUME LineInv, ParseAccel PROVE LineInv'
<1>1. CASE Sync
  BY <1>1, ReadLine DEF Sync
<1>2. CASE Flag
  <2>1. Arrived /\ UNCHANGED line /\ (Read \/ buffer' = <<>>)
    BY <1>2 DEF Flag, Return
  <2> QED BY <2>1, ReadLine, DiscardLine
<1>3. CASE HighByte
  BY <1>3, ReadLine DEF HighByte
<1>4. CASE LowByte
  <2>1. Arrived /\ UNCHANGED line /\ (Read \/ buffer' = <<>>)
    BY <1>4 DEF LowByte, Return
  <2> QED BY <2>1, ReadLine, DiscardLine
<1>5. CASE ReadTimeout
  <2>1. UNCHANGED <<frame, position, lost, lossless, buffer>>
    BY <1>5 DEF ReadTimeout, line
  <2> QED BY <2>1, LineStays
<1> QED BY <1>1, <1>2, <1>3, <1>4, <1>5 DEF ParseAccel

\* What parseAccel() knows at every byte it reads, for every shape of a frame.
THEOREM Invariance == Spec => []Inv
<1>1. Init => Inv
  <2> SUFFICES ASSUME Init PROVE Inv
    OBVIOUS
  <2>1. LineInv
    <3>1. buffer = <<>> /\ buffer \in Seq(Bytes) /\ \A k \in 1 .. Len(buffer) : FALSE
      BY DEF Init
    <3>2. lossless \in BOOLEAN
      BY Zenon DEF Init
    <3>3. frame \in 1 .. MaxFrames + 1 /\ position \in 0 .. FrameSize - 1 /\ lost \in 0 .. Bound
      BY <3>2, BoundIs, Sizes DEF Init
    <3> QED BY <3>1, <3>2, <3>3 DEF LineInv
  <2>2. ReaderInv
    <3>1. i \in 0 .. IMUCount * (Axes + 1) - 1
      <4>1. IMUCount * (Axes + 1) \in Nat \ {0}
        OBVIOUS
      <4> QED BY <4>1 DEF Init
    <3>2. t \in [Samples -> Slots \X Slots] /\ bytes \in Slots
      BY DEF Init, Slots
    <3>3. pc = "sync" /\ ~accepted /\ accepted \in BOOLEAN
      BY Zenon DEF Init
    <3>4. pc \in {"sync", "frame", "low"} /\ ~(pc # "sync") /\ ~(pc = "low")
      BY <3>3
    <3> QED BY <3>1, <3>2, <3>3, <3>4, Zenon DEF ReaderInv
  <2> QED BY <2>1, <2>2 DEF Inv
<1>2. Inv /\ [Next]_vars => Inv'
  <2> SUFFICES ASSUME LineInv, ReaderInv, [Next]_vars PROVE LineInv' /\ ReaderInv'
    BY DEF Inv
  <2>0. Bound \in Nat
    BY BoundIs DEF LineInv
  <2>1. CASE Send
    <3>1. LineInv' /\ Bound' = Bound /\ StillFollowed(0)
      BY <2>1, SendLine
    <3>2. UNCHANGED parser /\ UNCHANGED lossless /\ Bound' \in Nat /\ Bound <= Bound'
      BY <2>0, <2>1, <3>1 DEF Send
    <3>3. lossless' => lossless
      BY <3>2, Zenon
    <3> QED BY <3>1, <3>2, <3>3, LineMoves
  <2>2. CASE Lose
    <3>1. LineInv' /\ Bound <= Bound' /\ lossless' = FALSE /\ StillFollowed(0)
      BY <2>2, LoseLine
    <3>2. UNCHANGED parser /\ Bound' \in Nat
      <4>1. Bound' = MaxLost
        BY <3>1 DEF Bound
      <4> QED BY <2>2, <4>1 DEF Lose
    <3>3. lossless' => lossless
      BY <3>1, Zenon
    <3> QED BY <3>1, <3>2, <3>3, LineMoves
  <2>3. CASE ParseAccel
    BY <2>3, ParseLine, SyncStep, FlagStep, HighByteStep, LowByteStep, ReadTimeoutStep DEF ParseAccel
  <2>4. CASE UNCHANGED vars
    <3>1. UNCHANGED <<frame, position, lost, lossless, buffer>> /\ UNCHANGED parser
      BY <2>4 DEF vars, line
    <3>2. LineInv' /\ Bound' = Bound /\ StillFollowed(0)
      BY <3>1, LineStays
    <3>3. Bound' \in Nat /\ Bound <= Bound'
      BY <2>0, <3>2
    <3>4. lossless' => lossless
      BY <3>1, Zenon
    <3> QED BY <3>1, <3>2, <3>3, <3>4, LineMoves
  <2> QED BY <2>1, <2>2, <2>3, <2>4 DEF Next
<1> QED BY <1>1, <1>2, PTL DEF Spec

\* An accepted frame is one frame of the glove, each of its bytes in its place
\* (testing.cs parseAccel()): if none was lost, and the call took no data byte
\* for a flag, wherever in the stream it began, and whatever was thrown away.
THEOREM AcceptedIsWhole == Spec => []WholeFrame
<1>1. Inv => WholeFrame
  BY Zenon DEF Inv, ReaderInv, WholeFrame
<1> QED BY <1>1, Invariance, PTL

\* Fewer bytes of a frame lost than the samples of a sensor have, and the flags
\* that parseAccel() checks confine the damage to the last sensor.  With as
\* many as that it is false.
THEOREM FlagsConfine == ASSUME MaxLost < 2 * Axes PROVE Spec => []DamageConfined
<1>1. Inv => DamageConfined
  <2> SUFFICES ASSUME Inv, accepted PROVE DamageConfined
    BY Zenon DEF DamageConfined
  <2>1. Bound < 2 * Axes
    BY BoundIs DEF Inv, LineInv
  <2> QED BY <2>1 DEF Inv, ReaderInv
<1> QED BY <1>1, Invariance, PTL

-----------------------------------------------------------------------------
(* When no reader is misled.                                               *)

\* Among what waits, an 'A' is a flag.
Honest ==
    /\ misled = FALSE
    /\ \A k \in 1 .. Len(buffer) : buffer[k].value = A => IsFlag(buffer[k].position)

LEMMA HonestSend ==
    ASSUME A \notin Data, LineInv, Honest, Send
    PROVE  Honest'
<1>1. PICK v \in IF IsFlag(position) THEN {A} ELSE Data :
          buffer' = Append(buffer, [value |-> v, frame |-> frame, position |-> position])
  BY DEF Send
<1> DEFINE y == [value |-> v, frame |-> frame, position |-> position]
<1>2. y.value = A => IsFlag(y.position)
  BY <1>1
<1>3. y \in Bytes
  <2>1. v \in 0 .. 255
    BY <1>1 DEF A
  <2>2. frame \in 1 .. MaxFrames /\ position \in 0 .. FrameSize - 1
    BY DEF LineInv, Send, NextByte
  <2> QED BY <2>1, <2>2 DEF Bytes
<1> HIDE DEF y
<1>4. buffer' = Append(buffer, y)
  BY <1>1, Zenon DEF y
<1>5. buffer \in Seq(Bytes)
  BY DEF LineInv
<1>6. /\ Len(buffer') = Len(buffer) + 1 /\ Len(buffer) \in Nat
      /\ \A k \in 1 .. Len(buffer) : buffer'[k] = buffer[k]
      /\ buffer'[Len(buffer) + 1] = y
  BY <1>3, <1>4, <1>5, AppendIs
<1>7. ASSUME NEW k \in 1 .. Len(buffer') PROVE buffer'[k].value = A => IsFlag(buffer'[k].position)
  <2>1. CASE k = Len(buffer) + 1
    BY <1>2, <1>6, <2>1, Zenon
  <2>2. CASE k # Len(buffer) + 1
    <3>1. k \in 1 .. Len(buffer)
      BY <1>6, <2>2
    <3> QED BY <1>6, <3>1, Zenon DEF Honest
  <2> QED BY <2>1, <2>2
<1>8. misled' = FALSE
  BY DEF Honest, Send, parser
<1> QED BY <1>7, <1>8, Zenon DEF Honest

LEMMA HonestRead ==
    ASSUME LineInv, Honest, Arrived, Read \/ buffer' = <<>>, misled' \in {misled, FalseFlag, misled \/ FalseFlag}
    PROVE  Honest'
<1>1. buffer \in Seq(Bytes) /\ buffer # <<>>
  BY DEF LineInv, Arrived
<1>2. /\ Len(Tail(buffer)) = Len(buffer) - 1 /\ Len(buffer) \in Nat \ {0}
      /\ Head(buffer) = buffer[1]
      /\ \A k \in 1 .. Len(buffer) - 1 : Tail(buffer)[k] = buffer[k + 1]
  BY <1>1, TailIs
<1>3. ~FalseFlag
  <2>1. 1 \in 1 .. Len(buffer)
    BY <1>2
  <2> QED BY <1>2, <2>1, Zenon DEF Honest, FalseFlag, Byte
<1>4. misled' = FALSE
  <2>1. FalseFlag = FALSE
    BY <1>3, Zenon DEF FalseFlag
  <2>2. (misled \/ FalseFlag) = FALSE
    BY <2>1, Zenon DEF Honest
  <2> QED BY <2>1, <2>2, Zenon DEF Honest
<1>5. ASSUME NEW k \in 1 .. Len(buffer') PROVE buffer'[k].value = A => IsFlag(buffer'[k].position)
  <2>1. buffer' = Tail(buffer) /\ k + 1 \in 1 .. Len(buffer)
    BY <1>2 DEF Read
  <2>2. buffer'[k] = buffer[k + 1]
    BY <1>2, <2>1
  <2> QED BY <2>1, <2>2, Zenon DEF Honest
<1> QED BY <1>4, <1>5, Zenon DEF Honest

\* Without a data byte of 65 on the line, no call is ever misled.
THEOREM NeverMisled == ASSUME A \notin Data PROVE Spec => []~misled
<1>1. Init => Honest
  BY DEF Init, Honest
<1>2. Inv /\ Honest /\ [Next]_vars => Honest'
  <2> SUFFICES ASSUME LineInv, Honest, [Next]_vars PROVE Honest'
    BY DEF Inv
  <2>1. CASE Send
    BY <2>1, HonestSend
  <2>2. CASE Sync \/ Flag \/ HighByte \/ LowByte
    <3>1. Arrived /\ (Read \/ buffer' = <<>>) /\ misled' \in {misled, FalseFlag, misled \/ FalseFlag}
      BY <2>2, Zenon DEF Sync, Flag, HighByte, LowByte, Return
    <3> QED BY <3>1, HonestRead
  <2>3. CASE Lose \/ ReadTimeout \/ UNCHANGED vars
    BY <2>3, Zenon DEF Lose, ReadTimeout, vars, parser, Honest
  <2> QED BY <2>1, <2>2, <2>3 DEF Next, ParseAccel
<1>3. Honest => ~misled
  BY DEF Honest
<1> QED BY <1>1, <1>2, <1>3, Invariance, PTL DEF Spec
=============================================================================
