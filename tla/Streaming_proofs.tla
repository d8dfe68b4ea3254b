-------------------------- MODULE Streaming_proofs --------------------------
(***************************************************************************)
(* Theorems about Streaming: the stream that is validated is the path,     *)
(* sampled; what is sent is what was validated; it keeps the limits; and   *)
(* the gripper moves only where the plan says.                             *)
(***************************************************************************)
EXTENDS Streaming, SequenceTheorems, TLAPS

Poses == [arm : Int, grip : Int]
Samples == [t : Int, arm : Int, grip : Int, marker : Int]
Segments == [from : Poses, to : Poses, duration : Nat \ {0}, marker : Int]

\* The gripper may be anywhere in its travel.
OverPlace(arm) ==
  \/ arm = Places["cube"] \/ arm = Places["goal"]
  \/ arm = Places["ready"] /\ start # Open
SampleOK(s) == s.grip = Open \/ s.grip = Hold \/ OverPlace(s.arm)

\* From one pose to the next either the gripper or the arm stands still.
Pair(l, r) ==
  \/ l.grip = r.grip /\ (l.grip = Open \/ l.grip = Hold)
  \/ l.arm = r.arm /\ OverPlace(l.arm)

\* A sequence of segments leads from pose a to pose b.
Route(s, a, b) ==
  /\ s \in Seq(Segments) /\ Len(s) >= 1
  /\ s[1].from = a /\ s[Len(s)].to = b
  /\ \A k \in 1 .. Len(s) : Pair(s[k].from, s[k].to)
  /\ \A k \in 1 .. Len(s) - 1 : s[k].to = s[k + 1].from

EndPose(p) == [arm |-> p[Len(p)].arm, grip |-> p[Len(p)].grip]
IsAt(s, pose) == s.arm = pose.arm /\ s.grip = pose.grip

Timed(p) ==
  /\ p \in Seq(Samples) /\ Len(p) >= 2
  /\ p[1].t = 0
  /\ \A k, l \in 1 .. Len(p) : k < l => p[k].t < p[l].t

\* A path as the plan makes it and stretching leaves it.
Planned(p) ==
  /\ Timed(p)
  /\ IsAt(p[1], At("ready", start))
  /\ \A k \in 1 .. Len(p) - 1 : Pair(p[k], p[k + 1])

\* The time of sample k of a stream that lasts until d.
TimeOf(k, d) == IF (k - 1) * Step < d THEN (k - 1) * Step ELSE d
OnTime(o, d) == \A k \in 1 .. Len(o) : o[k].t = TimeOf(k, d)
Whenever(o, d) == (Len(o) - 1) * Step < d
Complete(o, d) == Len(o) >= 2 /\ (Len(o) - 2) * Step < d /\ d <= (Len(o) - 1) * Step

\* The value x of i on the way from a to b, and whether v is less than one from it.
Lerp(a, b, i, x) == a + ((b - a) * x) \div i
Near(a, b, i, x, v) == (b - a) * x - (v - a) * i \in 0 .. i - 1

\* s lies on a line of the path p; see OnPath.
OnLine(p, s, f) ==
  \E k \in 1 .. Len(p) - 1 :
    /\ p[k].t <= s.t /\ s.t <= p[k + 1].t
    /\ Near(p[k][f], p[k + 1][f], p[k + 1].t - p[k].t, s.t - p[k].t, s[f])

Sampled(p, o) ==
  /\ o \in Seq(Samples) /\ OnTime(o, Duration(p))
  /\ \A k \in 1 .. Len(o) : OnLine(p, o[k], "arm") /\ OnLine(p, o[k], "grip")
  /\ \A k \in 1 .. Len(o) : SampleOK(o[k])
  /\ Len(o) >= 1 => IsAt(o[1], At("ready", start))

\* source is before the target of the next sample.
SourceBehind(p, o, s) ==
  /\ s \in 1 .. Len(p) - 1
  /\ s = 1 \/ p[s].t < TimeOf(Len(o) + 1, Duration(p))

WithinLimits(p) ==
  \A f \in {"arm", "grip"} : VelocityFits(p, f, 2) /\ AccelerationFits(p, f, 2)

\* A path that was validated.
Validated(p) ==
  /\ Timed(p) /\ WithinLimits(p)
  /\ OnTime(p, Duration(p)) /\ Complete(p, Duration(p))
  /\ \A k \in 1 .. Len(p) : SampleOK(p[k])

Prefix(o, p) ==
  /\ o \in Seq(Samples) /\ Len(o) <= Len(p)
  /\ \A k \in 1 .. Len(o) : o[k] = p[k]

WhilePlanning ==
  /\ out = <<>> /\ source = 1
  /\ path \in Seq(Samples)
  /\ IF path = <<>> THEN Route(moves, At("ready", start), At("ready", Open))
     ELSE /\ Planned(path)
          /\ Route(moves, EndPose(path), At("ready", Open))
WhileSampling ==
  /\ Planned(path) /\ IsAt(path[Len(path)], At("ready", Open))
  /\ Sampled(path, out)
WhileChecking ==
  /\ WhileSampling /\ SourceBehind(path, out, source)
  /\ Whenever(out, Duration(path))
WhenMeasured ==
  /\ WhileSampling /\ Complete(out, Duration(path))
  /\ IsAt(out[Len(out)], At("ready", Open))
WhileSending ==
  /\ Validated(path) /\ Prefix(out, path)
  /\ SourceBehind(path, out, source) /\ Whenever(out, Duration(path))
WhenSent == Validated(path) /\ out = path

StreamingInv ==
  /\ pc \in {"plan", "check", "measure", "send", "sent", "rejected"}
  /\ durations \in Durations /\ start \in Grips
  /\ source \in Nat \ {0} /\ passes \in 0 .. Rounds
  /\ pc = "plan" => WhilePlanning
  /\ pc = "check" => WhileChecking
  /\ pc = "measure" => WhenMeasured
  /\ pc = "send" => WhileSending
  /\ pc = "sent" => WhenSent
-----------------------------------------------------------------------------
(***************************************************************************)
(* Arithmetic.                                                             *)
(***************************************************************************)
\* A product of positive numbers is one.
LEMMA PositiveProduct ==
  ASSUME NEW a \in Nat \ {0}, NEW b \in Nat \ {0}
  PROVE  a * b \in Nat \ {0}
  BY SMT

\* One more time around multiplies by one more.
LEMMA OneMore ==
  ASSUME NEW k \in Int, NEW s \in Int
  PROVE  (k + 1) * s = k * s + s /\ (k - 1) * s = k * s - s /\ (k - 2) * s = k * s - 2 * s
  BY SMT

\* A product grows with its first factor.
LEMMA ProductGrows ==
  ASSUME NEW a \in Int, NEW b \in Int, NEW s \in Nat \ {0}, a < b
  PROVE  a * s + s <= b * s
<1>1. PICK d \in Nat : b = a + 1 + d
  <2>1. b - a - 1 \in Nat
    OBVIOUS
  <2> QED
    BY <2>1
<1>2. d * s >= 0
  BY SMT
<1>3. (a + 1 + d) * s = a * s + s + d * s
  BY SMT
<1> QED
  BY <1>1, <1>2, <1>3

\* What a quotient and a remainder are.
LEMMA DivMod ==
  ASSUME NEW x \in Int, NEW n \in Nat \ {0}
  PROVE  /\ x \div n \in Int
         /\ n * (x \div n) <= x
         /\ x < n * (x \div n) + n
  BY SMT

\* A quotient is known by its bounds.
LEMMA DivIs ==
  ASSUME NEW x \in Int, NEW n \in Nat \ {0}, NEW q \in Int,
         n * q <= x, x < n * q + n
  PROVE  x \div n = q
<1> DEFINE r == x \div n
<1>1. r \in Int /\ n * r <= x /\ x < n * r + n
  BY DivMod
<1>2. r = q
  <2> HIDE DEF r
  <2>1. CASE r < q
    <3>1. r * n + n <= q * n
      BY <2>1, <1>1, ProductGrows
    <3> QED
      BY <3>1, <1>1, SMT
  <2>2. CASE q < r
    <3>1. q * n + n <= r * n
      BY <2>2, <1>1, ProductGrows
    <3> QED
      BY <3>1, <1>1, SMT
  <2> QED
    BY <2>1, <2>2, <1>1
<1> QED
  BY <1>2

\* A product divided by one of its factors is the other one.
LEMMA DivExact ==
  ASSUME NEW x \in Int, NEW n \in Nat \ {0}
  PROVE  (x * n) \div n = x
<1>1. n * x = x * n
  BY SMT
<1>2. x * n \in Int
  BY SMT
<1> QED
  BY <1>1, <1>2, DivIs

\* Zero divided is zero.
LEMMA DivZero ==
  ASSUME NEW n \in Nat \ {0}
  PROVE  0 \div n = 0
<1>1. 0 * n = 0
  BY SMT
<1> QED
  BY <1>1, DivExact

\* A quotient grows by one when the dividend grows by the divisor.
LEMMA DivStep ==
  ASSUME NEW x \in Int, NEW y \in Int, NEW n \in Nat \ {0}, x + n <= y
  PROVE  x \div n < y \div n
<1> DEFINE q == x \div n
           r == y \div n
<1>1. q \in Int /\ n * q <= x
  BY DivMod
<1>2. r \in Int /\ y < n * r + n
  BY DivMod
<1>3. q < r
  <2> HIDE DEF q, r
  <2> SUFFICES ASSUME r <= q PROVE FALSE
    BY <1>1, <1>2
  <2>1. n * r <= n * q
    <3>1. CASE r = q
      BY <3>1, <1>1, <1>2, SMT
    <3>2. CASE r < q
      <4>1. r * n + n <= q * n
        BY <3>2, <1>1, <1>2, ProductGrows
      <4> QED
        BY <4>1, <1>1, <1>2, SMT
    <3> QED
      BY <3>1, <3>2, <1>1, <1>2
  <2>2. n * q \in Int /\ n * r \in Int
    BY <1>1, <1>2, SMT
  <2> QED
    BY <2>1, <2>2, <1>1, <1>2
<1> QED
  BY <1>3

\* The number of intervals of a segment: at least one, at most one per tick.
LEMMA Intervals ==
  ASSUME NEW d \in Nat \ {0}
  PROVE  CeilDiv(d, Period) \in 1 .. d
<1>1. Period \in Nat \ {0}
  BY StreamingAssumption
<1> DEFINE x == d + Period - 1
           q == x \div Period
<1>2. q \in Int /\ Period * q <= x /\ x < Period * q + Period
  <2>1. x \in Int
    BY <1>1
  <2> QED
    BY <2>1, <1>1, DivMod
<1>3. q >= 1
  <2>1. Period * q > 0
    BY <1>1, <1>2
  <2> HIDE DEF q, x
  <2>2. CASE q <= 0
    <3>1. q * Period <= 0
      <4>1. CASE q = 0
        BY <4>1, <1>1, SMT
      <4>2. CASE q < 0
        <5>1. q * Period + Period <= 0 * Period
          BY <4>2, <1>1, <1>2, ProductGrows
        <5> QED
          BY <5>1, <1>1, <1>2, SMT
      <4> QED
        BY <2>2, <4>1, <4>2, <1>2
    <3> QED
      BY <3>1, <2>1, <1>1, <1>2, SMT
  <2> QED
    BY <2>2, <1>2
<1>4. q <= d
  <2> HIDE DEF q
  <2>1. CASE d < q
    <3>1. d * Period + Period <= q * Period
      BY <2>1, <1>1, <1>2, ProductGrows
    <3>2. d * Period >= d
      <4>1. CASE Period = 1
        BY <4>1, SMT
      <4>2. CASE 1 < Period
        <5>1. 1 * d + d <= Period * d
          BY <4>2, <1>1, ProductGrows
        <5> QED
          BY <5>1, <1>1, SMT
      <4> QED
        BY <4>1, <4>2, <1>1
    <3>3. q * Period = Period * q /\ d * Period \in Int /\ Period * q \in Int
      BY <1>1, <1>2, SMT
    <3> QED
      BY <3>1, <3>2, <3>3, <1>1, <1>2
  <2> QED
    BY <2>1, <1>2
<1> QED
  BY <1>2, <1>3, <1>4 DEF CeilDiv

\* The least of some numbers is one of them.
LEMMA MinOfSome ==
  ASSUME NEW H \in SUBSET (3 .. MaxHalves), H # {}
  PROVE  Min(H) \in H
<1> DEFINE HasLeast(G) == \E x \in G : \A y \in G : x <= y
           From(a) == \A G \in SUBSET (a .. 12) : G # {} => HasLeast(G)
<1>1. ASSUME NEW a \in Int, NEW b \in Int, b = a + 1, From(b)
      PROVE  From(a)
  <2> SUFFICES ASSUME NEW G \in SUBSET (a .. 12), G # {}
               PROVE  HasLeast(G)
    OBVIOUS
  <2>1. CASE a \in G
    BY <2>1
  <2>2. CASE a \notin G
    <3>1. G \in SUBSET (b .. 12)
      BY <2>2, <1>1
    <3> QED
      BY <3>1, <1>1
  <2> QED
    BY <2>1, <2>2
<1>2. From(13)
  <2> SUFFICES ASSUME NEW G \in SUBSET (13 .. 12), G # {}
               PROVE  FALSE
    OBVIOUS
  <2>1. PICK x : x \in G
    OBVIOUS
  <2>2. x \in 13 .. 12
    BY <2>1
  <2> QED
    BY <2>2, SMT
<1> HIDE DEF From
<1>3. From(10)
  BY <1>1, <1>2
<1>4. From(7)
  BY <1>1, <1>3
<1>5. From(5)
  BY <1>1, <1>4
<1>6. From(3)
  BY <1>1, <1>5
<1>7. \E x \in H : \A y \in H : x <= y
  BY <1>6 DEF From, MaxHalves
<1> QED
  BY <1>7 DEF Min

\* The lesser of two numbers.
LEMMA MinOfTwo ==
  ASSUME NEW a \in Int, NEW b \in Int
  PROVE  Min({a, b}) = IF a < b THEN a ELSE b
<1>1. \E x \in {a, b} : \A y \in {a, b} : x <= y
  <2>1. CASE a <= b
    BY <2>1
  <2>2. CASE b <= a
    BY <2>2
  <2> QED
    BY <2>1, <2>2
<1>2. Min({a, b}) \in {a, b} /\ \A y \in {a, b} : Min({a, b}) <= y
  BY <1>1 DEF Min
<1> QED
  BY <1>2

-----------------------------------------------------------------------------
(***************************************************************************)
(* Segments.                                                               *)
(***************************************************************************)
\* The blend of a segment: nothing at its start, everything at its end.
LEMMA BlendEnds ==
  ASSUME NEW n \in Nat \ {0}
  PROVE  /\ Cube(n) * n * n \in Nat \ {0}
         /\ Blend(0, n) = 0
         /\ Blend(n, n) = Cube(n) * n * n
         /\ \A k \in Nat : Blend(k, n) \in Int
<1>1. Cube(n) \in Nat \ {0}
  <2>1. n * n \in Nat \ {0}
    BY PositiveProduct
  <2>2. (n * n) * n \in Nat \ {0}
    BY <2>1, PositiveProduct
  <2> QED
    BY <2>2 DEF Cube
<1>2. Cube(n) * n * n \in Nat \ {0}
  <2>1. Cube(n) * n \in Nat \ {0}
    BY <1>1, PositiveProduct
  <2> QED
    BY <2>1, PositiveProduct
<1>3. Blend(0, n) = 0
  <2>1. Cube(0) = 0
    BY SMT DEF Cube
  <2>2. 10 * n * n - 15 * 0 * n + 6 * 0 * 0 \in Int
    BY SMT
  <2>3. \A x \in Int : 0 * x = 0
    BY SMT
  <2> QED
    BY <2>1, <2>2, <2>3 DEF Blend
<1>4. Blend(n, n) = Cube(n) * n * n
  <2>1. 10 * n * n - 15 * n * n + 6 * n * n = n * n
    BY SMT
  <2>2. Cube(n) * (n * n) = Cube(n) * n * n
    BY <1>1, SMT
  <2> QED
    BY <2>1, <2>2 DEF Blend
<1>5. ASSUME NEW k \in Nat
      PROVE  Blend(k, n) \in Int
  <2>1. Cube(k) \in Int
    <3>1. k * k \in Int
      BY SMT
    <3>2. (k * k) * k \in Int
      BY <3>1, SMT
    <3> QED
      BY <3>2 DEF Cube
  <2>2. 10 * n * n - 15 * k * n + 6 * k * k \in Int
    BY SMT
  <2>3. \A x, y \in Int : x * y \in Int
    BY SMT
  <2> QED
    BY <2>1, <2>2, <2>3 DEF Blend
<1> QED
  BY <1>2, <1>3, <1>4, <1>5

\* A travel starts where it starts, ends where it ends, and does not move
\* what need not be moved.
LEMMA BlendedEnds ==
  ASSUME NEW a \in Int, NEW b \in Int, NEW n \in Nat \ {0}, NEW k \in Nat
  PROVE  /\ Blended(a, b, k, n) \in Int
         /\ Blended(a, b, 0, n) = a
         /\ Blended(a, b, n, n) = b
         /\ Blended(a, a, k, n) = a
<1> DEFINE m == Cube(n) * n * n
<1>1. m \in Nat \ {0} /\ Blend(0, n) = 0 /\ Blend(n, n) = m /\ Blend(k, n) \in Int
  BY BlendEnds
<1>2. \A x, y \in Int : Blended(x, y, k, n) = x + ((y - x) * Blend(k, n)) \div m
  BY DEF Blended
<1>3. Blended(a, b, 0, n) = a + ((b - a) * Blend(0, n)) \div m
  BY DEF Blended
<1>4. Blended(a, b, n, n) = a + ((b - a) * Blend(n, n)) \div m
  BY DEF Blended
<1> HIDE DEF m
<1>5. Blended(a, b, k, n) \in Int
  <2>1. (b - a) * Blend(k, n) \in Int
    BY <1>1, SMT
  <2>2. ((b - a) * Blend(k, n)) \div m \in Int
    BY <2>1, <1>1, DivMod
  <2> QED
    BY <2>2, <1>2
<1>6. Blended(a, b, 0, n) = a
  <2>1. (b - a) * 0 = 0
    BY SMT
  <2>2. 0 \div m = 0
    BY <1>1, DivZero
  <2> QED
    BY <2>1, <2>2, <1>1, <1>3
<1>7. Blended(a, b, n, n) = b
  <2>1. ((b - a) * m) \div m = b - a
    BY <1>1, DivExact
  <2> QED
    BY <2>1, <1>1, <1>4
<1>8. Blended(a, a, k, n) = a
  <2>1. (a - a) * Blend(k, n) = 0
    BY <1>1, SMT
  <2>2. 0 \div m = 0
    BY <1>1, DivZero
  <2> QED
    BY <2>1, <2>2, <1>2
<1> QED
  BY <1>5, <1>6, <1>7, <1>8

\* The samples of a segment.
LEMMA SegmentFacts ==
  ASSUME NEW t0 \in Int, NEW s \in Segments
  PROVE  LET n == CeilDiv(s.duration, Period)
             g == Segment(t0, s)
         IN  /\ n \in Nat \ {0}
             /\ g \in Seq(Samples) /\ Len(g) = n + 1
             /\ g[1].t = t0
             /\ IsAt(g[1], s.from) /\ IsAt(g[n + 1], s.to)
             /\ \A k, l \in 1 .. n + 1 : k < l => g[k].t < g[l].t
             /\ \A k \in 1 .. n + 1 :
                  /\ s.from.arm = s.to.arm => g[k].arm = s.from.arm
                  /\ s.from.grip = s.to.grip => g[k].grip = s.from.grip
<1> DEFINE d == s.duration
           n == CeilDiv(d, Period)
           g == Segment(t0, s)
           T(j) == t0 + ((j - 1) * d) \div n
           A(j) == Blended(s.from.arm, s.to.arm, j - 1, n)
           G(j) == Blended(s.from.grip, s.to.grip, j - 1, n)
           E(j) == [t |-> T(j), arm |-> A(j), grip |-> G(j), marker |-> s.marker]
<1>1. /\ d \in Nat \ {0} /\ s.marker \in Int
      /\ s.from.arm \in Int /\ s.from.grip \in Int
      /\ s.to.arm \in Int /\ s.to.grip \in Int
  BY DEF Segments, Poses
<1>2. n \in Nat \ {0} /\ n <= d
  BY <1>1, Intervals
<1>3. g = [j \in 1 .. n + 1 |-> E(j)]
  BY DEF Segment
<1> HIDE DEF n, d, g
<1>4. ASSUME NEW j \in 1 .. n + 1
      PROVE  /\ T(j) \in Int /\ A(j) \in Int /\ G(j) \in Int
             /\ s.from.arm = s.to.arm => A(j) = s.from.arm
             /\ s.from.grip = s.to.grip => G(j) = s.from.grip
  <2>0. j - 1 \in Nat
    BY <1>2
  <2>1. (j - 1) * d \in Int
    BY <1>1, <2>0, SMT
  <2>2. T(j) \in Int
    BY <2>1, <1>2, DivMod
  <2>3. A(j) \in Int /\ Blended(s.from.arm, s.from.arm, j - 1, n) = s.from.arm
    BY <2>0, <1>1, <1>2, BlendedEnds
  <2>4. G(j) \in Int /\ Blended(s.from.grip, s.from.grip, j - 1, n) = s.from.grip
    BY <2>0, <1>1, <1>2, BlendedEnds
  <2> QED
    BY <2>2, <2>3, <2>4
<1>5. T(1) = t0
  <2>1. (1 - 1) * d = 0
    BY <1>1, SMT
  <2>2. 0 \div n = 0
    BY <1>2, DivZero
  <2> QED
    BY <2>1, <2>2
<1>6. A(1) = s.from.arm /\ A(n + 1) = s.to.arm
  <2>1. 1 - 1 = 0 /\ (n + 1) - 1 = n
    BY <1>2
  <2>2. /\ Blended(s.from.arm, s.to.arm, 0, n) = s.from.arm
        /\ Blended(s.from.arm, s.to.arm, n, n) = s.to.arm
    BY <1>1, <1>2, BlendedEnds
  <2> QED
    BY <2>1, <2>2
<1>7. G(1) = s.from.grip /\ G(n + 1) = s.to.grip
  <2>1. 1 - 1 = 0 /\ (n + 1) - 1 = n
    BY <1>2
  <2>2. /\ Blended(s.from.grip, s.to.grip, 0, n) = s.from.grip
        /\ Blended(s.from.grip, s.to.grip, n, n) = s.to.grip
    BY <1>1, <1>2, BlendedEnds
  <2> QED
    BY <2>1, <2>2
<1>8. ASSUME NEW k \in 1 .. n + 1, NEW l \in 1 .. n + 1, k < l
      PROVE  T(k) < T(l)
  <2>1. k - 1 \in Int /\ l - 1 \in Int /\ k - 1 < l - 1
    BY <1>2, <1>8
  <2>2. (k - 1) * d + d <= (l - 1) * d
    BY <2>1, <1>1, ProductGrows
  <2>3. (k - 1) * d \in Int /\ (l - 1) * d \in Int
    BY <2>1, <1>1, SMT
  <2>4. (k - 1) * d + n <= (l - 1) * d
    BY <2>2, <2>3, <1>1, <1>2
  <2>5. ((k - 1) * d) \div n < ((l - 1) * d) \div n
    BY <2>3, <2>4, <1>2, DivStep
  <2>6. ((k - 1) * d) \div n \in Int /\ ((l - 1) * d) \div n \in Int
    BY <2>3, <1>2, DivMod
  <2> QED
    BY <2>5, <2>6
<1> HIDE DEF T, A, G
<1>9. \A j \in 1 .. n + 1 : E(j) \in Samples
  BY <1>4, <1>1 DEF Samples
<1>10. g \in Seq(Samples) /\ Len(g) = n + 1
  <2>1. n + 1 \in Nat
    BY <1>2
  <2> HIDE DEF E
  <2>2. [j \in 1 .. n + 1 |-> E(j)] \in Seq(Samples)
    BY <2>1, <1>9, IsASeq
  <2>3. g \in Seq(Samples) /\ DOMAIN g = 1 .. n + 1
    BY <2>2, <1>3
  <2>4. Len(g) \in Nat /\ DOMAIN g = 1 .. Len(g)
    BY <2>3, LenProperties
  <2> QED
    BY <2>1, <2>3, <2>4
<1>11. \A j \in 1 .. n + 1 : g[j].t = T(j) /\ g[j].arm = A(j) /\ g[j].grip = G(j)
  BY <1>3
<1>12. 1 \in 1 .. n + 1 /\ n + 1 \in 1 .. n + 1
  BY <1>2
<1>13. g[1].t = t0 /\ IsAt(g[1], s.from) /\ IsAt(g[n + 1], s.to)
  BY <1>5, <1>6, <1>7, <1>11, <1>12 DEF IsAt
<1>14. \A k, l \in 1 .. n + 1 : k < l => g[k].t < g[l].t
  BY <1>8, <1>11
<1>15. \A k \in 1 .. n + 1 :
         /\ s.from.arm = s.to.arm => g[k].arm = s.from.arm
         /\ s.from.grip = s.to.grip => g[k].grip = s.from.grip
  BY <1>4, <1>11
<1> QED
  BY <1>2, <1>10, <1>13, <1>14, <1>15 DEF n, g, d

\* Along a segment the gripper or the arm stands still, as between its ends.
LEMMA SegmentPairs ==
  ASSUME NEW t0 \in Int, NEW s \in Segments, Pair(s.from, s.to)
  PROVE  LET n == CeilDiv(s.duration, Period)
             g == Segment(t0, s)
         IN  \A k, l \in 1 .. n + 1 : Pair(g[k], g[l])
<1> DEFINE n == CeilDiv(s.duration, Period)
           g == Segment(t0, s)
<1>1. \A k \in 1 .. n + 1 :
        /\ s.from.arm = s.to.arm => g[k].arm = s.from.arm
        /\ s.from.grip = s.to.grip => g[k].grip = s.from.grip
  BY SegmentFacts
<1> HIDE DEF n, g
<1>2. \A k, l \in 1 .. n + 1 : Pair(g[k], g[l])
  <2>1. CASE s.from.grip = s.to.grip /\ (s.from.grip = Open \/ s.from.grip = Hold)
    BY <1>1, <2>1 DEF Pair
  <2>2. CASE s.from.arm = s.to.arm /\ OverPlace(s.from.arm)
    BY <1>1, <2>2 DEF Pair
  <2> QED
    BY <2>1, <2>2 DEF Pair
<1> QED
  BY <1>2 DEF n, g

\* The segment at the start of a plan.
LEMMA FirstSegment ==
  ASSUME NEW s \in Segments, Pair(s.from, s.to), s.from = At("ready", start)
  PROVE  LET q == AppendSegment(<<>>, s)
         IN  Planned(q) /\ IsAt(q[Len(q)], s.to)
<1> DEFINE n == CeilDiv(s.duration, Period)
           g == Segment(0, s)
<1>1. AppendSegment(<<>>, s) = g
  BY DEF AppendSegment
<1>2. /\ n \in Nat \ {0}
      /\ g \in Seq(Samples) /\ Len(g) = n + 1
      /\ g[1].t = 0
      /\ IsAt(g[1], s.from) /\ IsAt(g[n + 1], s.to)
      /\ \A k, l \in 1 .. n + 1 : k < l => g[k].t < g[l].t
  <2>1. 0 \in Int
    OBVIOUS
  <2> QED
    BY <2>1, SegmentFacts
<1>3. \A k, l \in 1 .. n + 1 : Pair(g[k], g[l])
  <2>1. 0 \in Int
    OBVIOUS
  <2> QED
    BY <2>1, SegmentPairs
<1> HIDE DEF n, g
<1>4. Timed(g)
  BY <1>2 DEF Timed
<1>5. \A k \in 1 .. Len(g) - 1 : Pair(g[k], g[k + 1])
  <2> SUFFICES ASSUME NEW k \in 1 .. Len(g) - 1
               PROVE  Pair(g[k], g[k + 1])
    OBVIOUS
  <2>1. k \in 1 .. n + 1 /\ k + 1 \in 1 .. n + 1
    BY <1>2
  <2> QED
    BY <2>1, <1>3
<1>6. Planned(g)
  BY <1>2, <1>4, <1>5 DEF Planned
<1> QED
  BY <1>1, <1>2, <1>6

\* A segment that starts where the plan has come to.
LEMMA NextSegment ==
  ASSUME NEW p, Planned(p),
         NEW s \in Segments, Pair(s.from, s.to), IsAt(p[Len(p)], s.from)
  PROVE  LET q == AppendSegment(p, s)
         IN  Planned(q) /\ IsAt(q[Len(q)], s.to)
<1> DEFINE m == Len(p)
           t0 == p[m].t
           n == CeilDiv(s.duration, Period)
           g == Segment(t0, s)
           q == p \o Tail(g)
<1>1. /\ p \in Seq(Samples) /\ m \in Nat /\ m >= 2
      /\ p[1].t = 0
      /\ \A k, l \in 1 .. m : k < l => p[k].t < p[l].t
      /\ IsAt(p[1], At("ready", start))
      /\ \A k \in 1 .. m - 1 : Pair(p[k], p[k + 1])
  BY DEF Planned, Timed
<1>2. \A k \in 1 .. m : p[k] \in Samples /\ p[k].t \in Int
  <2>1. \A k \in 1 .. m : p[k] \in Samples
    BY <1>1, ElementOfSeq
  <2> QED
    BY <2>1 DEF Samples
<1>3. t0 \in Int
  <2>1. m \in 1 .. m
    BY <1>1
  <2> QED
    BY <2>1, <1>2
<1>4. AppendSegment(p, s) = q
  <2>1. p # <<>>
    BY <1>1
  <2> QED
    BY <2>1 DEF AppendSegment, Duration
<1> HIDE DEF t0
<1>5. /\ n \in Nat \ {0}
      /\ g \in Seq(Samples) /\ Len(g) = n + 1
      /\ g[1].t = t0
      /\ IsAt(g[1], s.from) /\ IsAt(g[n + 1], s.to)
      /\ \A k, l \in 1 .. n + 1 : k < l => g[k].t < g[l].t
  BY <1>3, SegmentFacts
<1>6. \A k, l \in 1 .. n + 1 : Pair(g[k], g[l])
  BY <1>3, SegmentPairs
<1> HIDE DEF n, g
<1>7. /\ Tail(g) \in Seq(Samples) /\ Len(Tail(g)) = n
      /\ \A i \in 1 .. n : Tail(g)[i] = g[i + 1]
  <2>1. g # <<>>
    BY <1>5
  <2>2. /\ Tail(g) \in Seq(Samples) /\ Len(Tail(g)) = Len(g) - 1
        /\ \A i \in 1 .. Len(Tail(g)) : Tail(g)[i] = g[i + 1]
    BY <2>1, <1>5, HeadTailProperties
  <2> QED
    BY <2>2, <1>5
<1>8. /\ q \in Seq(Samples) /\ Len(q) = m + n
      /\ \A i \in 1 .. m + n : q[i] = IF i <= m THEN p[i] ELSE Tail(g)[i - m]
  BY <1>1, <1>7, ConcatProperties
<1>9. \A i \in 1 .. m : q[i] = p[i]
  BY <1>8, <1>1, <1>5
<1>10. \A i \in m + 1 .. m + n : i - m + 1 \in 2 .. n + 1 /\ q[i] = g[i - m + 1]
  <2> SUFFICES ASSUME NEW i \in m + 1 .. m + n
               PROVE  i - m + 1 \in 2 .. n + 1 /\ q[i] = g[i - m + 1]
    OBVIOUS
  <2>1. i \in 1 .. m + n /\ ~(i <= m) /\ i - m \in 1 .. n /\ i - m + 1 \in 2 .. n + 1
    BY <1>1, <1>5
  <2> QED
    BY <2>1, <1>8, <1>7
<1> HIDE DEF q
<1>11. g[1].t = p[m].t /\ g[1].arm = p[m].arm /\ g[1].grip = p[m].grip
  BY <1>5 DEF IsAt, t0
<1>12. \A k, l \in 1 .. m + n : k < l => q[k].t < q[l].t
  <2> SUFFICES ASSUME NEW k \in 1 .. m + n, NEW l \in 1 .. m + n, k < l
               PROVE  q[k].t < q[l].t
    OBVIOUS
  <2>1. CASE l <= m
    <3>1. k \in 1 .. m /\ l \in 1 .. m
      BY <2>1, <1>1
    <3> QED
      BY <3>1, <1>1, <1>9
  <2>2. CASE m < k
    <3>1. k \in m + 1 .. m + n /\ l \in m + 1 .. m + n
      BY <2>2, <1>1, <1>5
    <3>2. /\ k - m + 1 \in 1 .. n + 1 /\ l - m + 1 \in 1 .. n + 1
          /\ k - m + 1 < l - m + 1
      BY <3>1, <1>1, <1>5
    <3>3. g[k - m + 1].t < g[l - m + 1].t
      BY <3>2, <1>5
    <3> QED
      BY <3>1, <3>3, <1>10
  <2>3. CASE k <= m /\ m < l
    <3>1. k \in 1 .. m /\ m \in 1 .. m /\ l \in m + 1 .. m + n
      BY <2>3, <1>1, <1>5
    <3>2. q[k] = p[k] /\ p[k].t <= p[m].t
      <4>1. CASE k = m
        BY <4>1, <3>1, <1>9, <1>2
      <4>2. CASE k < m
        BY <4>2, <3>1, <1>9, <1>1, <1>2
      <4> QED
        BY <2>3, <4>1, <4>2, <1>1
    <3>3. /\ l - m + 1 \in 1 .. n + 1 /\ 1 \in 1 .. n + 1 /\ 1 < l - m + 1
          /\ q[l] = g[l - m + 1]
      BY <3>1, <1>10, <1>1, <1>5
    <3>4. g[1].t < q[l].t
      BY <3>3, <1>5
    <3>5. g[l - m + 1] \in Samples
      BY <3>3, <1>5, ElementOfSeq
    <3>6. q[l].t \in Int
      BY <3>5, <3>3 DEF Samples
    <3>7. p[k].t \in Int /\ p[m].t \in Int
      BY <3>1, <1>2
    <3> QED
      BY <3>2, <3>4, <3>6, <3>7, <1>11
  <2> QED
    BY <2>1, <2>2, <2>3, <1>1
<1>13. \A k \in 1 .. (m + n) - 1 : Pair(q[k], q[k + 1])
  <2> SUFFICES ASSUME NEW k \in 1 .. (m + n) - 1
               PROVE  Pair(q[k], q[k + 1])
    OBVIOUS
  <2>1. CASE k < m
    <3>1. k \in 1 .. m - 1 /\ k \in 1 .. m /\ k + 1 \in 1 .. m
      BY <2>1, <1>1
    <3> QED
      BY <3>1, <1>1, <1>9
  <2>2. CASE m < k
    <3>1. k \in m + 1 .. m + n /\ k + 1 \in m + 1 .. m + n
      BY <2>2, <1>1, <1>5
    <3>2. k - m + 1 \in 1 .. n + 1 /\ (k + 1) - m + 1 \in 1 .. n + 1
      BY <3>1, <1>1, <1>5
    <3>3. q[k] = g[k - m + 1] /\ q[k + 1] = g[(k + 1) - m + 1]
      BY <3>1, <1>10
    <3> QED
      BY <3>2, <3>3, <1>6
  <2>3. CASE k = m
    <3>1. m \in 1 .. m /\ m + 1 \in m + 1 .. m + n /\ (m + 1) - m + 1 = 2
      BY <1>1, <1>5
    <3>2. q[m] = p[m] /\ q[m + 1] = g[2]
      BY <3>1, <1>9, <1>10
    <3>3. Pair(g[1], g[2])
      <4>1. 1 \in 1 .. n + 1 /\ 2 \in 1 .. n + 1
        BY <1>5
      <4> QED
        BY <4>1, <1>6
    <3>4. Pair(p[m], g[2])
      BY <3>3, <1>11 DEF Pair
    <3> QED
      BY <3>2, <3>4, <2>3
  <2> QED
    BY <2>1, <2>2, <2>3, <1>1
<1>14. q[1] = p[1]
  BY <1>1, <1>9
<1>15. Timed(q)
  BY <1>1, <1>5, <1>8, <1>12, <1>14 DEF Timed
<1>16. Planned(q)
  <2>1. Len(q) = m + n
    BY <1>8
  <2>2. \A k \in 1 .. Len(q) - 1 : Pair(q[k], q[k + 1])
    <3>1. Len(q) - 1 = (m + n) - 1
      BY <2>1
    <3> QED
      BY <3>1, <1>13
  <2> QED
    BY <2>2, <1>15, <1>14, <1>1 DEF Planned
<1>17. IsAt(q[Len(q)], s.to)
  <2>1. m + n \in m + 1 .. m + n /\ (m + n) - m + 1 = n + 1
    BY <1>1, <1>5
  <2>2. q[m + n] = g[n + 1]
    BY <2>1, <1>10
  <2> QED
    BY <2>2, <1>8, <1>5
<1> QED
  BY <1>4, <1>16, <1>17

-----------------------------------------------------------------------------
(***************************************************************************)
(* The plan.                                                               *)
(***************************************************************************)
\* Places and gripper angles are numbers.
LEMMA PlacesFacts ==
  /\ Places["ready"] \in Int /\ Places["aboveCube"] \in Int /\ Places["cube"] \in Int
  /\ Places["aboveGoal"] \in Int /\ Places["goal"] \in Int
  /\ Open \in Int /\ Hold \in Int /\ \A g \in Grips : g \in Int
<1>1. Places \in [ready : Int, aboveCube : Int, cube : Int, aboveGoal : Int, goal : Int]
  BY StreamingAssumption
<1>2. {Open, Hold} \cup Grips \subseteq Int
  BY StreamingAssumption
<1>3. Open \in Int /\ Hold \in Int /\ \A g \in Grips : g \in Int
  BY <1>2
<1>4. /\ Places["ready"] \in Int /\ Places["aboveCube"] \in Int /\ Places["cube"] \in Int
      /\ Places["aboveGoal"] \in Int /\ Places["goal"] \in Int
  BY <1>1
<1> QED
  BY <1>3, <1>4

\* A pose is a place and a gripper angle.
LEMMA AtFacts ==
  ASSUME NEW place, Places[place] \in Int, NEW grip \in Int
  PROVE  /\ At(place, grip) \in Poses
         /\ At(place, grip).arm = Places[place]
         /\ At(place, grip).grip = grip
  BY DEF At, Poses

\* A segment leads from a pose to a pose.
LEMMA MoveFacts ==
  ASSUME NEW a \in Poses, NEW b \in Poses, NEW d \in Nat \ {0}, NEW marker \in Int
  PROVE  /\ Move(a, b, d, marker) \in Segments
         /\ Move(a, b, d, marker).from = a
         /\ Move(a, b, d, marker).to = b
  BY DEF Move, Segments

\* Routes of one and of two segments.
LEMMA OneMove ==
  ASSUME NEW x \in Segments, Pair(x.from, x.to)
  PROVE  Route(<<x>>, x.from, x.to)
<1> DEFINE s == <<x>>
<1>1. s \in Seq(Segments) /\ Len(s) = 1 /\ s[1] = x
  OBVIOUS
<1> HIDE DEF s
<1>2. \A k \in 1 .. Len(s) : Pair(s[k].from, s[k].to)
  BY <1>1
<1>3. \A k \in 1 .. Len(s) - 1 : s[k].to = s[k + 1].from
  BY <1>1
<1>4. s[1].from = x.from /\ s[Len(s)].to = x.to
  BY <1>1
<1>5. Route(s, x.from, x.to)
  BY <1>1, <1>2, <1>3, <1>4 DEF Route
<1> QED
  BY <1>5 DEF s

\* A route that goes on.
LEMMA JoinRoutes ==
  ASSUME NEW a, NEW b, NEW c, NEW s, NEW r, Route(s, a, b), Route(r, b, c)
  PROVE  Route(s \o r, a, c)
<1> DEFINE m == Len(s)
           n == Len(r)
           q == s \o r
<1>1. /\ s \in Seq(Segments) /\ m \in Nat /\ m >= 1
      /\ s[1].from = a /\ s[m].to = b
      /\ \A k \in 1 .. m : Pair(s[k].from, s[k].to)
      /\ \A k \in 1 .. m - 1 : s[k].to = s[k + 1].from
  BY DEF Route
<1>2. /\ r \in Seq(Segments) /\ n \in Nat /\ n >= 1
      /\ r[1].from = b /\ r[n].to = c
      /\ \A k \in 1 .. n : Pair(r[k].from, r[k].to)
      /\ \A k \in 1 .. n - 1 : r[k].to = r[k + 1].from
  BY DEF Route
<1> HIDE DEF m, n
<1>3. /\ q \in Seq(Segments) /\ Len(q) = m + n
      /\ \A i \in 1 .. m + n : q[i] = IF i <= m THEN s[i] ELSE r[i - m]
  BY <1>1, <1>2, ConcatProperties DEF m, n
<1>4. \A i \in 1 .. m : q[i] = s[i]
  BY <1>1, <1>2, <1>3
<1>5. \A i \in m + 1 .. m + n : i - m \in 1 .. n /\ q[i] = r[i - m]
  <2> SUFFICES ASSUME NEW i \in m + 1 .. m + n
               PROVE  i - m \in 1 .. n /\ q[i] = r[i - m]
    OBVIOUS
  <2>1. i \in 1 .. m + n /\ ~(i <= m) /\ i - m \in 1 .. n
    BY <1>1, <1>2
  <2> QED
    BY <2>1, <1>3
<1> HIDE DEF q
<1>6. q[1].from = a
  BY <1>1, <1>4
<1>7. q[m + n].to = c
  <2>1. m + n \in m + 1 .. m + n /\ (m + n) - m = n
    BY <1>1, <1>2
  <2> QED
    BY <2>1, <1>2, <1>5
<1>8. \A k \in 1 .. m + n : Pair(q[k].from, q[k].to)
  <2> SUFFICES ASSUME NEW k \in 1 .. m + n
               PROVE  Pair(q[k].from, q[k].to)
    OBVIOUS
  <2>1. CASE k <= m
    <3>1. k \in 1 .. m
      BY <2>1, <1>1
    <3> QED
      BY <3>1, <1>1, <1>4
  <2>2. CASE m < k
    <3>1. k \in m + 1 .. m + n
      BY <2>2, <1>1, <1>2
    <3> QED
      BY <3>1, <1>2, <1>5
  <2> QED
    BY <2>1, <2>2, <1>1
<1>9. \A k \in 1 .. (m + n) - 1 : q[k].to = q[k + 1].from
  <2> SUFFICES ASSUME NEW k \in 1 .. (m + n) - 1
               PROVE  q[k].to = q[k + 1].from
    OBVIOUS
  <2>1. CASE k < m
    <3>1. k \in 1 .. m - 1 /\ k \in 1 .. m /\ k + 1 \in 1 .. m
      BY <2>1, <1>1
    <3> QED
      BY <3>1, <1>1, <1>4
  <2>2. CASE m < k
    <3>1. /\ k \in m + 1 .. m + n /\ k + 1 \in m + 1 .. m + n
          /\ k - m \in 1 .. n - 1 /\ (k + 1) - m = (k - m) + 1
      BY <2>2, <1>1, <1>2
    <3>2. q[k] = r[k - m] /\ q[k + 1] = r[(k - m) + 1]
      BY <3>1, <1>5
    <3> QED
      BY <3>1, <3>2, <1>2
  <2>3. CASE k = m
    <3>1. m \in 1 .. m /\ m + 1 \in m + 1 .. m + n /\ (m + 1) - m = 1
      BY <1>1, <1>2
    <3>2. q[m] = s[m] /\ q[m + 1] = r[1]
      BY <3>1, <1>4, <1>5
    <3> QED
      BY <3>2, <2>3, <1>1, <1>2
  <2> QED
    BY <2>1, <2>2, <2>3, <1>1
<1>10. Len(q) = m + n /\ m + n >= 1
  BY <1>1, <1>2, <1>3
<1>11. Route(q, a, c)
  BY <1>3, <1>6, <1>7, <1>8, <1>9, <1>10 DEF Route
<1> QED
  BY <1>11 DEF q

\* Two segments, the second from where the first ends.
LEMMA TwoMoves ==
  ASSUME NEW x \in Segments, Pair(x.from, x.to),
         NEW y \in Segments, Pair(y.from, y.to), x.to = y.from
  PROVE  Route(<<x, y>>, x.from, y.to)
<1>1. <<x, y>> = <<x>> \o <<y>>
  <2> DEFINE a == <<x, y>>
             b == <<x>> \o <<y>>
  <2>1. a \in Seq(Segments) /\ b \in Seq(Segments) /\ Len(a) = 2 /\ Len(b) = 2
    OBVIOUS
  <2>2. \A k \in 1 .. 2 : a[k] = b[k]
    OBVIOUS
  <2> HIDE DEF a, b
  <2>3. a = b
    BY <2>1, <2>2, SeqEqual
  <2> QED
    BY <2>3 DEF a, b
<1>2. Route(<<x>>, x.from, x.to) /\ Route(<<y>>, x.to, y.to)
  BY OneMove
<1> QED
  BY <1>1, <1>2, JoinRoutes

\* Three of them.
LEMMA ThreeMoves ==
  ASSUME NEW x \in Segments, Pair(x.from, x.to),
         NEW y \in Segments, Pair(y.from, y.to), x.to = y.from,
         NEW z \in Segments, Pair(z.from, z.to), y.to = z.from
  PROVE  Route(<<x, y, z>>, x.from, z.to)
<1>1. <<x, y, z>> = <<x, y>> \o <<z>>
  <2> DEFINE a == <<x, y, z>>
             b == <<x, y>> \o <<z>>
  <2>1. a \in Seq(Segments) /\ b \in Seq(Segments) /\ Len(a) = 3 /\ Len(b) = 3
    OBVIOUS
  <2>2. \A k \in 1 .. 3 : a[k] = b[k]
    OBVIOUS
  <2> HIDE DEF a, b
  <2>3. a = b
    BY <2>1, <2>2, SeqEqual
  <2> QED
    BY <2>3 DEF a, b
<1>2. Route(<<x, y>>, x.from, y.to) /\ Route(<<z>>, y.to, z.to)
  BY OneMove, TwoMoves
<1> QED
  BY <1>1, <1>2, JoinRoutes

\* And four.
LEMMA FourMoves ==
  ASSUME NEW w \in Segments, Pair(w.from, w.to),
         NEW x \in Segments, Pair(x.from, x.to), w.to = x.from,
         NEW y \in Segments, Pair(y.from, y.to), x.to = y.from,
         NEW z \in Segments, Pair(z.from, z.to), y.to = z.from
  PROVE  Route(<<w, x, y, z>>, w.from, z.to)
<1>1. <<w, x, y, z>> = <<w, x>> \o <<y, z>>
  <2> DEFINE a == <<w, x, y, z>>
             b == <<w, x>> \o <<y, z>>
  <2>1. a \in Seq(Segments) /\ b \in Seq(Segments) /\ Len(a) = 4 /\ Len(b) = 4
    OBVIOUS
  <2>2. \A k \in 1 .. 4 : a[k] = b[k]
    OBVIOUS
  <2> HIDE DEF a, b
  <2>3. a = b
    BY <2>1, <2>2, SeqEqual
  <2> QED
    BY <2>3 DEF a, b
<1>2. Route(<<w, x>>, w.from, x.to) /\ Route(<<y, z>>, x.to, z.to)
  BY TwoMoves
<1> QED
  BY <1>1, <1>2, JoinRoutes

\* What is left of a route after its first segment.
LEMMA RestOfRoute ==
  ASSUME NEW s, NEW a, NEW b, Route(s, a, b)
  PROVE  /\ Head(s) \in Segments /\ Head(s).from = a
         /\ Pair(Head(s).from, Head(s).to)
         /\ IF Tail(s) = <<>> THEN Head(s).to = b
            ELSE Route(Tail(s), Head(s).to, b)
<1> DEFINE m == Len(s)
           r == Tail(s)
<1>1. /\ s \in Seq(Segments) /\ m \in Nat /\ m >= 1
      /\ s[1].from = a /\ s[m].to = b
      /\ \A k \in 1 .. m : Pair(s[k].from, s[k].to)
      /\ \A k \in 1 .. m - 1 : s[k].to = s[k + 1].from
  BY DEF Route
<1>2. s # <<>>
  BY <1>1
<1>3. Head(s) = s[1]
  BY <1>1, <1>2
<1>4. /\ r \in Seq(Segments) /\ Len(r) = m - 1
      /\ \A i \in 1 .. m - 1 : r[i] = s[i + 1]
  BY <1>1, <1>2, HeadTailProperties
<1>5. Head(s) \in Segments
  BY <1>1, <1>2, HeadTailProperties
<1>6. Head(s).from = a /\ Pair(Head(s).from, Head(s).to)
  <2>1. 1 \in 1 .. m
    BY <1>1
  <2> QED
    BY <2>1, <1>1, <1>3
<1> HIDE DEF m, r
<1>7. CASE m = 1
  <2>1. r = <<>>
    BY <1>4, <1>7
  <2> QED
    BY <2>1, <1>1, <1>3, <1>5, <1>6, <1>7 DEF r
<1>8. CASE m > 1
  <2>1. r # <<>>
    BY <1>1, <1>4, <1>8
  <2>2. r[1] = s[2] /\ r[1].from = Head(s).to
    <3>1. 1 \in 1 .. m - 1
      BY <1>1, <1>8
    <3>2. r[1] = s[1 + 1] /\ s[1].to = s[1 + 1].from
      BY <3>1, <1>1, <1>4
    <3> QED
      BY <3>2, <1>3
  <2>3. r[m - 1].to = b
    <3>1. m - 1 \in 1 .. m - 1 /\ (m - 1) + 1 = m
      BY <1>1, <1>8
    <3> QED
      BY <3>1, <1>1, <1>4
  <2>4. \A k \in 1 .. m - 1 : Pair(r[k].from, r[k].to)
    <3> SUFFICES ASSUME NEW k \in 1 .. m - 1
                 PROVE  Pair(r[k].from, r[k].to)
      OBVIOUS
    <3>1. k + 1 \in 1 .. m
      BY <1>1
    <3> QED
      BY <3>1, <1>1, <1>4
  <2>5. \A k \in 1 .. (m - 1) - 1 : r[k].to = r[k + 1].from
    <3> SUFFICES ASSUME NEW k \in 1 .. (m - 1) - 1
                 PROVE  r[k].to = r[k + 1].from
      OBVIOUS
    <3>1. k \in 1 .. m - 1 /\ k + 1 \in 1 .. m - 1
      BY <1>1
    <3> QED
      BY <3>1, <1>1, <1>4
  <2>6. Len(r) = m - 1 /\ m - 1 >= 1
    BY <1>1, <1>4, <1>8
  <2>7. Route(r, Head(s).to, b)
    BY <1>4, <2>2, <2>3, <2>4, <2>5, <2>6 DEF Route
  <2> QED
    BY <2>1, <2>7, <1>5, <1>6 DEF r
<1> QED
  BY <1>1, <1>7, <1>8

\* The plan leads from where the cycle found the robot to an open gripper.
LEMMA PlanIsARoute ==
  ASSUME durations \in Durations, start \in Grips
  PROVE  Route(Plan, At("ready", start), At("ready", Open))
<1> DEFINE d == durations
           r0 == At("ready", start)
           r1 == At("ready", Open)
           c0 == At("aboveCube", Open)
           c1 == At("cube", Open)
           c2 == At("cube", Hold)
           c3 == At("aboveCube", Hold)
           g0 == At("aboveGoal", Hold)
           g1 == At("goal", Hold)
           g2 == At("goal", Open)
           g3 == At("aboveGoal", Open)
           Opening == <<Move(r0, r1, d.grip, 0)>>
           Approach == <<Move(r1, c0, d.transfer, 0), Move(c0, c1, d.vertical, 0)>>
           Carry == <<Move(c1, c2, d.grip, 1), Move(c2, c3, d.vertical, 1),
                      Move(c3, g0, d.transfer, 1), Move(g0, g1, d.vertical, 1)>>
           Return == <<Move(g1, g2, d.grip, 0), Move(g2, g3, d.vertical, 0),
                       Move(g3, r1, d.home, 0)>>
<1>1. Plan = (IF start = Open THEN <<>> ELSE Opening) \o Approach \o Carry \o Return
  BY DEF Plan, ClosesAt
<1>2. /\ d.transfer \in Nat \ {0} /\ d.vertical \in Nat \ {0}
      /\ d.grip \in Nat \ {0} /\ d.home \in Nat \ {0}
  <2>1. d \in [transfer : Nat \ {0}, vertical : Nat \ {0}, grip : Nat \ {0}, home : Nat \ {0}]
    BY StreamingAssumption
  <2> QED
    BY <2>1
<1>3. r0 \in Poses /\ r0.arm = Places["ready"] /\ r0.grip = start
  BY PlacesFacts, AtFacts
<1>4. r1 \in Poses /\ r1.arm = Places["ready"] /\ r1.grip = Open
  BY PlacesFacts, AtFacts
<1>5. c0 \in Poses /\ c0.arm = Places["aboveCube"] /\ c0.grip = Open
  BY PlacesFacts, AtFacts
<1>6. c1 \in Poses /\ c1.arm = Places["cube"] /\ c1.grip = Open
  BY PlacesFacts, AtFacts
<1>7. c2 \in Poses /\ c2.arm = Places["cube"] /\ c2.grip = Hold
  BY PlacesFacts, AtFacts
<1>8. c3 \in Poses /\ c3.arm = Places["aboveCube"] /\ c3.grip = Hold
  BY PlacesFacts, AtFacts
<1>9. g0 \in Poses /\ g0.arm = Places["aboveGoal"] /\ g0.grip = Hold
  BY PlacesFacts, AtFacts
<1>10. g1 \in Poses /\ g1.arm = Places["goal"] /\ g1.grip = Hold
  BY PlacesFacts, AtFacts
<1>11. g2 \in Poses /\ g2.arm = Places["goal"] /\ g2.grip = Open
  BY PlacesFacts, AtFacts
<1>12. g3 \in Poses /\ g3.arm = Places["aboveGoal"] /\ g3.grip = Open
  BY PlacesFacts, AtFacts
<1> HIDE DEF d, r0, r1, c0, c1, c2, c3, g0, g1, g2, g3
<1>13. /\ Pair(r1, c0) /\ Pair(c0, c1)
       /\ Pair(c2, c3) /\ Pair(c3, g0) /\ Pair(g0, g1)
       /\ Pair(g2, g3) /\ Pair(g3, r1)
  BY <1>4, <1>5, <1>6, <1>7, <1>8, <1>9, <1>10, <1>11, <1>12 DEF Pair
<1>14. Pair(c1, c2) /\ Pair(g1, g2)
  BY <1>6, <1>7, <1>10, <1>11 DEF Pair, OverPlace
<1>15. start # Open => Pair(r0, r1)
  BY <1>3, <1>4 DEF Pair, OverPlace
<1>16. Route(Approach, r1, c1)
  <2> DEFINE x == Move(r1, c0, d.transfer, 0)
             y == Move(c0, c1, d.vertical, 0)
  <2>1. x \in Segments /\ x.from = r1 /\ x.to = c0
    BY <1>2, <1>4, <1>5, MoveFacts
  <2>2. y \in Segments /\ y.from = c0 /\ y.to = c1
    BY <1>2, <1>5, <1>6, MoveFacts
  <2> HIDE DEF x, y
  <2>3. Route(<<x, y>>, r1, c1)
    BY <2>1, <2>2, <1>13, TwoMoves
  <2> QED
    BY <2>3 DEF x, y
<1>17. Route(Carry, c1, g1)
  <2> DEFINE w == Move(c1, c2, d.grip, 1)
             x == Move(c2, c3, d.vertical, 1)
             y == Move(c3, g0, d.transfer, 1)
             z == Move(g0, g1, d.vertical, 1)
  <2>1. w \in Segments /\ w.from = c1 /\ w.to = c2
    BY <1>2, <1>6, <1>7, MoveFacts
  <2>2. x \in Segments /\ x.from = c2 /\ x.to = c3
    BY <1>2, <1>7, <1>8, MoveFacts
  <2>3. y \in Segments /\ y.from = c3 /\ y.to = g0
    BY <1>2, <1>8, <1>9, MoveFacts
  <2>4. z \in Segments /\ z.from = g0 /\ z.to = g1
    BY <1>2, <1>9, <1>10, MoveFacts
  <2> HIDE DEF w, x, y, z
  <2>5. Route(<<w, x, y, z>>, c1, g1)
    BY <2>1, <2>2, <2>3, <2>4, <1>13, <1>14, FourMoves
  <2> QED
    BY <2>5 DEF w, x, y, z
<1>18. Route(Return, g1, r1)
  <2> DEFINE x == Move(g1, g2, d.grip, 0)
             y == Move(g2, g3, d.vertical, 0)
             z == Move(g3, r1, d.home, 0)
  <2>1. x \in Segments /\ x.from = g1 /\ x.to = g2
    BY <1>2, <1>10, <1>11, MoveFacts
  <2>2. y \in Segments /\ y.from = g2 /\ y.to = g3
    BY <1>2, <1>11, <1>12, MoveFacts
  <2>3. z \in Segments /\ z.from = g3 /\ z.to = r1
    BY <1>2, <1>12, <1>4, MoveFacts
  <2> HIDE DEF x, y, z
  <2>4. Route(<<x, y, z>>, g1, r1)
    BY <2>1, <2>2, <2>3, <1>13, <1>14, ThreeMoves
  <2> QED
    BY <2>4 DEF x, y, z
<1>19. start # Open => Route(Opening, r0, r1)
  <2> DEFINE x == Move(r0, r1, d.grip, 0)
  <2>1. x \in Segments /\ x.from = r0 /\ x.to = r1
    BY <1>2, <1>3, <1>4, MoveFacts
  <2> HIDE DEF x
  <2>2. start # Open => Route(<<x>>, r0, r1)
    BY <2>1, <1>15, OneMove
  <2> QED
    BY <2>2 DEF x
<1> HIDE DEF Opening, Approach, Carry, Return
<1>20. CASE start # Open
  <2>1. Route(Opening \o Approach, r0, c1)
    BY <1>16, <1>19, <1>20, JoinRoutes
  <2>2. Route((Opening \o Approach) \o Carry, r0, g1)
    BY <2>1, <1>17, JoinRoutes
  <2>3. Route(((Opening \o Approach) \o Carry) \o Return, r0, r1)
    BY <2>2, <1>18, JoinRoutes
  <2>4. Plan = ((Opening \o Approach) \o Carry) \o Return
    BY <1>1, <1>20
  <2> QED
    BY <2>3, <2>4 DEF r0, r1
<1>21. CASE start = Open
  <2>1. <<>> \o Approach = Approach
    <3>1. Approach \in Seq(Segments)
      BY <1>16 DEF Route
    <3> QED
      BY <3>1, ConcatEmptySeq
  <2>2. Route(Approach \o Carry, r1, g1)
    BY <1>16, <1>17, JoinRoutes
  <2>3. Route((Approach \o Carry) \o Return, r1, r1)
    BY <2>2, <1>18, JoinRoutes
  <2>4. Plan = (Approach \o Carry) \o Return
    BY <1>1, <1>21, <2>1
  <2>5. r0 = r1
    BY <1>21 DEF r0, r1
  <2> QED
    BY <2>3, <2>4, <2>5 DEF r0, r1
<1> QED
  BY <1>20, <1>21

-----------------------------------------------------------------------------
(***************************************************************************)
(* Paths and times.                                                        *)
(***************************************************************************)
\* The samples of a sequence of samples.
LEMMA SampleFacts ==
  ASSUME NEW p \in Seq(Samples), NEW k \in 1 .. Len(p)
  PROVE  /\ p[k] \in Samples
         /\ p[k].t \in Int /\ p[k].arm \in Int /\ p[k].grip \in Int /\ p[k].marker \in Int
<1>1. p[k] \in Samples
  BY ElementOfSeq
<1> QED
  BY <1>1 DEF Samples

\* A sample is what its fields are.
LEMMA SameSample ==
  ASSUME NEW a \in Samples, NEW b \in Samples,
         a.t = b.t, a.arm = b.arm, a.grip = b.grip, a.marker = b.marker
  PROVE  a = b
  BY DEF Samples

\* A timed path lasts: its times are from zero to its duration.
LEMMA TimedFacts ==
  ASSUME NEW p, Timed(p)
  PROVE  /\ p \in Seq(Samples) /\ Len(p) \in Nat /\ Len(p) >= 2
         /\ Duration(p) = p[Len(p)].t /\ Duration(p) \in Int /\ Duration(p) > 0
         /\ \A k \in 1 .. Len(p) : p[k].t \in Int /\ 0 <= p[k].t /\ p[k].t <= Duration(p)
         /\ \A k \in 1 .. Len(p) - 1 : p[k].t < p[k + 1].t /\ p[k].t < Duration(p)
<1> DEFINE m == Len(p)
           D == p[m].t
<1>1. /\ p \in Seq(Samples) /\ m \in Nat /\ m >= 2 /\ p[1].t = 0
      /\ \A k, l \in 1 .. m : k < l => p[k].t < p[l].t
  BY DEF Timed
<1>2. \A k \in 1 .. m : p[k].t \in Int
  BY <1>1, SampleFacts
<1>3. D \in Int /\ D > 0
  <2>1. 1 \in 1 .. m /\ m \in 1 .. m /\ 1 < m
    BY <1>1
  <2> QED
    BY <2>1, <1>1, <1>2
<1>4. ASSUME NEW k \in 1 .. m
      PROVE  0 <= p[k].t /\ p[k].t <= D
  <2>0. 1 \in 1 .. m /\ m \in 1 .. m /\ k \in Int /\ 1 <= k /\ k <= m
    BY <1>1
  <2>1. 0 <= p[k].t
    <3>1. CASE k = 1
      BY <3>1, <1>1
    <3>2. CASE 1 < k
      BY <3>2, <2>0, <1>1, <1>2
    <3> QED
      BY <3>1, <3>2, <2>0
  <2>2. p[k].t <= D
    <3>1. CASE k = m
      BY <3>1, <1>2
    <3>2. CASE k < m
      BY <3>2, <2>0, <1>1, <1>2
    <3> QED
      BY <3>1, <3>2, <2>0, <1>1
  <2> QED
    BY <2>1, <2>2
<1>5. ASSUME NEW k \in 1 .. m - 1
      PROVE  p[k].t < p[k + 1].t /\ p[k].t < D
  <2>1. k \in 1 .. m /\ k + 1 \in 1 .. m /\ m \in 1 .. m /\ k < k + 1 /\ k < m
    BY <1>1
  <2> QED
    BY <2>1, <1>1
<1> QED
  BY <1>1, <1>2, <1>3, <1>4, <1>5 DEF Duration

\* The times of a stream: the first, and each after the one before.
LEMMA TimeOfFacts ==
  ASSUME NEW d \in Int, d > 0, NEW k \in Nat \ {0}
  PROVE  /\ TimeOf(k, d) \in Int /\ 0 <= TimeOf(k, d) /\ TimeOf(k, d) <= d
         /\ TimeOf(1, d) = 0
         /\ TimeOf(k, d) <= TimeOf(k + 1, d)
         /\ TimeOf(k, d) < d <=> (k - 1) * Step < d
<1>1. Step \in Nat \ {0}
  BY StreamingAssumption
<1> DEFINE x == (k - 1) * Step
<1>2. x \in Int /\ 0 <= x
  BY <1>1, SMT
<1>3. ((k + 1) - 1) * Step = x + Step
  <2>1. (k + 1) - 1 = (k - 1) + 1
    OBVIOUS
  <2>2. ((k - 1) + 1) * Step = x + Step
    BY <1>1, OneMore
  <2> QED
    BY <2>1, <2>2
<1>4. (1 - 1) * Step = 0
  BY <1>1, SMT
<1> HIDE DEF x
<1>5. TimeOf(k, d) = IF x < d THEN x ELSE d
  BY DEF TimeOf, x
<1>6. TimeOf(k + 1, d) = IF x + Step < d THEN x + Step ELSE d
  BY <1>3 DEF TimeOf
<1>7. TimeOf(1, d) = 0
  BY <1>4 DEF TimeOf
<1>8. TimeOf(k, d) < d <=> x < d
  BY <1>2, <1>5
<1>9. TimeOf(k, d) <= TimeOf(k + 1, d)
  BY <1>1, <1>2, <1>5, <1>6
<1>10. TimeOf(k, d) \in Int /\ 0 <= TimeOf(k, d) /\ TimeOf(k, d) <= d
  BY <1>2, <1>5
<1> QED
  BY <1>7, <1>8, <1>9, <1>10 DEF x

\* The executor and the planner sample at the same rate.
LEMMA TargetIs ==
  ASSUME Timed(path), out \in Seq(Samples)
  PROVE  Target = TimeOf(Len(out) + 1, Duration(path))
<1>1. StepNow = Step /\ Step \in Nat \ {0}
  BY StreamingAssumption DEF StepNow, SendStep
<1>2. Len(out) \in Nat /\ Duration(path) \in Int
  BY TimedFacts
<1> DEFINE a == Len(out) * Step
           d == Duration(path)
<1>3. a \in Int
  BY <1>1, <1>2, SMT
<1>4. (Len(out) + 1) - 1 = Len(out)
  BY <1>2
<1>5. TimeOf(Len(out) + 1, d) = IF a < d THEN a ELSE d
  BY <1>4 DEF TimeOf
<1>6. Target = Min({a, d})
  BY <1>1 DEF Target
<1> HIDE DEF a, d
<1>7. Min({a, d}) = IF a < d THEN a ELSE d
  <2>1. d \in Int
    BY <1>2 DEF d
  <2> QED
    BY <2>1, <1>3, MinOfTwo
<1> QED
  BY <1>5, <1>6, <1>7 DEF d
-----------------------------------------------------------------------------
(***************************************************************************)
(* Interpolation.                                                          *)
(***************************************************************************)
\* The quotient is rounded down: it is less than one off.
LEMMA LerpIsNear ==
  ASSUME NEW a \in Int, NEW b \in Int, NEW w \in Nat \ {0}, NEW x \in Int
  PROVE  Lerp(a, b, w, x) \in Int /\ Near(a, b, w, x, Lerp(a, b, w, x))
<1> DEFINE y == (b - a) * x
           q == y \div w
<1>1. y \in Int
  BY SMT
<1>2. q \in Int /\ w * q <= y /\ y < w * q + w
  BY <1>1, DivMod
<1>3. y - ((a + q) - a) * w \in 0 .. w - 1
  <2> HIDE DEF q, y
  <2>1. ((a + q) - a) * w = w * q /\ w * q \in Int
    BY <1>2, SMT
  <2> QED
    BY <2>1, <1>1, <1>2
<1>4. a + q \in Int
  BY <1>2
<1>5. Lerp(a, b, w, x) = a + q
  BY DEF Lerp
<1>6. Near(a, b, w, x, a + q)
  BY <1>3 DEF Near
<1> HIDE DEF q, y
<1> QED
  BY <1>4, <1>5, <1>6

\* No way on, it is the start.
LEMMA LerpAtStart ==
  ASSUME NEW a \in Int, NEW b \in Int, NEW w \in Nat \ {0}
  PROVE  Lerp(a, b, w, 0) = a
<1>1. (b - a) * 0 = 0
  BY SMT
<1>2. 0 \div w = 0
  BY DivZero
<1> QED
  BY <1>1, <1>2 DEF Lerp

\* All the way on, it is the end.
LEMMA LerpAtEnd ==
  ASSUME NEW a \in Int, NEW b \in Int, NEW w \in Nat \ {0}
  PROVE  Lerp(a, b, w, w) = b
<1>1. b - a \in Int
  OBVIOUS
<1>2. ((b - a) * w) \div w = b - a
  BY <1>1, DivExact
<1>3. Lerp(a, b, w, w) = a + (b - a)
  BY <1>2 DEF Lerp
<1> QED
  BY <1>3

\* Between equal values nothing changes.
LEMMA LerpStands ==
  ASSUME NEW a \in Int, NEW w \in Nat \ {0}, NEW x \in Int
  PROVE  Lerp(a, a, w, x) = a
<1>1. (a - a) * x = 0
  BY SMT
<1>2. 0 \div w = 0
  BY DivZero
<1> QED
  BY <1>1, <1>2 DEF Lerp

\* A sample taken between two samples of the path.
LEMMA SampleAtFacts ==
  ASSUME Timed(path), NEW k \in 1 .. Len(path) - 1,
         NEW t \in Int, path[k].t <= t, t <= path[k + 1].t
  PROVE  LET s == SampleAt(t, k)
         IN  /\ s \in Samples /\ s.t = t
             /\ OnLine(path, s, "arm") /\ OnLine(path, s, "grip")
             /\ Pair(path[k], path[k + 1]) => SampleOK(s)
             /\ t = path[k].t => s = path[k]
             /\ t = path[k + 1].t => s = path[k + 1]
<1> DEFINE l == path[k]
           r == path[k + 1]
           A == Interpolated(l, r, "arm", t)
           G == Interpolated(l, r, "grip", t)
           M == IF t < r.t THEN l.marker ELSE r.marker
           s == SampleAt(t, k)
<1>1. s = [t |-> t, arm |-> A, grip |-> G, marker |-> M]
  BY DEF SampleAt
<1>2. /\ l \in Samples /\ l.t \in Int /\ l.arm \in Int /\ l.grip \in Int /\ l.marker \in Int
      /\ r \in Samples /\ r.t \in Int /\ r.arm \in Int /\ r.grip \in Int /\ r.marker \in Int
      /\ l.t < r.t
  <2>1. path \in Seq(Samples) /\ k \in 1 .. Len(path) /\ k + 1 \in 1 .. Len(path)
    BY TimedFacts
  <2>2. path[k].t < path[k + 1].t
    BY TimedFacts
  <2> QED
    BY <2>1, <2>2, SampleFacts
<1> DEFINE span == r.t - l.t
           y == t - l.t
<1>3. A = Lerp(l.arm, r.arm, span, y)
  BY DEF Interpolated, Lerp
<1>4. G = Lerp(l.grip, r.grip, span, y)
  BY DEF Interpolated, Lerp
<1> HIDE DEF l, r, A, G, s
<1>5. span \in Nat \ {0} /\ y \in Int
  BY <1>2
<1> HIDE DEF span, y
<1>6. /\ A \in Int /\ Near(l.arm, r.arm, span, y, A)
      /\ y = 0 => A = l.arm
      /\ y = span => A = r.arm
      /\ l.arm = r.arm => A = l.arm
  <2>1. l.arm \in Int /\ r.arm \in Int
    BY <1>2
  <2>2. /\ Lerp(l.arm, r.arm, span, y) \in Int
        /\ Near(l.arm, r.arm, span, y, Lerp(l.arm, r.arm, span, y))
    BY <2>1, <1>5, LerpIsNear
  <2>3. Lerp(l.arm, r.arm, span, 0) = l.arm
    BY <2>1, <1>5, LerpAtStart
  <2>4. Lerp(l.arm, r.arm, span, span) = r.arm
    BY <2>1, <1>5, LerpAtEnd
  <2>5. Lerp(l.arm, l.arm, span, y) = l.arm
    BY <2>1, <1>5, LerpStands
  <2> QED
    BY <2>2, <2>3, <2>4, <2>5, <1>3
<1>7. /\ G \in Int /\ Near(l.grip, r.grip, span, y, G)
      /\ y = 0 => G = l.grip
      /\ y = span => G = r.grip
      /\ l.grip = r.grip => G = l.grip
  <2>1. l.grip \in Int /\ r.grip \in Int
    BY <1>2
  <2>2. /\ Lerp(l.grip, r.grip, span, y) \in Int
        /\ Near(l.grip, r.grip, span, y, Lerp(l.grip, r.grip, span, y))
    BY <2>1, <1>5, LerpIsNear
  <2>3. Lerp(l.grip, r.grip, span, 0) = l.grip
    BY <2>1, <1>5, LerpAtStart
  <2>4. Lerp(l.grip, r.grip, span, span) = r.grip
    BY <2>1, <1>5, LerpAtEnd
  <2>5. Lerp(l.grip, l.grip, span, y) = l.grip
    BY <2>1, <1>5, LerpStands
  <2> QED
    BY <2>2, <2>3, <2>4, <2>5, <1>4
<1>8. M \in Int /\ (t = l.t => M = l.marker) /\ (t = r.t => M = r.marker)
  BY <1>2
<1> HIDE DEF M
<1>9. s \in Samples
  BY <1>1, <1>6, <1>7, <1>8 DEF Samples
<1>10. s.t = t /\ s.arm = A /\ s.grip = G /\ s.marker = M
  BY <1>1
<1>11. OnLine(path, s, "arm")
  <2>1. path[k].t <= s.t /\ s.t <= path[k + 1].t
    BY <1>10
  <2>2. s["arm"] = A /\ path[k]["arm"] = l.arm /\ path[k + 1]["arm"] = r.arm
    BY <1>10 DEF l, r
  <2>3. s.t - path[k].t = y /\ path[k + 1].t - path[k].t = span
    BY <1>10 DEF l, r, y, span
  <2>4. Near(path[k]["arm"], path[k + 1]["arm"], path[k + 1].t - path[k].t,
             s.t - path[k].t, s["arm"])
    BY <1>6, <2>2, <2>3
  <2> QED
    BY <2>1, <2>4 DEF OnLine
<1>12. OnLine(path, s, "grip")
  <2>1. path[k].t <= s.t /\ s.t <= path[k + 1].t
    BY <1>10
  <2>2. s["grip"] = G /\ path[k]["grip"] = l.grip /\ path[k + 1]["grip"] = r.grip
    BY <1>10 DEF l, r
  <2>3. s.t - path[k].t = y /\ path[k + 1].t - path[k].t = span
    BY <1>10 DEF l, r, y, span
  <2>4. Near(path[k]["grip"], path[k + 1]["grip"], path[k + 1].t - path[k].t,
             s.t - path[k].t, s["grip"])
    BY <1>7, <2>2, <2>3
  <2> QED
    BY <2>1, <2>4 DEF OnLine
<1>13. Pair(l, r) => SampleOK(s)
  BY <1>6, <1>7, <1>10 DEF Pair, SampleOK
<1>14. t = l.t => s = l
  <2> SUFFICES ASSUME t = l.t PROVE s = l
    OBVIOUS
  <2>1. y = 0
    BY <1>2 DEF y
  <2>2. A = l.arm /\ G = l.grip /\ M = l.marker
    BY <2>1, <1>6, <1>7, <1>8
  <2> QED
    BY <2>2, <1>2, <1>9, <1>10, SameSample
<1>15. t = r.t => s = r
  <2> SUFFICES ASSUME t = r.t PROVE s = r
    OBVIOUS
  <2>1. y = span
    BY DEF y, span
  <2>2. A = r.arm /\ G = r.grip /\ M = r.marker
    BY <2>1, <1>6, <1>7, <1>8
  <2> QED
    BY <2>2, <1>2, <1>9, <1>10, SameSample
<1> QED
  BY <1>9, <1>10, <1>11, <1>12, <1>13, <1>14, <1>15 DEF s, l, r

-----------------------------------------------------------------------------
(***************************************************************************)
(* Resampling.                                                             *)
(***************************************************************************)
\* Nothing is sampled yet.
LEMMA FreshStart ==
  ASSUME NEW p, Timed(p)
  PROVE  /\ Sampled(p, <<>>) /\ Prefix(<<>>, p)
         /\ SourceBehind(p, <<>>, 1) /\ Whenever(<<>>, Duration(p))
<1>1. /\ p \in Seq(Samples) /\ Len(p) \in Nat /\ Len(p) >= 2
      /\ Duration(p) \in Int /\ Duration(p) > 0
  BY TimedFacts
<1> DEFINE e == <<>>
<1>2. e \in Seq(Samples) /\ Len(e) = 0
  OBVIOUS
<1> HIDE DEF e
<1>3. \A k \in 1 .. Len(e) : FALSE
  BY <1>2
<1>4. Sampled(p, e)
  BY <1>2, <1>3 DEF Sampled, OnTime
<1>5. Prefix(e, p)
  BY <1>1, <1>2, <1>3 DEF Prefix
<1>6. SourceBehind(p, e, 1)
  <2>1. 1 \in 1 .. Len(p) - 1
    BY <1>1
  <2> QED
    BY <2>1 DEF SourceBehind
<1>7. Whenever(e, Duration(p))
  <2>1. Step \in Nat \ {0}
    BY StreamingAssumption
  <2>2. (0 - 1) * Step < 0
    BY <2>1, SMT
  <2>3. (0 - 1) * Step \in Int
    BY <2>1, SMT
  <2>4. (Len(e) - 1) * Step < Duration(p)
    BY <2>2, <2>3, <1>1, <1>2
  <2> QED
    BY <2>4 DEF Whenever
<1> QED
  BY <1>4, <1>5, <1>6, <1>7 DEF e

\* Where the target of the next sample is.
LEMMA TargetFacts ==
  ASSUME Timed(path), out \in Seq(Samples), SourceBehind(path, out, source)
  PROVE  /\ Target = TimeOf(Len(out) + 1, Duration(path))
         /\ Target \in Int /\ 0 <= Target /\ Target <= Duration(path)
         /\ source \in 1 .. Len(path) - 1
         /\ path[source].t <= Target
         /\ Behind => source + 1 \in 1 .. Len(path) - 1 /\ path[source + 1].t < Target
         /\ ~Behind => Target <= path[source + 1].t
<1> DEFINE D == Duration(path)
           n == Len(out)
<1>1. /\ Len(path) \in Nat /\ Len(path) >= 2 /\ D \in Int /\ D > 0 /\ D = path[Len(path)].t
      /\ \A k \in 1 .. Len(path) : path[k].t \in Int /\ 0 <= path[k].t /\ path[k].t <= D
  BY TimedFacts
<1>2. path[1].t = 0
  BY DEF Timed
<1>3. n + 1 \in Nat \ {0}
  <2>1. n \in Nat
    BY LenProperties
  <2> QED
    BY <2>1
<1>4. Target = TimeOf(n + 1, D)
  BY TargetIs
<1>5. source \in 1 .. Len(path) - 1 /\ (source = 1 \/ path[source].t < TimeOf(n + 1, D))
  BY DEF SourceBehind
<1>6. Behind <=> (source < Len(path) /\ path[source + 1].t < Target)
  BY DEF Behind
<1> HIDE DEF D, n
<1>7. Target \in Int /\ 0 <= Target /\ Target <= D
  BY <1>1, <1>3, <1>4, TimeOfFacts
<1>8. source \in 1 .. Len(path) /\ source + 1 \in 1 .. Len(path) /\ source < Len(path)
  BY <1>1, <1>5
<1>9. path[source].t <= Target
  <2>1. path[source].t \in Int
    BY <1>1, <1>8
  <2> QED
    BY <2>1, <1>2, <1>4, <1>5, <1>7
<1>10. path[source + 1].t \in Int
  BY <1>1, <1>8
<1>11. ~Behind => Target <= path[source + 1].t
  BY <1>6, <1>7, <1>8, <1>10
<1>12. Behind => source + 1 \in 1 .. Len(path) - 1 /\ path[source + 1].t < Target
  <2> SUFFICES ASSUME Behind
               PROVE  source + 1 \in 1 .. Len(path) - 1 /\ path[source + 1].t < Target
    OBVIOUS
  <2>1. path[source + 1].t < Target
    BY <1>6
  <2>2. source + 1 # Len(path)
    BY <2>1, <1>1, <1>7, <1>10
  <2>3. source + 1 \in 1 .. Len(path) - 1
    BY <2>2, <1>1, <1>8
  <2> QED
    BY <2>1, <2>3
<1> QED
  BY <1>4, <1>5, <1>7, <1>9, <1>11, <1>12 DEF D, n

\* A sample is emitted.
LEMMA Emitted ==
  ASSUME Timed(path), out \in Seq(Samples), SourceBehind(path, out, source),
         Whenever(out, Duration(path)), ~Behind
  PROVE  LET s == SampleAt(Target, source)
             o == Append(out, s)
             n == Len(out)
             D == Duration(path)
         IN  /\ s \in Samples /\ s.t = TimeOf(n + 1, D)
             /\ OnLine(path, s, "arm") /\ OnLine(path, s, "grip")
             /\ Pair(path[source], path[source + 1]) => SampleOK(s)
             /\ o \in Seq(Samples) /\ Len(o) = n + 1 /\ n \in Nat
             /\ \A k \in 1 .. n : o[k] = out[k]
             /\ o[n + 1] = s
             /\ n = 0 => s = path[1]
             /\ Target < D => Whenever(o, D) /\ SourceBehind(path, o, source)
             /\ Target >= D => Complete(o, D) /\ s = path[Len(path)]
<1> DEFINE s == SampleAt(Target, source)
           o == Append(out, s)
           n == Len(out)
           D == Duration(path)
<1>1. /\ Len(path) \in Nat /\ Len(path) >= 2
      /\ D = path[Len(path)].t /\ D \in Int /\ D > 0
      /\ \A k \in 1 .. Len(path) : path[k].t \in Int /\ 0 <= path[k].t /\ path[k].t <= D
      /\ \A k \in 1 .. Len(path) - 1 : path[k].t < path[k + 1].t /\ path[k].t < D
  BY TimedFacts
<1>2. path[1].t = 0
  BY DEF Timed
<1>3. /\ Target = TimeOf(n + 1, D)
      /\ Target \in Int /\ 0 <= Target /\ Target <= D
      /\ source \in 1 .. Len(path) - 1
      /\ path[source].t <= Target /\ Target <= path[source + 1].t
  BY TargetFacts
<1>4. /\ s \in Samples /\ s.t = Target
      /\ OnLine(path, s, "arm") /\ OnLine(path, s, "grip")
      /\ Pair(path[source], path[source + 1]) => SampleOK(s)
      /\ Target = path[source].t => s = path[source]
      /\ Target = path[source + 1].t => s = path[source + 1]
  BY <1>3, SampleAtFacts
<1> HIDE DEF s, D
<1>5. /\ o \in Seq(Samples) /\ Len(o) = n + 1 /\ n \in Nat
      /\ \A k \in 1 .. n : o[k] = out[k]
      /\ o[n + 1] = s
  BY <1>4, AppendProperties, LenProperties
<1>6. (n - 1) * Step < D
  BY DEF Whenever, D
<1>7. source = 1 \/ path[source].t < TimeOf(n + 1, D)
  BY DEF SourceBehind, D
<1> HIDE DEF o, n
<1>8. n + 1 \in Nat \ {0} /\ n + 2 \in Nat \ {0} /\ (n + 1) + 1 = n + 2 /\ (n + 1) - 1 = n
  BY <1>5
<1>9. /\ TimeOf(1, D) = 0
      /\ TimeOf(n + 1, D) \in Int /\ TimeOf(n + 1, D) <= TimeOf(n + 2, D)
      /\ TimeOf(n + 1, D) < D <=> n * Step < D
  BY <1>1, <1>8, TimeOfFacts
<1>10. TimeOf(n + 2, D) \in Int
  BY <1>1, <1>8, TimeOfFacts
<1>11. Step \in Nat \ {0} /\ n * Step \in Int
  <2>1. Step \in Nat \ {0}
    BY StreamingAssumption
  <2> QED
    BY <2>1, <1>5, SMT
<1>12. n = 0 => Target = 0 /\ s = path[1]
  <2> SUFFICES ASSUME n = 0 PROVE Target = 0 /\ s = path[1]
    OBVIOUS
  <2>1. Target = 0
    <3>1. n + 1 = 1
      OBVIOUS
    <3> QED
      BY <3>1, <1>3, <1>9
  <2>2. source = 1
    <3>1. path[source].t >= 0 /\ path[source].t \in Int
      <4>1. source \in 1 .. Len(path)
        BY <1>1, <1>3
      <4> QED
        BY <4>1, <1>1
    <3> QED
      BY <3>1, <2>1, <1>3, <1>7
  <2>3. s = path[source]
    BY <2>1, <2>2, <1>2, <1>4
  <2> QED
    BY <2>1, <2>2, <2>3
<1>13. Target < D => Whenever(o, D) /\ SourceBehind(path, o, source)
  <2> SUFFICES ASSUME Target < D PROVE Whenever(o, D) /\ SourceBehind(path, o, source)
    OBVIOUS
  <2>1. n * Step < D
    BY <1>3, <1>9
  <2>2. Len(o) - 1 = n /\ Len(o) + 1 = n + 2
    BY <1>5
  <2>3. Whenever(o, D)
    BY <2>1, <2>2 DEF Whenever
  <2>4. source = 1 \/ path[source].t < TimeOf(n + 2, D)
    <3>1. source \in 1 .. Len(path)
      BY <1>1, <1>3
    <3>2. path[source].t \in Int
      BY <3>1, <1>1
    <3> QED
      BY <3>2, <1>7, <1>9, <1>10
  <2>5. SourceBehind(path, o, source)
    BY <2>2, <2>4, <1>3 DEF SourceBehind, D
  <2> QED
    BY <2>3, <2>5
<1>14. Target >= D => Complete(o, D) /\ s = path[Len(path)]
  <2> SUFFICES ASSUME Target >= D PROVE Complete(o, D) /\ s = path[Len(path)]
    OBVIOUS
  <2>0. Target = D
    BY <1>1, <1>3
  <2>1. D <= n * Step
    BY <2>0, <1>1, <1>3, <1>9, <1>11
  <2>2. n # 0
    BY <2>0, <1>1, <1>12
  <2>3. Len(o) >= 2 /\ Len(o) - 1 = n /\ Len(o) - 2 = n - 1
    BY <2>2, <1>5
  <2>4. Complete(o, D)
    BY <2>1, <2>3, <1>6 DEF Complete
  <2>5. source + 1 = Len(path)
    <3> SUFFICES ASSUME source + 1 # Len(path) PROVE FALSE
      OBVIOUS
    <3>1. source + 1 \in 1 .. Len(path) - 1
      BY <1>1, <1>3
    <3>2. path[source + 1].t < D /\ path[source + 1].t \in Int
      <4>1. source + 1 \in 1 .. Len(path)
        BY <3>1, <1>1
      <4> QED
        BY <4>1, <3>1, <1>1
    <3> QED
      BY <3>2, <2>0, <1>1, <1>3
  <2>6. s = path[source + 1]
    BY <2>0, <2>5, <1>1, <1>4
  <2> QED
    BY <2>4, <2>5, <2>6
<1>15. s.t = TimeOf(n + 1, D)
  BY <1>3, <1>4
<1> QED
  BY <1>4, <1>5, <1>12, <1>13, <1>14, <1>15 DEF s, o, n, D

\* The planner's resampling.
LEMMA CheckEmits ==
  ASSUME WhileChecking, ~Behind
  PROVE  LET o == Append(out, SampleAt(Target, source))
             D == Duration(path)
         IN  /\ Sampled(path, o)
             /\ Target < D => Whenever(o, D) /\ SourceBehind(path, o, source)
             /\ Target >= D => Complete(o, D) /\ IsAt(o[Len(o)], At("ready", Open))
<1> DEFINE s == SampleAt(Target, source)
           o == Append(out, s)
           n == Len(out)
           D == Duration(path)
<1>1. /\ Timed(path) /\ out \in Seq(Samples) /\ SourceBehind(path, out, source)
      /\ Whenever(out, D)
  BY DEF WhileChecking, WhileSampling, Planned, Sampled
<1>2. /\ IsAt(path[1], At("ready", start))
      /\ \A k \in 1 .. Len(path) - 1 : Pair(path[k], path[k + 1])
      /\ IsAt(path[Len(path)], At("ready", Open))
  BY DEF WhileChecking, WhileSampling, Planned
<1>3. /\ \A k \in 1 .. n : out[k].t = TimeOf(k, D)
      /\ \A k \in 1 .. n : OnLine(path, out[k], "arm") /\ OnLine(path, out[k], "grip")
      /\ \A k \in 1 .. n : SampleOK(out[k])
      /\ n >= 1 => IsAt(out[1], At("ready", start))
  BY DEF WhileChecking, WhileSampling, Sampled, OnTime
<1>4. /\ s \in Samples /\ s.t = TimeOf(n + 1, D)
      /\ OnLine(path, s, "arm") /\ OnLine(path, s, "grip")
      /\ Pair(path[source], path[source + 1]) => SampleOK(s)
      /\ o \in Seq(Samples) /\ Len(o) = n + 1 /\ n \in Nat
      /\ \A k \in 1 .. n : o[k] = out[k]
      /\ o[n + 1] = s
      /\ n = 0 => s = path[1]
      /\ Target < D => Whenever(o, D) /\ SourceBehind(path, o, source)
      /\ Target >= D => Complete(o, D) /\ s = path[Len(path)]
  BY <1>1, Emitted
<1>5. SampleOK(s)
  <2>1. source \in 1 .. Len(path) - 1
    BY <1>1 DEF SourceBehind
  <2> QED
    BY <2>1, <1>2, <1>4
<1> HIDE DEF s, o, n, D
<1>6. \A k \in 1 .. n + 1 : k \in 1 .. n \/ k = n + 1
  BY <1>4
<1>7. \A k \in 1 .. n + 1 : o[k].t = TimeOf(k, D)
  BY <1>3, <1>4, <1>6
<1>8. \A k \in 1 .. n + 1 : OnLine(path, o[k], "arm") /\ OnLine(path, o[k], "grip")
  BY <1>3, <1>4, <1>6
<1>9. \A k \in 1 .. n + 1 : SampleOK(o[k])
  BY <1>3, <1>4, <1>5, <1>6
<1>10. IsAt(o[1], At("ready", start))
  <2>1. CASE n = 0
    <3>1. o[1] = path[1]
      BY <2>1, <1>4
    <3> QED
      BY <3>1, <1>2
  <2>2. CASE n >= 1
    <3>1. 1 \in 1 .. n
      BY <2>2, <1>4
    <3> QED
      BY <3>1, <2>2, <1>3, <1>4
  <2> QED
    BY <2>1, <2>2, <1>4
<1>11. Sampled(path, o)
  <2>1. Len(o) = n + 1 /\ o \in Seq(Samples)
    BY <1>4
  <2>2. OnTime(o, Duration(path))
    BY <2>1, <1>7 DEF OnTime, D
  <2> QED
    BY <2>1, <2>2, <1>8, <1>9, <1>10 DEF Sampled
<1>12. Target >= D => Complete(o, D) /\ IsAt(o[Len(o)], At("ready", Open))
  BY <1>2, <1>4
<1>13. Target < D => Whenever(o, D) /\ SourceBehind(path, o, source)
  BY <1>4
<1> QED
  BY <1>11, <1>12, <1>13 DEF s, o, D

\* The executor's resampling: the next sample is the next sample.
LEMMA SendEmits ==
  ASSUME WhileSending, ~Behind
  PROVE  LET o == Append(out, SampleAt(Target, source))
             D == Duration(path)
         IN  /\ Prefix(o, path)
             /\ Target < D => Whenever(o, D) /\ SourceBehind(path, o, source)
             /\ Target >= D => o = path
<1> DEFINE s == SampleAt(Target, source)
           o == Append(out, s)
           n == Len(out)
           D == Duration(path)
           m == Len(path)
<1>1. /\ Timed(path) /\ out \in Seq(Samples) /\ SourceBehind(path, out, source)
      /\ Whenever(out, D)
  BY DEF WhileSending, Validated, Prefix
<1>2. /\ \A k \in 1 .. m : path[k].t = TimeOf(k, D)
      /\ (m - 2) * Step < D /\ D <= (m - 1) * Step
  BY DEF WhileSending, Validated, OnTime, Complete
<1>3. n <= m /\ \A k \in 1 .. n : out[k] = path[k]
  BY DEF WhileSending, Prefix
<1>4. /\ path \in Seq(Samples) /\ m \in Nat /\ m >= 2 /\ D \in Int
      /\ \A k \in 1 .. m : path[k].t \in Int
      /\ \A k, l \in 1 .. m : k < l => path[k].t < path[l].t
  BY <1>1, TimedFacts DEF Timed
<1>5. /\ s \in Samples
      /\ o \in Seq(Samples) /\ Len(o) = n + 1 /\ n \in Nat
      /\ \A k \in 1 .. n : o[k] = out[k]
      /\ o[n + 1] = s
      /\ n = 0 => s = path[1]
      /\ Target < D => Whenever(o, D) /\ SourceBehind(path, o, source)
      /\ Target >= D => Complete(o, D)
  BY <1>1, Emitted
<1>6. /\ Target = TimeOf(n + 1, D) /\ Target \in Int
      /\ source \in 1 .. m - 1
      /\ path[source].t <= Target /\ Target <= path[source + 1].t
  BY <1>1, TargetFacts
<1>7. source = 1 \/ path[source].t < TimeOf(n + 1, D)
  BY <1>1 DEF SourceBehind
<1>8. Target = path[source + 1].t => s = path[source + 1]
  BY <1>1, <1>6, SampleAtFacts
<1>9. Step \in Nat \ {0}
  BY StreamingAssumption
<1>10. (n - 1) * Step < D
  BY <1>1 DEF Whenever
<1> HIDE DEF s, o, n, D, m
<1>11. n < m
  <2> SUFFICES ASSUME n = m PROVE FALSE
    BY <1>3, <1>4, <1>5
  <2>1. (m - 1) * Step \in Int
    BY <1>4, <1>9, SMT
  <2> QED
    BY <2>1, <1>2, <1>4, <1>10
<1>12. n + 1 \in 1 .. m
  BY <1>4, <1>5, <1>11
<1>13. s = path[n + 1]
  <2>1. CASE n = 0
    BY <2>1, <1>5
  <2>2. CASE n >= 1
    <3>0. source \in 1 .. m /\ source + 1 \in 1 .. m /\ source \in Int
      BY <1>4, <1>6
    <3>1. Target = path[n + 1].t
      BY <1>2, <1>6, <1>12
    <3>2. source < n + 1
      <4>1. CASE source = 1
        BY <4>1, <2>2, <1>5
      <4>2. CASE path[source].t < path[n + 1].t
        <5> SUFFICES ASSUME n + 1 <= source PROVE FALSE
          BY <3>0, <1>5
        <5>1. CASE n + 1 = source
          BY <5>1, <4>2, <3>0, <1>4
        <5>2. CASE n + 1 < source
          <6>1. path[n + 1].t < path[source].t
            BY <5>2, <3>0, <1>4, <1>12
          <6>2. path[n + 1].t \in Int /\ path[source].t \in Int
            BY <3>0, <1>4, <1>12
          <6> QED
            BY <6>1, <6>2, <4>2
        <5> QED
          BY <5>1, <5>2, <3>0, <1>5
      <4> QED
        BY <4>1, <4>2, <3>1, <1>6, <1>7
    <3>3. n + 1 <= source + 1
      <4> SUFFICES ASSUME source + 1 < n + 1 PROVE FALSE
        BY <3>0, <1>5
      <4>1. path[source + 1].t < path[n + 1].t
        BY <3>0, <1>4, <1>12
      <4>2. path[n + 1].t \in Int /\ path[source + 1].t \in Int
        BY <3>0, <1>4, <1>12
      <4>3. path[n + 1].t <= path[source + 1].t
        BY <3>1, <1>6
      <4> QED
        BY <4>1, <4>2, <4>3
    <3>4. source = n
      BY <3>0, <3>2, <3>3, <1>5
    <3> QED
      BY <3>1, <3>4, <1>8
  <2> QED
    BY <2>1, <2>2, <1>5
<1>14. \A k \in 1 .. n + 1 : o[k] = path[k]
  <2>1. \A k \in 1 .. n + 1 : k \in 1 .. n \/ k = n + 1
    BY <1>5
  <2> QED
    BY <2>1, <1>3, <1>5, <1>13
<1>15. Prefix(o, path)
  <2>1. o \in Seq(Samples) /\ Len(o) = n + 1 /\ n + 1 <= Len(path)
    BY <1>4, <1>5, <1>11 DEF m
  <2> QED
    BY <2>1, <1>14 DEF Prefix
<1>16. Target >= D => o = path
  <2> SUFFICES ASSUME Target >= D PROVE o = path
    OBVIOUS
  <2>1. D <= (Len(o) - 1) * Step
    BY <1>5 DEF Complete
  <2>2. Len(o) - 1 = n
    BY <1>5
  <2>3. D <= n * Step
    BY <2>1, <2>2
  <2>4. m = n + 1
    <3> SUFFICES ASSUME n + 1 < m PROVE FALSE
      BY <1>4, <1>5, <1>11
    <3>1. CASE n = m - 2
      <4>1. n * Step = (m - 2) * Step /\ n * Step \in Int
        BY <3>1, <1>5, <1>9, SMT
      <4> QED
        BY <4>1, <2>3, <1>2, <1>4
    <3>2. CASE n < m - 2
      <4>1. n * Step + Step <= (m - 2) * Step
        BY <3>2, <1>4, <1>5, <1>9, ProductGrows
      <4>2. n * Step \in Int /\ (m - 2) * Step \in Int
        BY <1>4, <1>5, <1>9, SMT
      <4> QED
        BY <4>1, <4>2, <2>3, <1>2, <1>4, <1>9
    <3> QED
      BY <3>1, <3>2, <1>4, <1>5
  <2>5. Len(o) = Len(path)
    BY <2>4, <1>5 DEF m
  <2>6. \A k \in 1 .. Len(o) : o[k] = path[k]
    BY <1>5, <1>14
  <2> QED
    BY <2>5, <2>6, <1>4, <1>5, SeqEqual
<1>17. Target < D => Whenever(o, D) /\ SourceBehind(path, o, source)
  BY <1>5
<1> QED
  BY <1>15, <1>16, <1>17 DEF s, o, D

-----------------------------------------------------------------------------
(***************************************************************************)
(* What the measurement accepts, and what stretching leaves.               *)
(***************************************************************************)
\* A stream whose limits fit is a validated path.
LEMMA AcceptedIsValidated ==
  ASSUME WhenMeasured, Fits(2)
  PROVE  Validated(out)
<1> DEFINE D == Duration(path)
           N == Len(out)
<1>1. D \in Int /\ D > 0
  <2>1. Timed(path)
    BY DEF WhenMeasured, WhileSampling, Planned
  <2> QED
    BY <2>1, TimedFacts
<1>2. /\ out \in Seq(Samples)
      /\ \A k \in 1 .. N : out[k].t = TimeOf(k, D)
      /\ \A k \in 1 .. N : SampleOK(out[k])
  BY DEF WhenMeasured, WhileSampling, Sampled, OnTime
<1>3. N >= 2 /\ (N - 2) * Step < D /\ D <= (N - 1) * Step
  BY DEF WhenMeasured, Complete
<1>4. WithinLimits(out)
  BY DEF Fits, WithinLimits
<1>5. N \in Nat
  BY <1>2, LenProperties
<1>6. Step \in Nat \ {0}
  BY StreamingAssumption
<1> HIDE DEF D, N
<1>7. \A k \in 1 .. N : TimeOf(k, D) \in Int /\ TimeOf(k, D) <= D
  <2> SUFFICES ASSUME NEW k \in 1 .. N
               PROVE  TimeOf(k, D) \in Int /\ TimeOf(k, D) <= D
    OBVIOUS
  <2>1. k \in Nat \ {0}
    BY <1>5
  <2> QED
    BY <2>1, <1>1, TimeOfFacts
<1>8. ASSUME NEW k \in 1 .. N - 1
      PROVE  (k - 1) * Step < D
  <2>1. CASE k - 1 = N - 2
    BY <2>1, <1>3
  <2>2. CASE k - 1 < N - 2
    <3>1. k - 1 \in Int /\ N - 2 \in Int
      BY <1>5
    <3>2. (k - 1) * Step + Step <= (N - 2) * Step
      BY <2>2, <3>1, <1>6, ProductGrows
    <3>3. (k - 1) * Step \in Int /\ (N - 2) * Step \in Int
      BY <3>1, <1>6, SMT
    <3> QED
      BY <3>2, <3>3, <1>1, <1>3, <1>6
  <2> QED
    BY <2>1, <2>2, <1>5
<1>9. ASSUME NEW k \in 1 .. N, NEW l \in 1 .. N, k < l
      PROVE  out[k].t < out[l].t
  <2>1. k \in 1 .. N - 1
    BY <1>5, <1>9
  <2>2. (k - 1) * Step < D
    BY <2>1, <1>8
  <2>3. TimeOf(k, D) = (k - 1) * Step
    BY <2>2 DEF TimeOf
  <2>4. k - 1 \in Int /\ l - 1 \in Int /\ k - 1 < l - 1
    BY <1>5, <1>9
  <2>5. (k - 1) * Step + Step <= (l - 1) * Step
    BY <2>4, <1>6, ProductGrows
  <2>6. (k - 1) * Step \in Int /\ (l - 1) * Step \in Int
    BY <2>4, <1>6, SMT
  <2>7. (k - 1) * Step < (l - 1) * Step
    BY <2>5, <2>6, <1>6
  <2>8. (k - 1) * Step < TimeOf(l, D)
    BY <2>2, <2>7 DEF TimeOf
  <2> QED
    BY <2>3, <2>8, <1>2
<1>10. out[1].t = 0
  <2>1. 1 \in 1 .. N /\ 1 \in Nat \ {0}
    BY <1>3, <1>5
  <2>2. TimeOf(1, D) = 0
    BY <2>1, <1>1, TimeOfFacts
  <2> QED
    BY <2>1, <2>2, <1>2
<1>11. Duration(out) = D
  <2>1. N \in 1 .. N
    BY <1>3, <1>5
  <2>2. (N - 1) * Step \in Int
    BY <1>5, <1>6, SMT
  <2>3. TimeOf(N, D) = D
    BY <2>2, <1>1, <1>3 DEF TimeOf
  <2> QED
    BY <2>1, <2>3, <1>2 DEF Duration, N
<1>12. Timed(out)
  BY <1>2, <1>3, <1>9, <1>10 DEF Timed, N
<1>13. OnTime(out, Duration(out)) /\ Complete(out, Duration(out))
  BY <1>2, <1>3, <1>11 DEF OnTime, Complete, N
<1>14. \A k \in 1 .. Len(out) : SampleOK(out[k])
  BY <1>2 DEF N
<1> QED
  BY <1>4, <1>12, <1>13, <1>14 DEF Validated

\* Stretching changes the times, not their order.
LEMMA StretchedIsPlanned ==
  ASSUME Planned(path), IsAt(path[Len(path)], At("ready", Open)), NEW half \in 3 .. 12
  PROVE  LET q == Stretched(half)
         IN  Planned(q) /\ IsAt(q[Len(q)], At("ready", Open))
<1> DEFINE m == Len(path)
           T(k) == (path[k].t * half) \div 2
           E(k) == [path[k] EXCEPT !.t = T(k)]
           q == Stretched(half)
<1>1. /\ path \in Seq(Samples) /\ m \in Nat /\ m >= 2
      /\ \A k \in 1 .. m : path[k].t \in Int
      /\ \A k, l \in 1 .. m : k < l => path[k].t < path[l].t
      /\ path[1].t = 0
  <2>1. Timed(path)
    BY DEF Planned
  <2>2. path \in Seq(Samples) /\ m \in Nat /\ m >= 2 /\ \A k \in 1 .. m : path[k].t \in Int
    BY <2>1, TimedFacts
  <2> QED
    BY <2>1, <2>2 DEF Timed
<1>2. /\ IsAt(path[1], At("ready", start))
      /\ \A k \in 1 .. m - 1 : Pair(path[k], path[k + 1])
  BY DEF Planned
<1>3. q = [k \in 1 .. m |-> E(k)]
  BY DEF Stretched
<1> HIDE DEF q, m
<1>4. \A k \in 1 .. m : T(k) \in Int
  <2> SUFFICES ASSUME NEW k \in 1 .. m
               PROVE  T(k) \in Int
    OBVIOUS
  <2>1. path[k].t * half \in Int
    BY <1>1, SMT
  <2>2. 2 \in Nat \ {0}
    OBVIOUS
  <2> QED
    BY <2>1, <2>2, DivMod
<1>5. ASSUME NEW k \in 1 .. m, NEW l \in 1 .. m, k < l
      PROVE  T(k) < T(l)
  <2>1. path[k].t \in Int /\ path[l].t \in Int /\ path[k].t < path[l].t
    BY <1>1, <1>5
  <2>2. half \in Nat \ {0} /\ half >= 2
    OBVIOUS
  <2>3. path[k].t * half + half <= path[l].t * half
    BY <2>1, <2>2, ProductGrows
  <2>4. path[k].t * half \in Int /\ path[l].t * half \in Int
    BY <2>1, <2>2, SMT
  <2>5. path[k].t * half + 2 <= path[l].t * half
    BY <2>2, <2>3, <2>4
  <2>6. 2 \in Nat \ {0}
    OBVIOUS
  <2> QED
    BY <2>4, <2>5, <2>6, DivStep
<1>6. T(1) = 0
  <2>1. 0 * half = 0
    BY SMT
  <2>2. 2 \in Nat \ {0}
    OBVIOUS
  <2>3. 0 \div 2 = 0
    BY <2>2, DivZero
  <2> QED
    BY <2>1, <2>3, <1>1
<1> HIDE DEF T
<1>7. \A k \in 1 .. m :
        /\ E(k) \in Samples
        /\ E(k).t = T(k) /\ E(k).arm = path[k].arm /\ E(k).grip = path[k].grip
  <2> SUFFICES ASSUME NEW k \in 1 .. m
               PROVE  /\ E(k) \in Samples
                      /\ E(k).t = T(k) /\ E(k).arm = path[k].arm /\ E(k).grip = path[k].grip
    OBVIOUS
  <2>1. path[k] \in Samples
    BY <1>1, ElementOfSeq DEF m
  <2>2. T(k) \in Int
    BY <1>4
  <2> QED
    BY <2>1, <2>2 DEF Samples
<1>8. \A k \in 1 .. m : q[k] = E(k)
  BY <1>3
<1> HIDE DEF E
<1>9. q \in Seq(Samples) /\ Len(q) = m
  <2>1. [k \in 1 .. m |-> E(k)] \in Seq(Samples)
    BY <1>1, <1>7, IsASeq
  <2>2. q \in Seq(Samples) /\ DOMAIN q = 1 .. m
    BY <2>1, <1>3
  <2>3. Len(q) \in Nat /\ DOMAIN q = 1 .. Len(q)
    BY <2>2, LenProperties
  <2> QED
    BY <2>2, <2>3, <1>1
<1>10. \A k \in 1 .. m : q[k].t = T(k) /\ q[k].arm = path[k].arm /\ q[k].grip = path[k].grip
  BY <1>7, <1>8
<1>11. 1 \in 1 .. m /\ m \in 1 .. m
  BY <1>1
<1>12. Timed(q)
  <2>1. q[1].t = 0
    BY <1>6, <1>10, <1>11
  <2>2. \A k, l \in 1 .. m : k < l => q[k].t < q[l].t
    BY <1>5, <1>10
  <2> QED
    BY <2>1, <2>2, <1>1, <1>9 DEF Timed
<1>13. \A k \in 1 .. m - 1 : Pair(q[k], q[k + 1])
  <2> SUFFICES ASSUME NEW k \in 1 .. m - 1
               PROVE  Pair(q[k], q[k + 1])
    OBVIOUS
  <2>1. k \in 1 .. m /\ k + 1 \in 1 .. m
    BY <1>1
  <2>2. /\ q[k].arm = path[k].arm /\ q[k].grip = path[k].grip
        /\ q[k + 1].arm = path[k + 1].arm /\ q[k + 1].grip = path[k + 1].grip
    BY <2>1, <1>10
  <2>3. Pair(path[k], path[k + 1])
    BY <1>2
  <2> QED
    BY <2>2, <2>3 DEF Pair
<1>14. IsAt(q[1], At("ready", start))
  BY <1>2, <1>10, <1>11 DEF IsAt
<1>15. IsAt(q[m], At("ready", Open))
  BY <1>10, <1>11 DEF IsAt, m
<1>16. Planned(q)
  BY <1>9, <1>12, <1>13, <1>14 DEF Planned
<1> QED
  BY <1>9, <1>15, <1>16 DEF q

-----------------------------------------------------------------------------
(***************************************************************************)
(* The start of a cycle stays what it was, so what is said of a path and   *)
(* of a stream stays so.                                                   *)
(***************************************************************************)
\* A planned path.
LEMMA NextPlanned ==
  ASSUME start' = start, NEW p, Planned(p), path' = p
  PROVE  Planned(path)'
  BY DEF Planned, Pair, OverPlace

\* A stream sampled from it.
LEMMA NextSampled ==
  ASSUME start' = start, NEW p, NEW o, Sampled(p, o), path' = p, out' = o
  PROVE  Sampled(path, out)'
  BY DEF Sampled, SampleOK, OverPlace

\* A validated path.
LEMMA NextValidated ==
  ASSUME start' = start, NEW p, Validated(p), path' = p
  PROVE  Validated(path)'
  BY DEF Validated, SampleOK, OverPlace

\* What is left of the plan.
LEMMA NextRoute ==
  ASSUME start' = start, NEW p, NEW r, Route(r, EndPose(p), At("ready", Open)),
         path' = p, moves' = r
  PROVE  Route(moves, EndPose(path), At("ready", Open))'
  BY DEF Route, Pair, OverPlace

-----------------------------------------------------------------------------
(***************************************************************************)
(* The invariant.                                                          *)
(***************************************************************************)
\* A request starts with the whole plan ahead and nothing sampled.
THEOREM StreamingStarts == Init => StreamingInv
<1> SUFFICES ASSUME Init PROVE StreamingInv
  OBVIOUS
<1>1. /\ pc = "plan" /\ durations \in Durations /\ start \in Grips
      /\ moves = Plan /\ path = <<>> /\ out = <<>> /\ source = 1 /\ passes = 0
  BY DEF Init
<1>2. Route(moves, At("ready", start), At("ready", Open))
  BY <1>1, PlanIsARoute
<1>3. WhilePlanning
  BY <1>1, <1>2 DEF WhilePlanning
<1> QED
  BY <1>1, <1>3 DEF StreamingInv, Rounds

\* One segment is appended.
LEMMA PlanKeeps ==
  ASSUME StreamingInv, MakePlan
  PROVE  StreamingInv'
<1> DEFINE s == Head(moves)
           q == AppendSegment(path, s)
           r == Tail(moves)
<1>1. /\ pc = "plan" /\ path' = q /\ moves' = r
      /\ pc' = IF moves' = <<>> THEN "check" ELSE "plan"
      /\ durations' = durations /\ start' = start /\ out' = out
      /\ source' = source /\ passes' = passes
  BY DEF MakePlan
<1>2. WhilePlanning
  BY <1>1 DEF StreamingInv
<1>3. out = <<>> /\ source = 1
  BY <1>2 DEF WhilePlanning
<1>4. /\ Planned(q) /\ IsAt(q[Len(q)], s.to) /\ s \in Segments
      /\ IF r = <<>> THEN s.to = At("ready", Open)
         ELSE Route(r, s.to, At("ready", Open))
  <2>1. CASE path = <<>>
    <3>1. Route(moves, At("ready", start), At("ready", Open))
      BY <2>1, <1>2 DEF WhilePlanning
    <3>2. /\ s \in Segments /\ s.from = At("ready", start) /\ Pair(s.from, s.to)
          /\ IF r = <<>> THEN s.to = At("ready", Open)
             ELSE Route(r, s.to, At("ready", Open))
      BY <3>1, RestOfRoute
    <3> HIDE DEF s
    <3>3. Planned(AppendSegment(<<>>, s))
          /\ IsAt(AppendSegment(<<>>, s)[Len(AppendSegment(<<>>, s))], s.to)
      BY <3>2, FirstSegment
    <3> QED
      BY <2>1, <3>2, <3>3
  <2>2. CASE path # <<>>
    <3>1. Planned(path) /\ Route(moves, EndPose(path), At("ready", Open))
      BY <2>2, <1>2 DEF WhilePlanning
    <3>2. /\ s \in Segments /\ s.from = EndPose(path) /\ Pair(s.from, s.to)
          /\ IF r = <<>> THEN s.to = At("ready", Open)
             ELSE Route(r, s.to, At("ready", Open))
      BY <3>1, RestOfRoute
    <3>3. IsAt(path[Len(path)], s.from)
      BY <3>2 DEF IsAt, EndPose
    <3> HIDE DEF s
    <3>4. Planned(q) /\ IsAt(q[Len(q)], s.to)
      BY <3>1, <3>2, <3>3, NextSegment
    <3> QED
      BY <3>2, <3>4
  <2> QED
    BY <2>1, <2>2
<1> HIDE DEF q, r, s
<1>5. Planned(path)'
  BY <1>1, <1>4, NextPlanned
<1>6. Timed(q) /\ q \in Seq(Samples) /\ q # <<>>
  <2>1. Timed(q)
    BY <1>4 DEF Planned
  <2>2. q \in Seq(Samples) /\ Len(q) >= 2
    BY <2>1 DEF Timed
  <2> QED
    BY <2>1, <2>2
<1>7. CASE r = <<>>
  <2>1. pc' = "check"
    BY <1>1, <1>7
  <2>2. IsAt(path[Len(path)], At("ready", Open))'
    BY <1>1, <1>4, <1>7
  <2>3. /\ Sampled(q, <<>>)
        /\ SourceBehind(q, <<>>, 1) /\ Whenever(<<>>, Duration(q))
    BY <1>6, FreshStart
  <2>4. out' = <<>> /\ source' = 1
    BY <1>1, <1>3
  <2>5. Sampled(path, out)'
    BY <2>3, <2>4, <1>1, NextSampled
  <2>6. SourceBehind(path, out, source)' /\ Whenever(out, Duration(path))'
    BY <2>3, <2>4, <1>1
  <2>7. WhileChecking'
    BY <2>2, <2>5, <2>6, <1>5 DEF WhileChecking, WhileSampling
  <2> QED
    BY <2>1, <2>7, <1>1 DEF StreamingInv, Rounds
<1>8. CASE r # <<>>
  <2>1. pc' = "plan"
    BY <1>1, <1>8
  <2>2. s.to = EndPose(q)
    <3>1. s.to \in Poses
      BY <1>4 DEF Segments
    <3>2. s.to = [arm |-> s.to.arm, grip |-> s.to.grip]
      BY <3>1 DEF Poses
    <3> QED
      BY <3>2, <1>4 DEF IsAt, EndPose
  <2>3. Route(moves, EndPose(path), At("ready", Open))'
    BY <2>2, <1>1, <1>4, <1>8, NextRoute
  <2>4. WhilePlanning'
    BY <2>3, <1>1, <1>3, <1>5, <1>6 DEF WhilePlanning
  <2> QED
    BY <2>1, <2>4, <1>1 DEF StreamingInv, Rounds
<1> QED
  BY <1>7, <1>8

\* source moves on, to a sample that is before the target.
LEMMA AdvanceKeeps ==
  ASSUME StreamingInv, Advance, pc = "check" \/ pc = "send"
  PROVE  StreamingInv'
<1>1. /\ Behind /\ source' = source + 1
      /\ pc' = pc /\ durations' = durations /\ start' = start /\ moves' = moves
      /\ path' = path /\ out' = out /\ passes' = passes
  BY DEF Advance
<1>2. Timed(path) /\ out \in Seq(Samples) /\ SourceBehind(path, out, source)
  <2>1. CASE pc = "check"
    BY <2>1 DEF StreamingInv, WhileChecking, WhileSampling, Planned, Sampled
  <2>2. CASE pc = "send"
    BY <2>2 DEF StreamingInv, WhileSending, Validated, Prefix
  <2> QED
    BY <2>1, <2>2
<1>3. /\ source + 1 \in 1 .. Len(path) - 1
      /\ path[source + 1].t < TimeOf(Len(out) + 1, Duration(path))
      /\ source \in 1 .. Len(path) - 1
  BY <1>1, <1>2, TargetFacts
<1>4. SourceBehind(path, out, source)'
  BY <1>1, <1>3 DEF SourceBehind
<1>5. source + 1 \in Nat \ {0}
  BY <1>3
<1>6. CASE pc = "check"
  <2>1. WhileChecking
    BY <1>6 DEF StreamingInv
  <2>2. Planned(path) /\ Sampled(path, out) /\ IsAt(path[Len(path)], At("ready", Open))
        /\ Whenever(out, Duration(path))
    BY <2>1 DEF WhileChecking, WhileSampling
  <2>3. Planned(path)' /\ Sampled(path, out)'
    BY <2>2, <1>1, NextPlanned, NextSampled
  <2>4. IsAt(path[Len(path)], At("ready", Open))' /\ Whenever(out, Duration(path))'
    BY <2>2, <1>1
  <2>5. WhileChecking'
    BY <2>3, <2>4, <1>4 DEF WhileChecking, WhileSampling
  <2> QED
    BY <2>5, <1>1, <1>5, <1>6 DEF StreamingInv, Rounds
<1>7. CASE pc = "send"
  <2>1. Validated(path) /\ Prefix(out, path) /\ Whenever(out, Duration(path))
    BY <1>7 DEF StreamingInv, WhileSending
  <2>2. Validated(path)'
    BY <2>1, <1>1, NextValidated
  <2>3. Prefix(out, path)' /\ Whenever(out, Duration(path))'
    BY <2>1, <1>1
  <2>4. WhileSending'
    BY <2>2, <2>3, <1>4 DEF WhileSending
  <2> QED
    BY <2>4, <1>1, <1>5, <1>7 DEF StreamingInv, Rounds
<1> QED
  BY <1>6, <1>7

\* The planner's samples.
LEMMA CheckKeeps ==
  ASSUME StreamingInv, Check
  PROVE  StreamingInv'
<1>1. CASE Advance
  BY <1>1, AdvanceKeeps DEF Check
<1>2. CASE Emit("measure")
  <2> DEFINE o == Append(out, SampleAt(Target, source))
             D == Duration(path)
  <2>1. /\ pc = "check" /\ ~Behind /\ out' = o
        /\ pc' = IF Target >= D THEN "measure" ELSE pc
        /\ durations' = durations /\ start' = start /\ moves' = moves
        /\ path' = path /\ source' = source /\ passes' = passes
    BY <1>2 DEF Check, Emit
  <2>2. WhileChecking
    BY <2>1 DEF StreamingInv
  <2>3. /\ Sampled(path, o)
        /\ Target < D => Whenever(o, D) /\ SourceBehind(path, o, source)
        /\ Target >= D => Complete(o, D) /\ IsAt(o[Len(o)], At("ready", Open))
    BY <2>1, <2>2, CheckEmits
  <2>4. Planned(path) /\ IsAt(path[Len(path)], At("ready", Open))
    BY <2>2 DEF WhileChecking, WhileSampling
  <2>5. Target \in Int /\ D \in Int
    <3>1. Timed(path) /\ out \in Seq(Samples) /\ SourceBehind(path, out, source)
      BY <2>2 DEF WhileChecking, WhileSampling, Planned, Sampled
    <3> QED
      BY <3>1, TargetFacts, TimedFacts
  <2> HIDE DEF o
  <2>6. Planned(path)' /\ Sampled(path, out)'
    BY <2>1, <2>3, <2>4, NextPlanned, NextSampled
  <2>7. IsAt(path[Len(path)], At("ready", Open))'
    BY <2>1, <2>4
  <2>8. WhileSampling'
    BY <2>6, <2>7 DEF WhileSampling
  <2>9. CASE Target >= D
    <3>1. pc' = "measure"
      BY <2>1, <2>9
    <3>2. Complete(out, Duration(path))' /\ IsAt(out[Len(out)], At("ready", Open))'
      BY <2>1, <2>3, <2>9
    <3>3. WhenMeasured'
      BY <3>2, <2>8 DEF WhenMeasured
    <3> QED
      BY <3>1, <3>3, <2>1 DEF StreamingInv, Rounds
  <2>10. CASE Target < D
    <3>1. pc' = "check"
      BY <2>1, <2>5, <2>10
    <3>2. Whenever(out, Duration(path))' /\ SourceBehind(path, out, source)'
      BY <2>1, <2>3, <2>10
    <3>3. WhileChecking'
      BY <3>2, <2>8 DEF WhileChecking
    <3> QED
      BY <3>1, <3>3, <2>1 DEF StreamingInv, Rounds
  <2> QED
    BY <2>5, <2>9, <2>10
<1> QED
  BY <1>1, <1>2 DEF Check, Resample

\* The executor's samples.
LEMMA SendKeeps ==
  ASSUME StreamingInv, Send
  PROVE  StreamingInv'
<1>1. CASE Advance
  BY <1>1, AdvanceKeeps DEF Send
<1>2. CASE Emit("sent")
  <2> DEFINE o == Append(out, SampleAt(Target, source))
             D == Duration(path)
  <2>1. /\ pc = "send" /\ ~Behind /\ out' = o
        /\ pc' = IF Target >= D THEN "sent" ELSE pc
        /\ durations' = durations /\ start' = start /\ moves' = moves
        /\ path' = path /\ source' = source /\ passes' = passes
    BY <1>2 DEF Send, Emit
  <2>2. WhileSending
    BY <2>1 DEF StreamingInv
  <2>3. /\ Prefix(o, path)
        /\ Target < D => Whenever(o, D) /\ SourceBehind(path, o, source)
        /\ Target >= D => o = path
    BY <2>1, <2>2, SendEmits
  <2>4. Validated(path)'
    <3>1. Validated(path)
      BY <2>2 DEF WhileSending
    <3> QED
      BY <3>1, <2>1, NextValidated
  <2>5. Target \in Int /\ D \in Int
    <3>1. Timed(path) /\ out \in Seq(Samples) /\ SourceBehind(path, out, source)
      BY <2>2 DEF WhileSending, Validated, Prefix
    <3> QED
      BY <3>1, TargetFacts, TimedFacts
  <2> HIDE DEF o
  <2>6. CASE Target >= D
    <3>1. pc' = "sent"
      BY <2>1, <2>6
    <3>2. out' = path'
      BY <2>1, <2>3, <2>6
    <3>3. WhenSent'
      BY <3>2, <2>4 DEF WhenSent
    <3> QED
      BY <3>1, <3>3, <2>1 DEF StreamingInv, Rounds
  <2>7. CASE Target < D
    <3>1. pc' = "send"
      BY <2>1, <2>5, <2>7
    <3>2. /\ Whenever(out, Duration(path))' /\ SourceBehind(path, out, source)'
          /\ Prefix(out, path)'
      BY <2>1, <2>3, <2>7
    <3>3. WhileSending'
      BY <3>2, <2>4 DEF WhileSending
    <3> QED
      BY <3>1, <3>3, <2>1 DEF StreamingInv, Rounds
  <2> QED
    BY <2>5, <2>6, <2>7
<1> QED
  BY <1>1, <1>2 DEF Send, Resample

\* Accepted, stretched or rejected.
LEMMA MeasureKeeps ==
  ASSUME StreamingInv, Measure
  PROVE  StreamingInv'
<1>1. /\ pc = "measure" /\ out' = <<>> /\ source' = 1
      /\ durations' = durations /\ start' = start /\ moves' = moves
  BY DEF Measure
<1>2. WhenMeasured
  BY <1>1 DEF StreamingInv
<1>3. CASE Fits(2) /\ pc' = "send" /\ path' = out /\ passes' = passes
  <2>1. Validated(out)
    BY <1>2, <1>3, AcceptedIsValidated
  <2>2. Validated(path)'
    BY <2>1, <1>1, <1>3, NextValidated
  <2>3. /\ Prefix(<<>>, out)
        /\ SourceBehind(out, <<>>, 1) /\ Whenever(<<>>, Duration(out))
    <3>1. Timed(out)
      BY <2>1 DEF Validated
    <3> QED
      BY <3>1, FreshStart
  <2>4. /\ Prefix(out, path)'
        /\ SourceBehind(path, out, source)' /\ Whenever(out, Duration(path))'
    BY <2>3, <1>1, <1>3
  <2>5. WhileSending'
    BY <2>2, <2>4 DEF WhileSending
  <2> QED
    BY <2>5, <1>1, <1>3 DEF StreamingInv, Rounds
<1>4. CASE /\ passes < Rounds /\ Halves # {}
           /\ pc' = "check" /\ path' = Stretched(Min(Halves)) /\ passes' = passes + 1
  <2> DEFINE half == Min(Halves)
             q == Stretched(half)
  <2>1. half \in 3 .. 12
    <3>1. Halves \in SUBSET (3 .. MaxHalves)
      BY DEF Halves
    <3>2. half \in Halves
      BY <3>1, <1>4, MinOfSome
    <3> QED
      BY <3>1, <3>2 DEF MaxHalves
  <2> HIDE DEF half
  <2>2. Planned(path) /\ IsAt(path[Len(path)], At("ready", Open))
    BY <1>2 DEF WhenMeasured, WhileSampling
  <2>3. Planned(q) /\ IsAt(q[Len(q)], At("ready", Open))
    BY <2>1, <2>2, StretchedIsPlanned
  <2>4. path' = q
    BY <1>4 DEF half
  <2> HIDE DEF q
  <2>5. Planned(path)'
    BY <2>3, <2>4, <1>1, NextPlanned
  <2>6. IsAt(path[Len(path)], At("ready", Open))'
    BY <2>3, <2>4
  <2>7. /\ Sampled(q, <<>>)
        /\ SourceBehind(q, <<>>, 1) /\ Whenever(<<>>, Duration(q))
    <3>1. Timed(q)
      BY <2>3 DEF Planned
    <3> QED
      BY <3>1, FreshStart
  <2>8. Sampled(path, out)'
    BY <2>4, <2>7, <1>1, NextSampled
  <2>9. SourceBehind(path, out, source)' /\ Whenever(out, Duration(path))'
    BY <2>4, <2>7, <1>1
  <2>10. WhileChecking'
    BY <2>5, <2>6, <2>8, <2>9 DEF WhileChecking, WhileSampling
  <2>11. passes' \in 0 .. Rounds
    BY <1>4 DEF StreamingInv, Rounds
  <2> QED
    BY <2>10, <2>11, <1>1, <1>4 DEF StreamingInv
<1>5. CASE pc' = "rejected" /\ path' = path /\ passes' = passes
  BY <1>1, <1>5 DEF StreamingInv, Rounds
<1> QED
  BY <1>3, <1>4, <1>5 DEF Measure

\* Nothing happens.
LEMMA StutterKeeps ==
  ASSUME StreamingInv, UNCHANGED vars
  PROVE  StreamingInv'
<1>1. /\ pc' = pc /\ durations' = durations /\ start' = start /\ moves' = moves
      /\ path' = path /\ out' = out /\ source' = source /\ passes' = passes
  BY DEF vars
<1>2. (pc = "plan" => WhilePlanning) => (pc = "plan" => WhilePlanning)'
  BY <1>1 DEF WhilePlanning, Planned, Route, Pair, OverPlace
<1>3. WhileSampling => WhileSampling'
  <2> SUFFICES ASSUME WhileSampling PROVE WhileSampling'
    OBVIOUS
  <2>1. Planned(path)' /\ Sampled(path, out)'
    BY <1>1, NextPlanned, NextSampled DEF WhileSampling
  <2> QED
    BY <2>1, <1>1 DEF WhileSampling
<1>4. (pc = "check" => WhileChecking) => (pc = "check" => WhileChecking)'
  BY <1>1, <1>3 DEF WhileChecking
<1>5. (pc = "measure" => WhenMeasured) => (pc = "measure" => WhenMeasured)'
  BY <1>1, <1>3 DEF WhenMeasured
<1>6. Validated(path) => Validated(path)'
  BY <1>1, NextValidated
<1>7. (pc = "send" => WhileSending) => (pc = "send" => WhileSending)'
  BY <1>1, <1>6 DEF WhileSending
<1>8. (pc = "sent" => WhenSent) => (pc = "sent" => WhenSent)'
  BY <1>1, <1>6 DEF WhenSent
<1> QED
  BY <1>1, <1>2, <1>4, <1>5, <1>7, <1>8 DEF StreamingInv

\* Every step keeps the invariant.
THEOREM StreamingStep == StreamingInv /\ [Next]_vars => StreamingInv'
<1> SUFFICES ASSUME StreamingInv, [Next]_vars
             PROVE  StreamingInv'
  OBVIOUS
<1>1. CASE MakePlan
  BY <1>1, PlanKeeps
<1>2. CASE Check
  BY <1>2, CheckKeeps
<1>3. CASE Measure
  BY <1>3, MeasureKeeps
<1>4. CASE Send
  BY <1>4, SendKeeps
<1>5. CASE Finished
  BY <1>5, StutterKeeps DEF Finished
<1>6. CASE UNCHANGED vars
  BY <1>6, StutterKeeps
<1> QED
  BY <1>1, <1>2, <1>3, <1>4, <1>5, <1>6 DEF Next

\* The invariant holds of every behaviour.
THEOREM StreamingSafe == Spec => []StreamingInv
  BY StreamingStarts, StreamingStep, PTL DEF Spec

-----------------------------------------------------------------------------
(***************************************************************************)
(* What the runs check.                                                    *)
(***************************************************************************)
\* The line a sample lies on, as the property says it.
LEMMA OnLineIsOnPath ==
  ASSUME NEW s, NEW f, OnLine(path, s, f)
  PROVE  OnPath(s, f)
<1>1. PICK k \in 1 .. Len(path) - 1 :
        /\ path[k].t <= s.t /\ s.t <= path[k + 1].t
        /\ Near(path[k][f], path[k + 1][f], path[k + 1].t - path[k].t, s.t - path[k].t, s[f])
  BY DEF OnLine
<1>2. (path[k + 1][f] - path[k][f]) * (s.t - path[k].t)
        - (s[f] - path[k][f]) * (path[k + 1].t - path[k].t)
        \in 0 .. (path[k + 1].t - path[k].t) - 1
  BY <1>1 DEF Near
<1> QED
  BY <1>1, <1>2 DEF OnPath

\* The times of a complete stream are zero, every step and the end.
LEMMA TimesOfComplete ==
  ASSUME NEW o \in Seq(Samples), NEW d \in Int, d > 0, OnTime(o, d), Complete(o, d)
  PROVE  {o[k].t : k \in DOMAIN o} = {t \in 0 .. d : t % Step = 0} \cup {d}
<1> DEFINE n == Len(o)
<1>1. /\ \A k \in 1 .. n : o[k].t = TimeOf(k, d)
      /\ n >= 2 /\ d <= (n - 1) * Step
  BY DEF OnTime, Complete
<1>2. n \in Nat /\ DOMAIN o = 1 .. n
  BY LenProperties
<1>3. Step \in Nat \ {0}
  BY StreamingAssumption
<1> HIDE DEF n
<1>4. (n - 1) * Step \in Int
  BY <1>2, <1>3, SMT
<1>5. ASSUME NEW k \in 1 .. n
      PROVE  o[k].t \in {t \in 0 .. d : t % Step = 0} \cup {d}
  <2> DEFINE q == k - 1
             t == q * Step
  <2>1. q \in Nat
    BY <1>2
  <2>2. o[k].t = IF t < d THEN t ELSE d
    BY <1>1 DEF TimeOf
  <2>3. t \in Int /\ 0 <= t
    <3> HIDE DEF q
    <3> QED
      BY <2>1, <1>3, SMT
  <2>4. t % Step = 0
    <3> HIDE DEF q
    <3>1. t \div Step = q
      BY <2>1, <1>3, DivExact
    <3>2. t % Step = t - Step * (t \div Step)
      BY <2>3, <1>3, SMT
    <3>3. Step * q = t
      BY <2>1, <1>3, SMT
    <3> HIDE DEF t
    <3>4. t % Step = t - t
      BY <3>1, <3>2, <3>3
    <3> QED
      BY <3>4, <2>3
  <2> HIDE DEF t
  <2> QED
    BY <2>2, <2>3, <2>4
<1>6. ASSUME NEW t \in 0 .. d, t % Step = 0
      PROVE  \E k \in 1 .. n : o[k].t = t
  <2> DEFINE q == t \div Step
  <2>1. q \in Int /\ Step * q <= t /\ t < Step * q + Step
    BY <1>3, DivMod
  <2>2. t % Step = t - Step * q
    BY <1>3, SMT
  <2> HIDE DEF q
  <2>3. t = q * Step
    <3>1. Step * q = q * Step /\ Step * q \in Int
      BY <2>1, <1>3, SMT
    <3>2. t - Step * q = 0
      BY <2>2, <1>6
    <3> QED
      BY <3>1, <3>2
  <2>4. q >= 0
    <3> SUFFICES ASSUME q < 0 PROVE FALSE
      BY <2>1
    <3>1. q * Step + Step <= 0 * Step
      BY <2>1, <1>3, ProductGrows
    <3>2. 0 * Step = 0 /\ q * Step \in Int
      BY <2>1, <1>3, SMT
    <3> QED
      BY <3>1, <3>2, <2>3, <1>3
  <2>5. q <= n - 1
    <3> SUFFICES ASSUME n - 1 < q PROVE FALSE
      BY <2>1, <1>2
    <3>1. n - 1 \in Int
      BY <1>2
    <3>2. (n - 1) * Step + Step <= q * Step
      BY <3>1, <2>1, <1>3, ProductGrows
    <3>3. d + Step <= t
      BY <3>2, <2>3, <1>1, <1>3, <1>4
    <3> QED
      BY <3>3, <1>3
  <2>6. q + 1 \in 1 .. n /\ (q + 1) - 1 = q
    BY <2>1, <2>4, <2>5, <1>2
  <2>7. TimeOf(q + 1, d) = t
    BY <2>3, <2>6 DEF TimeOf
  <2> QED
    BY <2>6, <2>7, <1>1
<1>7. \E k \in 1 .. n : o[k].t = d
  <2>1. n \in 1 .. n
    BY <1>1, <1>2
  <2>2. TimeOf(n, d) = d
    BY <1>1, <1>4 DEF TimeOf
  <2> QED
    BY <2>1, <2>2, <1>1
<1>8. \A t \in {t \in 0 .. d : t % Step = 0} \cup {d} : \E k \in 1 .. n : o[k].t = t
  BY <1>6, <1>7
<1> QED
  BY <1>2, <1>5, <1>8

\* The stream that is measured is the path, sampled at every step and at the
\* end, whatever the durations, the rate and the places: resample_trajectory.
THEOREM FollowsPath == Spec => []StreamFollowsPath
<1>1. StreamingInv => StreamFollowsPath
  <2> SUFFICES ASSUME StreamingInv, pc = "measure"
               PROVE  /\ {out[k].t : k \in DOMAIN out}
                           = {t \in 0 .. Duration(path) : t % Step = 0} \cup {Duration(path)}
                      /\ \A k \in DOMAIN out : OnPath(out[k], "arm") /\ OnPath(out[k], "grip")
                      /\ out[1].arm = Places["ready"] /\ out[1].grip = start
                      /\ out[Len(out)].arm = Places["ready"] /\ out[Len(out)].grip = Open
    BY DEF StreamFollowsPath
  <2>1. /\ Timed(path) /\ Sampled(path, out) /\ Complete(out, Duration(path))
        /\ IsAt(out[Len(out)], At("ready", Open))
    BY DEF StreamingInv, WhenMeasured, WhileSampling, Planned
  <2>2. /\ out \in Seq(Samples) /\ OnTime(out, Duration(path))
        /\ \A k \in 1 .. Len(out) : OnLine(path, out[k], "arm") /\ OnLine(path, out[k], "grip")
        /\ Len(out) >= 1 => IsAt(out[1], At("ready", start))
    BY <2>1 DEF Sampled
  <2>3. Duration(path) \in Int /\ Duration(path) > 0
    BY <2>1, TimedFacts
  <2>4. {out[k].t : k \in DOMAIN out}
          = {t \in 0 .. Duration(path) : t % Step = 0} \cup {Duration(path)}
    BY <2>1, <2>2, <2>3, TimesOfComplete
  <2>5. DOMAIN out = 1 .. Len(out) /\ Len(out) >= 1
    <3>1. DOMAIN out = 1 .. Len(out) /\ Len(out) \in Nat
      BY <2>2, LenProperties
    <3>2. Len(out) >= 2
      BY <2>1 DEF Complete
    <3> QED
      BY <3>1, <3>2
  <2>6. \A k \in DOMAIN out : OnPath(out[k], "arm") /\ OnPath(out[k], "grip")
    BY <2>2, <2>5, OnLineIsOnPath
  <2>7. out[1].arm = Places["ready"] /\ out[1].grip = start
    BY <2>2, <2>5 DEF IsAt, At
  <2>8. out[Len(out)].arm = Places["ready"] /\ out[Len(out)].grip = Open
    BY <2>1 DEF IsAt, At
  <2> QED
    BY <2>4, <2>6, <2>7, <2>8
<1> QED
  BY <1>1, StreamingSafe, PTL

\* The executor's own resampling gives back the samples that were validated.
THEOREM NothingResampled == Spec => []SentAsValidated
<1>1. StreamingInv => SentAsValidated
  BY DEF StreamingInv, WhenSent, SentAsValidated
<1> QED
  BY <1>1, StreamingSafe, PTL

\* What is sent keeps the velocity and acceleration limits that were measured:
\* validate_and_time_scale, then _resample_trajectory.
THEOREM LimitsAreKept == Spec => []SentWithinLimits
<1>1. StreamingInv => SentWithinLimits
  <2> SUFFICES ASSUME StreamingInv, pc = "sent"
               PROVE  \A f \in {"arm", "grip"} :
                        VelocityFits(out, f, 2) /\ AccelerationFits(out, f, 2)
    BY DEF SentWithinLimits
  <2>1. WithinLimits(path) /\ out = path
    BY DEF StreamingInv, WhenSent, Validated
  <2> QED
    BY <2>1 DEF WithinLimits
<1> QED
  BY <1>1, StreamingSafe, PTL

\* Resampled twice and stretched, every sample that shows the gripper part-way
\* still has the arm over the cube's place or the goal, or at the start.  What
\* lies between two samples is not bound by it: plan, resample_trajectory.
THEOREM PartOpenInPlace == Spec => []SampledPartOpenInPlace
<1>1. StreamingInv => SampledPartOpenInPlace
  <2> SUFFICES ASSUME StreamingInv, pc = "sent", NEW k \in DOMAIN out,
                      out[k].grip \notin {Open, Hold, start}
               PROVE  \/ out[k].arm \in {Places["cube"], Places["goal"]}
                      \/ out[k].arm = Places["ready"] /\ start # Open
    BY DEF SampledPartOpenInPlace
  <2>1. Validated(out)
    BY DEF StreamingInv, WhenSent
  <2>2. out \in Seq(Samples) /\ \A i \in 1 .. Len(out) : SampleOK(out[i])
    BY <2>1 DEF Validated, Timed
  <2>3. k \in 1 .. Len(out)
    BY <2>2, LenProperties
  <2>4. SampleOK(out[k])
    BY <2>2, <2>3
  <2> QED
    BY <2>4 DEF SampleOK, OverPlace
<1> QED
  BY <1>1, StreamingSafe, PTL
=============================================================================
