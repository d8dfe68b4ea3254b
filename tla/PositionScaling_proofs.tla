----------------------- MODULE PositionScaling_proofs -----------------------
(***************************************************************************)
(* What the unit conversions of the bridge preserve, for every scaling,    *)
(* sign and zero position.                                                 *)
(***************************************************************************)
EXTENDS PositionScaling, TLAPS

\* Euclidean division by a positive divisor.
LEMMA DivMod ==
  ASSUME NEW n \in Int, NEW k \in Nat \ {0}
  PROVE  /\ n \div k \in Int /\ n % k \in 0 .. k - 1
         /\ n = k * (n \div k) + (n % k)
OBVIOUS

\* The rounded quotient is at most half a unit from the exact one, whatever
\* the tie rule does.
LEMMA RoundingError ==
  ASSUME NEW n \in Int, NEW k \in Nat \ {0}
  PROVE  /\ RoundHalfEven(n, k) \in Int
         /\ 2 * (RoundHalfEven(n, k) * k) - 2 * n <= k
         /\ 2 * n - 2 * (RoundHalfEven(n, k) * k) <= k
<1> DEFINE q == n \div k
<1> DEFINE r == n % k
<1>1. q \in Int /\ r \in 0 .. k - 1 /\ n = k * q + r
  BY DivMod
<1>2. RoundHalfEven(n, k) = q \/ RoundHalfEven(n, k) = q + 1
  BY DEF RoundHalfEven
<1>3. CASE RoundHalfEven(n, k) = q
  <2>1. 2 * r <= k
    BY <1>1, <1>3 DEF RoundHalfEven
  <2>2. q * k = n - r
    BY <1>1
  <2> HIDE DEF q, r
  <2> QED
    BY <1>1, <1>3, <2>1, <2>2
<1>4. CASE RoundHalfEven(n, k) = q + 1
  <2>1. 2 * r >= k
    BY <1>1, <1>4 DEF RoundHalfEven
  <2>2. (q + 1) * k = n - r + k
    BY <1>1
  <2> HIDE DEF q, r
  <2> QED
    BY <1>1, <1>4, <2>1, <2>2
<1> QED
  BY <1>2, <1>3, <1>4

\* Sending a measured position back as a target moves nothing: converting the
\* units to a model angle and the angle to units again gives the same units.
\* This is what makes "hold where you are" a hold.
THEOREM MeasuredPositionRoundTrip ==
  ASSUME NEW u \in Int, NEW tpu \in Nat \ {0}, NEW sign \in {-1, 1}, NEW zero \in Int
  PROVE  ModelToUnits(UnitsToModel(u, tpu, sign, zero), tpu, sign, zero) = u
<1> DEFINE d == ModelToDrive(UnitsToModel(u, tpu, sign, zero), sign, zero)
<1>1. d = u * tpu
  <2> DEFINE p == u * tpu
  <2>1. p \in Int
    OBVIOUS
  <2>2. ModelToDrive(DriveToModel(p, sign, zero), sign, zero) = p
    <3> HIDE DEF p
    <3>1. CASE sign = 1
      BY <2>1, <3>1 DEF ModelToDrive, DriveToModel
    <3>2. CASE sign = -1
      BY <2>1, <3>2 DEF ModelToDrive, DriveToModel
    <3> QED
      BY <3>1, <3>2
  <2> QED
    BY <2>2 DEF UnitsToModel
<1>2. RoundHalfEven(u * tpu, tpu) = u
  <2> DEFINE m == RoundHalfEven(u * tpu, tpu)
  <2>1. u * tpu \in Int
    OBVIOUS
  <2>2. /\ m \in Int
        /\ 2 * (m * tpu) - 2 * (u * tpu) <= tpu
        /\ 2 * (u * tpu) - 2 * (m * tpu) <= tpu
    BY <2>1, RoundingError
  <2> HIDE DEF m
  <2>3. CASE m >= u + 1
    <3>1. (m - (u + 1)) * tpu >= 0
      BY <2>2, <2>3
    <3> QED
      BY <2>2, <3>1
  <2>4. CASE m <= u - 1
    <3>1. ((u - 1) - m) * tpu >= 0
      BY <2>2, <2>4
    <3> QED
      BY <2>2, <3>1
  <2> QED
    BY <2>2, <2>3, <2>4 DEF m
<1> QED
  BY <1>1, <1>2 DEF ModelToUnits

\* A ceiling below an integer bounds the exact quotient.
LEMMA CeilDivBound ==
  ASSUME NEW n \in Int, NEW k \in Nat \ {0}, NEW b \in Int, CeilDiv(n, k) <= b
  PROVE  n <= b * k
<1> DEFINE m == -n
<1> DEFINE q == m \div k
<1> DEFINE r == m % k
<1>1. q \in Int /\ r \in 0 .. k - 1 /\ m = k * q + r
  <2>1. m \in Int
    OBVIOUS
  <2> HIDE DEF m
  <2> QED
    BY <2>1, DivMod
<1>2. q + b >= 0
  BY <1>1 DEF CeilDiv
<1> HIDE DEF q, r
<1>3. (q + b) * k >= 0
  BY <1>1, <1>2
<1>4. (q + b) * k = k * q + b * k
  BY <1>1
<1> QED
  BY <1>1, <1>3, <1>4

\* A command inside limits that passed the check of _configure_position_scaling
\* never makes _radians_to_position_units raise OverflowError: rounding cannot
\* carry it past the end of the S32 range.
THEOREM CommandFitsS32 ==
  ASSUME NEW lo \in Int, NEW hi \in Int, NEW a \in Int, lo <= a, a <= hi,
         NEW tpu \in Nat \ {0}, NEW sign \in {-1, 1}, NEW zero \in Int,
         RangeFitsS32(lo, hi, tpu, sign, zero)
  PROVE  ModelToUnits(a, tpu, sign, zero) \in S32
<1> DEFINE d == ModelToDrive(a, sign, zero)
<1> DEFINE m == RoundHalfEven(d, tpu)
<1> DEFINE top == S32Max * tpu
<1>0. S32Max \in Nat
  BY SMT DEF S32Max
<1>1. d \in Int /\ top \in Int
  BY <1>0, SMT DEF ModelToDrive
<1>2. d <= top /\ -top <= d
  <2>1. /\ ModelToDrive(lo, sign, zero) <= top /\ -top <= ModelToDrive(lo, sign, zero)
        /\ ModelToDrive(hi, sign, zero) <= top /\ -top <= ModelToDrive(hi, sign, zero)
    <3>1. ASSUME NEW e \in {lo, hi}
          PROVE  ModelToDrive(e, sign, zero) <= top /\ -top <= ModelToDrive(e, sign, zero)
      <4> DEFINE v == ModelToDrive(e, sign, zero)
      <4>1. v \in Int
        BY DEF ModelToDrive
      <4>2. CeilDiv(v, tpu) <= S32Max /\ CeilDiv(-v, tpu) <= S32Max
        BY DEF RangeFitsS32
      <4> HIDE DEF v
      <4>3. v <= top /\ -v <= top
        BY <1>0, <4>1, <4>2, CeilDivBound
      <4> HIDE DEF top
      <4>4. -top <= v
        BY <1>1, <4>1, <4>3
      <4> QED
        BY <4>3, <4>4 DEF v
    <3> QED
      BY <3>1
  <2> HIDE DEF top
  <2>2. CASE sign = 1
    BY <1>1, <2>1, <2>2 DEF ModelToDrive
  <2>3. CASE sign = -1
    BY <1>1, <2>1, <2>3 DEF ModelToDrive
  <2> QED
    BY <2>2, <2>3
<1>3. m \in Int /\ 2 * (m * tpu) - 2 * d <= tpu /\ 2 * d - 2 * (m * tpu) <= tpu
  BY <1>1, RoundingError
<1>4. 2 * (m * tpu) <= 2 * top + tpu /\ -(2 * top) - tpu <= 2 * (m * tpu)
  <2> HIDE DEF d, m, top
  <2>1. m * tpu \in Int
    BY <1>3
  <2> QED
    BY <1>1, <1>2, <1>3, <2>1
<1>5. ~(m >= S32Max + 1)
  <2> SUFFICES ASSUME m >= S32Max + 1 PROVE FALSE
    OBVIOUS
  <2> HIDE DEF m
  <2>1. (m - (S32Max + 1)) * tpu >= 0
    BY <1>0, <1>3, SMT
  <2>2. (m - (S32Max + 1)) * tpu = m * tpu - top - tpu
    BY <1>0, <1>3, SMT
  <2> QED
    BY <1>1, <1>3, <1>4, <2>1, <2>2
<1>6. ~(m <= -S32Max - 1)
  <2> SUFFICES ASSUME m <= -S32Max - 1 PROVE FALSE
    OBVIOUS
  <2> HIDE DEF m
  <2>1. (-S32Max - 1 - m) * tpu >= 0
    BY <1>0, <1>3, SMT
  <2>2. (-S32Max - 1 - m) * tpu = -top - tpu - m * tpu
    BY <1>0, <1>3, SMT
  <2> QED
    BY <1>1, <1>3, <1>4, <2>1, <2>2
<1> HIDE DEF m
<1>7. m \in S32
  BY <1>0, <1>3, <1>5, <1>6, SMT DEF S32
<1> QED
  BY <1>7 DEF m, ModelToUnits
=============================================================================
