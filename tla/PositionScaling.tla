-------------------------- MODULE PositionScaling --------------------------
(***************************************************************************)
(* The unit conversions of the CSP bridge (PdoCspBridge in                 *)
(* pdo_csp_bridge.py).  A ROS joint angle (the "model" angle) is mapped to *)
(* the drive's coordinate by a sign and an offset, and a drive angle is    *)
(* rounded to the S32 position units of objects 0x607A and 0x6064.         *)
(*                                                                         *)
(* Angles are integers here: a "tick" is a fixed fraction of a radian, and *)
(* one drive position unit is worth tpu ticks.  What the conversion does   *)
(* to a value (rounding half to even, the sign, the offset, the S32 range) *)
(* is kept; only the resolution of the floating-point angle is abstracted. *)
(***************************************************************************)
EXTENDS Integers

\* The value range of an S32 process-data entry.
S32Max == 2147483647
S32 == -S32Max - 1 .. S32Max

\* Python's round(n / k): to the nearest integer, ties to the even one.
RoundHalfEven(n, k) ==
  LET q == n \div k
      r == n % k
  IN  IF 2 * r < k \/ (2 * r = k /\ q % 2 = 0) THEN q ELSE q + 1

\* Model angle to drive angle and back, for a joint with this sign and zero.
ModelToDrive(a, sign, zero) == zero + sign * a
DriveToModel(d, sign, zero) == sign * (d - zero)

\* Model angle to position units and back.
ModelToUnits(a, tpu, sign, zero) ==
  RoundHalfEven(ModelToDrive(a, sign, zero), tpu)
UnitsToModel(u, tpu, sign, zero) == DriveToModel(u * tpu, sign, zero)

(***************************************************************************)
(* The check _configure_position_scaling makes once per joint: both ends   *)
(* of the configured range, in position units, are at most 2^31 - 1 in     *)
(* magnitude.  It compares the exact quotient, before any rounding: an     *)
(* exact quotient is at most an integer exactly when its ceiling is.       *)
(***************************************************************************)
CeilDiv(n, k) == -((-n) \div k)
RangeFitsS32(lo, hi, tpu, sign, zero) ==
  \A a \in {lo, hi} :
    LET d == ModelToDrive(a, sign, zero)
    IN  CeilDiv(d, tpu) <= S32Max /\ CeilDiv(-d, tpu) <= S32Max
=============================================================================
