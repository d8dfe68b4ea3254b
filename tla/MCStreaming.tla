----------------------------- MODULE MCStreaming -----------------------------
(* Instances of Streaming.  A unit of travel is 1920 fine units: 2^5 for the *)
(* blend at a half, 60 for intervals of up to six ticks.  So every quotient  *)
(* is exact.                                                                 *)
EXTENDS Streaming
U == 1920
Layout ==
  [ready |-> 0, aboveCube |-> U, cube |-> 2 * U, aboveGoal |-> -U, goal |-> -2 * U]
Closed == -2 * U
Found == {0, -U, U}
Limits == -2 * U .. U \div 2
ShortOrLong == [transfer : {2, 4}, vertical : {2, 4}, grip : {2, 4}, home : {2, 4}]
=============================================================================
