---------------------------- MODULE MCPdoBridge ----------------------------
(***************************************************************************)
(* Instances of PdoBridge for TLC.  "One" is a single joint whose unit is  *)
(* two ticks, mounted with a reversed sign and a non-zero drive zero, so   *)
(* rounding and the mapping matter, and whose reachable poses stick out of *)
(* the position limits by one tick on both sides.                          *)
(***************************************************************************)
EXTENDS PdoBridge, TLC

CONSTANT j1

Nominal == {"operation_enabled", "follows_command"}
Good == [complete |-> TRUE, bits |-> Nominal]
Faulted == [complete |-> TRUE, bits |-> Nominal \cup {"fault"}]
Warned == [complete |-> TRUE, bits |-> Nominal \cup {"warning"}]
Limited == [complete |-> TRUE, bits |-> {"operation_enabled", "internal_limit"}]
Lagging == [complete |-> TRUE, bits |-> Nominal \cup {"following_error"}]
Disabled == [complete |-> TRUE, bits |-> {}]
Short == [complete |-> FALSE, bits |-> {}]

Everything == {"wkc", "late", "recv_error", "interrupt"}

AllReports == {Good, Faulted, Warned, Limited, Lagging, Disabled, Short}
GoodReports == {Good}

\* One joint.
OneTpu == (j1 :> 2)
OneSign == (j1 :> -1)
OneZero == (j1 :> 1)
OneMin == (j1 :> -4)
OneMax == (j1 :> 0)
OneStep == (j1 :> 2)
OneTol == (j1 :> 1)
OneTracking == (j1 :> 4)
OnePoses == [{j1} -> 0 .. 3]
OneFine == [{j1} -> -5 .. 1]
\* Fewer positions, for runs about flags and counters.
OneFew == [{j1} -> {-4, -2}]
OneStill == [{j1} -> {1}]
\* Room to drift away from the last driven target while halted.
OneFar == [{j1} -> 0 .. 6]
=============================================================================
