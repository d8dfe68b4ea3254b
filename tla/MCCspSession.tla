---------------------------- MODULE MCCspSession ----------------------------
(***************************************************************************)
(* Instances of CspSession for TLC: one joint, one tick per unit, one      *)
(* datagram per queue.                                                     *)
(***************************************************************************)
EXTENDS CspSession, TLC

CONSTANT j1

Good == [complete |-> TRUE, bits |-> {"operation_enabled", "follows_command"}]
\* A following error is soft for the client: only FAULT tells it.
Lagging == [complete |-> TRUE,
            bits |-> {"operation_enabled", "follows_command", "following_error"}]
FaultReports == {Good, Lagging}

InterruptOnly == {"interrupt"}
OneTpu == (j1 :> 1)
OneSign == (j1 :> 1)
OneZero == (j1 :> 0)
OneMin == (j1 :> 0)
OneMax == (j1 :> 3)
OneTol == (j1 :> 1)
OneTracking == (j1 :> 3)
OnePose == [{j1} -> {0}]
OneCandidate == [{j1} -> {0}]
FewSeqs == 0 .. SeqCap
None == {}
=============================================================================
