----------------------------- MODULE MotionGate -----------------------------
(***************************************************************************)
(* What the PDO bridge promises about motion, without sockets, flags,      *)
(* counters or cycles.  ref is the reference the drives were last enabled  *)
(* to follow, pose is where the drives last said they are.                 *)
(*                                                                         *)
(* The reference moves only in a Drive step, and then only to a vector     *)
(* inside the limits that was compared with the reference before it or     *)
(* with the live pose.  While the gate holds or has failed the reference   *)
(* stays where it was; a failed gate can only stop.                        *)
(***************************************************************************)
EXTENDS Integers

CONSTANTS Joint,
          PosMin, PosMax,  \* [Joint -> Int]: the allowed range
          MaxStep,         \* [Joint -> Nat]: largest move of the reference
          FirstTol         \* [Joint -> Nat]: tolerance against the live pose

VARIABLES mode, ref, pose
gateVars == <<mode, ref, pose>>

Modes == {"STARTING", "READY", "HOLD", "FAULT", "STOPPED"}

Near(a, b, tol) ==
  \A j \in Joint : (IF a[j] > b[j] THEN a[j] - b[j] ELSE b[j] - a[j]) <= tol[j]
Allowed(a) == \A j \in Joint : PosMin[j] <= a[j] /\ a[j] <= PosMax[j]

Init == mode = "STARTING"

\* The reference starts at the measured pose.
Calibrate ==
  /\ mode = "STARTING"
  /\ mode' = "HOLD"
  /\ pose' \in [Joint -> Int]
  /\ ref' = pose'

Hold == mode \in {"READY", "HOLD"} /\ mode' = "HOLD" /\ UNCHANGED <<ref, pose>>

Drive ==
  /\ mode \in {"READY", "HOLD"}
  /\ mode' = "READY"
  /\ ref' \in [Joint -> Int]
  /\ \/ ref' = ref
     \/ /\ Allowed(ref')
        /\ Near(ref', ref, MaxStep) \/ Near(ref', pose, FirstTol)
  /\ pose' = pose

\* A new measurement, and perhaps the decision that it is a failure.
Sense ==
  /\ mode \in {"READY", "HOLD", "FAULT"}
  /\ mode' \in {mode, "FAULT"}
  /\ pose' \in [Joint -> Int]
  /\ ref' = ref

Stop == mode # "STOPPED" /\ mode' = "STOPPED" /\ UNCHANGED <<ref, pose>>

Next == Calibrate \/ Hold \/ Drive \/ Sense \/ Stop
Spec == Init /\ [][Next]_gateVars
=============================================================================
