------------------------------ MODULE MCHoming ------------------------------
(* Instances of Homing with the joints and the order of config/homing.yaml. *)
EXTENDS Homing

\* A, B and C in this order; the gripper has one switch.
Switches ==
  [j \in Joint |-> IF j = "gripper" THEN [A |-> {}, B |-> {1}, C |-> {}]
                   ELSE [A |-> {0}, B |-> {2}, C |-> {4}]]
\* With its counter at 2 the lower arm meets its negative limit before A, and
\* with its counter at 3 the upper arm would before B.
Lo == [j \in Joint |-> CASE j = "upper" -> 0 [] j = "lower" -> -1 [] OTHER -> -3]
Hi == [j \in Joint |-> 4]
Offsets == [j \in Joint |-> CASE j = "shoulder" -> -1 [] j = "lower" -> 1 [] OTHER -> 0]
Strategies ==
  [j \in Joint |-> CASE j = "shoulder" -> "negative" [] j = "upper" -> "positive"
                     [] j = "lower" -> "direct" [] OTHER -> "single"]
Clearance == [j \in Joint |-> IF j = "upper" THEN Joint \cap {"lower"} ELSE {}]
Everywhere == [j \in Joint |-> Place]
\* homing.sequence of the configuration after the shoulder; the upper arm alone.
ArmSequence == <<Op("park_boundary", "lower"), Op("home", "upper"), Op("direct", "lower")>>
ArmHoming == {HomeAll(ArmSequence), HomeAll(<<Op("home", "upper")>>)}
ToA == -1

\* Homing, then a move that starts with the gripper on its switch or off it.
Afterwards(n) == MoveJoints(<<"shoulder", "gripper">>, [shoulder |-> 1, gripper |-> n])
GripperHoming ==
  {HomeAll(<<Op("home", "gripper")>>) \o Afterwards(n) : n \in {0, 2}}

\* Every verb, and MOVE_RAD to either side.
Verbs ==
  Commands("shoulder") \cup {MoveJoints(<<"shoulder">>, [shoulder |-> n]) : n \in {-1, 2}}
=============================================================================
