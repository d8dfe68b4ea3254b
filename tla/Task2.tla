-------------------------------- MODULE Task2 --------------------------------
(***************************************************************************)
(* The Task 2 node: Wp3Task2Node with its subscriptions, its planning      *)
(* thread and its TrajectoryExecutor.  The callbacks run one at a time, in *)
(* any order; the planner runs beside them.                                *)
(*                                                                         *)
(* The arm is one joint and the places it passes are whole numbers, with   *)
(* pick-ready at 0; a plan takes it to the cube and back, one place per    *)
(* sample.  Whether inverse kinematics and limits admit a cube is the      *)
(* choice of PlannerRaises; resampling is module Streaming.                *)
(*                                                                         *)
(* In mode "joint_states" the executor is the robot: what it publishes     *)
(* comes back as the joint state.  In mode "controller" the robot follows  *)
(* the commands, late, or not at all while the bridge holds it.            *)
(***************************************************************************)
EXTENDS Integers, Sequences

CONSTANTS
  Modes,            \* which of "joint_states" and "controller" execution_mode may be
  Cubes,            \* where a cube may be
  Tolerance,        \* start_pose_tolerance_rad
  RequirePickReady, \* require_pick_ready_before_request
  Depth,            \* of the point queue: 10
  StateDepth        \* of the joint-state queue: 20

ASSUME Task2Assumption ==
  /\ Modes \subseteq {"joint_states", "controller"}
  /\ Cubes \subseteq Nat \ {0} /\ Tolerance \in Nat
  /\ RequirePickReady \in BOOLEAN /\ Depth \in Nat \ {0} /\ StateDepth \in Nat \ {0}

VARIABLES
  mode,       \* _execution_mode
  state,      \* _state
  points,     \* published points the node has not taken yet
  wire,       \* published joint states the node has not taken yet
  seen,       \* _current_positions
  fresh,      \* the joint state is not older than joint_state_timeout_s
  future,     \* _planning_future and _plan_start_positions
  stream,     \* _stream_samples[_next_index:]
  held,       \* _held_sample: the last one published
  running, finished,
  hw,         \* what _hardware_ready would find: marker and subscriber
  robot       \* where the robot is

vars ==
  <<mode, state, points, wire, seen, fresh, future, stream, held, running, finished, hw, robot>>
executor == <<stream, held, running, finished>>
environment == <<mode, hw, robot>>

Nowhere == -1
NoFuture == [status |-> "none", start |-> 0, cube |-> 0]
Distance(a, b) == IF a > b THEN a - b ELSE b - a
PickReady == 0

\* Task2Planner.plan: from the measured place to the cube and to pick-ready.
Leg(a, b) == [k \in 1 .. Distance(a, b) + 1 |-> IF a <= b THEN a + k - 1 ELSE a - k + 1]
Plan(start, cube) == Leg(start, cube) \o Tail(Leg(cube, PickReady))

Init ==
  /\ mode \in Modes
  /\ state = "WAITING" /\ points = <<>>
  /\ future = NoFuture
  /\ stream = <<>> /\ running = FALSE /\ finished = FALSE
  /\ robot = PickReady
  /\ IF mode = "joint_states"
     THEN /\ seen = PickReady /\ fresh = TRUE /\ held = PickReady
          /\ wire = <<PickReady>> /\ hw = TRUE
     ELSE /\ seen = Nowhere /\ fresh = FALSE /\ held = Nowhere
          /\ wire = <<>> /\ hw \in BOOLEAN
-----------------------------------------------------------------------------
(***************************************************************************)
(* The executor.                                                           *)
(***************************************************************************)
\* Keep-last: a full queue loses its oldest message.
Queued(q, m, depth) == IF Len(q) = depth THEN Append(Tail(q), m) ELSE Append(q, m)

\* Publishing a command moves the robot only if someone listens.
Publish(sample) ==
  /\ held' = sample
  /\ IF mode = "joint_states"
     THEN wire' = Queued(wire, sample, StateDepth) /\ robot' = sample
     ELSE UNCHANGED <<wire, robot>>

BugFinishedKept == finished
FinishedAtStart == FALSE
Start(samples) ==
  /\ Publish(Head(samples))
  /\ stream' = Tail(samples)
  /\ running' = (Len(samples) > 1)
  /\ finished' = IF Len(samples) > 1 THEN FinishedAtStart ELSE TRUE

OnTimer ==
  /\ IF running
     THEN /\ Publish(Head(stream))
          /\ stream' = Tail(stream)
          /\ running' = (Len(stream) > 1)
          /\ finished' = (Len(stream) = 1)
     ELSE /\ mode = "joint_states" /\ Publish(held)
          /\ UNCHANGED <<stream, running, finished>>
  /\ UNCHANGED <<state, points, seen, fresh, future, mode, hw>>
-----------------------------------------------------------------------------
(***************************************************************************)
(* The node.                                                               *)
(***************************************************************************)
HardwareReady == mode = "controller" => hw
BugNoStateYet == TRUE
CurrentState == fresh /\ seen # Nowhere
BugAnywhere == TRUE
PickReadyCheck == RequirePickReady => Distance(seen, PickReady) <= Tolerance

OnJointState ==
  /\ wire # <<>>
  /\ seen' = Head(wire) /\ fresh' = TRUE /\ wire' = Tail(wire)
  /\ UNCHANGED <<state, points, future, executor, environment>>

\* _on_cube_point: accepted, or rejected for any of its reasons.
BugTakesAny == TRUE
Takes == state = "WAITING"
Accepts == Takes /\ HardwareReady /\ CurrentState /\ PickReadyCheck
OnCubePoint ==
  /\ points # <<>>
  /\ points' = Tail(points)
  /\ IF Accepts
     THEN /\ state' = "PLANNING"
          /\ future' = [status |-> "planning", start |-> seen, cube |-> Head(points)]
     ELSE UNCHANGED <<state, future>>
  /\ UNCHANGED <<wire, seen, fresh, executor, environment>>

\* The planning thread.
PlannerReturns ==
  /\ future.status = "planning"
  /\ future' = [future EXCEPT !.status = "planned"]
  /\ UNCHANGED <<state, points, wire, seen, fresh, executor, environment>>
PlannerRaises ==
  /\ future.status = "planning"
  /\ future' = [future EXCEPT !.status = "failed"]
  /\ UNCHANGED <<state, points, wire, seen, fresh, executor, environment>>

\* _start_completed_plan, as far as it may refuse.
BugMovedMeanwhile == TRUE
StillThere == Distance(seen, future.start) <= Tolerance
Startable ==
  /\ future.status = "planned"
  /\ HardwareReady /\ CurrentState /\ StillThere /\ ~running

\* _on_state_timer.
BugResultsOnly == {"planned"}
Done == {"planned", "failed"}
OnStateTimer ==
  /\ \/ /\ state = "PLANNING" /\ future.status \in Done
        /\ future' = NoFuture
        /\ IF Startable
           THEN /\ Start(Plan(future.start, future.cube))
                /\ state' = IF finished' THEN "WAITING" ELSE "EXECUTING"
                /\ UNCHANGED <<mode, hw>>
           ELSE /\ state' = "WAITING"
                /\ UNCHANGED <<wire, executor, environment>>
     \/ /\ state = "EXECUTING" /\ finished
        /\ state' = "WAITING"
        /\ UNCHANGED <<future, wire, executor, environment>>
  /\ UNCHANGED <<points, seen, fresh>>
-----------------------------------------------------------------------------
(***************************************************************************)
(* Around the node.                                                        *)
(***************************************************************************)
PublishPoint ==
  /\ \E cube \in Cubes :
       points' = Queued(points, cube, Depth)
  /\ UNCHANGED <<state, wire, seen, fresh, future, executor, environment>>

JointStateAges ==
  /\ fresh /\ fresh' = FALSE
  /\ UNCHANGED <<state, points, wire, seen, future, executor, environment>>

\* The robot takes a step towards the command, and reports where it is.
Toward(a, b) == IF a < b THEN a + 1 ELSE IF a > b THEN a - 1 ELSE a
RobotFollows ==
  /\ mode = "controller" /\ hw /\ held # Nowhere /\ robot # held
  /\ robot' = Toward(robot, held)
  /\ UNCHANGED <<state, points, wire, seen, fresh, future, executor, mode, hw>>
RobotReports ==
  /\ mode = "controller"
  /\ wire' = Queued(wire, robot, StateDepth)
  /\ UNCHANGED <<state, points, seen, fresh, future, executor, environment>>
\* A person, or the holding bridge, moves it.
RobotDrifts ==
  /\ mode = "controller"
  /\ \E place \in {PickReady} \cup Cubes : robot' = Toward(robot, place)
  /\ UNCHANGED <<state, points, wire, seen, fresh, future, executor, mode, hw>>
HardwareToggles ==
  /\ mode = "controller" /\ hw' = ~hw
  /\ UNCHANGED <<state, points, wire, seen, fresh, future, executor, mode, robot>>

Environment ==
  \/ PublishPoint \/ JointStateAges
  \/ RobotFollows \/ RobotReports \/ RobotDrifts \/ HardwareToggles
Next ==
  \/ OnTimer \/ OnJointState \/ OnCubePoint \/ OnStateTimer
  \/ PlannerReturns \/ PlannerRaises \/ Environment
Spec == Init /\ [][Next]_vars

\* Timers keep firing and a plan is computed or given up.
FairSpec ==
  Spec /\ WF_vars(OnTimer) /\ WF_vars(OnStateTimer)
       /\ WF_vars(PlannerReturns \/ PlannerRaises)
-----------------------------------------------------------------------------
Places == {PickReady} \cup UNION {1 .. cube : cube \in Cubes}
TypeOK ==
  /\ mode \in Modes
  /\ state \in {"WAITING", "PLANNING", "EXECUTING"}
  /\ points \in Seq(Cubes) /\ Len(points) <= Depth
  /\ wire \in Seq(Places) /\ Len(wire) <= StateDepth
  /\ seen \in Places \cup {Nowhere} /\ held \in Places \cup {Nowhere} /\ robot \in Places
  /\ future \in [status : {"none", "planning", "planned", "failed"},
                 start : Places, cube : Cubes \cup {0}]
  /\ stream \in Seq(Places)
  /\ fresh \in BOOLEAN /\ running \in BOOLEAN /\ finished \in BOOLEAN /\ hw \in BOOLEAN

\* The state the node reports is what its thread and its executor are doing:
\* a waiting node neither plans nor streams, so that no two cycles overlap.  In
\* mode "controller" it may wait while the robot still follows the last sample.
BusyMeansBusy ==
  /\ state = "WAITING" => future = NoFuture /\ ~running
  /\ state = "PLANNING" => future # NoFuture /\ ~running
  /\ state = "EXECUTING" => future = NoFuture /\ running # finished
  /\ running = (stream # <<>>)

\* Every cycle ends, and the node takes points again.
CycleEnds == state # "WAITING" ~> state = "WAITING"

\* A stream begins where the robot was last seen, however long planning took and
\* whatever moved it meanwhile.
Starts == ~running /\ running'
StartsNearRobot ==
  [][Starts => HardwareReady /\ fresh /\ Distance(held', seen) <= Tolerance]_vars

\* The displayed robot never jumps: over cycles, holds and refused plans.
StreamIsContinuous ==
  [][mode = "joint_states" => Distance(held', held) <= 1]_vars
=============================================================================
