--------------------------- MODULE HardwareSession ---------------------------
(***************************************************************************)
(* One hardware session after the other: the launch ros2_control.launch.py *)
(* with its three parts, hardware_bridge.py, wait_for_bridge_ready.py and  *)
(* the ros2_control stack, and beside it, from another terminal, the       *)
(* Task 1 player.  They meet in one file, the ready marker.                *)
(*                                                                         *)
(* What happens inside homing is module Homing, inside the cycles          *)
(* PdoBridge, between bridge and controllers CspSession; here each is one  *)
(* step, and the arm is one joint.  Angles are whole steps.  Launches do   *)
(* not overlap.                                                            *)
(***************************************************************************)
EXTENDS Integers, Sequences

CONSTANTS
  MaxRuns,      \* bound: launches in one behaviour
  Configs,      \* startup.mode, allow_motion and allow_unhomed_motion of the PDO YAML
  Trajectory,   \* the commands streamed from the CSV, in model coordinates
  Tolerance,    \* start_pose_tolerance_rad
  MaxStep,      \* largest step of a command the bridge accepts
  Sign, Zero,   \* model_to_drive_sign and drive_rad_at_model_zero
  Poses,        \* where the arm may be found, in drive coordinates
  Hazards       \* which of "kill", "powercycle", "orphan" and "restart" may happen

StartupModes == {"home_then_csp", "home_then_pick_ready", "pick_ready_only", "hold_current"}
Distance(a, b) == IF a > b THEN a - b ELSE b - a
DriveOf(q) == Zero + Sign * q
ModelOf(d) == Sign * (d - Zero)
PickReady == Trajectory[1]

ASSUME SessionsAssumption ==
  /\ MaxRuns \in Nat
  /\ Configs \subseteq [mode : StartupModes, motion : BOOLEAN, unhomed : BOOLEAN]
  /\ Trajectory \in Seq(Int) /\ Trajectory # <<>>
  /\ Tolerance \in Nat /\ MaxStep \in Nat
  /\ Sign \in {-1, 1} /\ Zero \in Int /\ Poses \subseteq Int

VARIABLES
  launch,      \* "off", "up" or "down" (shutting down)
  run,         \* number of the current launch: RASCL_BRIDGE_RUN_ID
  config,
  bridge,      \* where hardware_bridge.py is
  failed,      \* it is leaving on an exception
  facts,       \* StartupResult: [arm, gripper] reference valid
  waiter,      \* wait_for_bridge_ready.py
  control,     \* the position controller: its subscriber exists from "inactive" on
  marker,      \* contents of the ready file
  pose,        \* the arm, in drive coordinates
  referenced,  \* the drives' counters have been homed since they were powered
  player,      \* the Task 1 player: [at: state, next: sample, run: admitted in]
  readied, killed   \* history: last run that was ready; a bridge was killed

launchVars == <<launch, run, config, waiter, control>>
bridgeVars == <<bridge, failed, facts, marker>>
armVars == <<pose, referenced>>
svars == <<launchVars, bridgeVars, armVars, player, readied, killed>>

NoMarker == [kind |-> "none"]
NoFacts == [arm |-> FALSE, gripper |-> FALSE]
NoPlayer == [at |-> "off", next |-> 0, run |-> 0]

SInit ==
  /\ launch = "off" /\ run = 0 /\ config \in Configs
  /\ bridge = "off" /\ failed = FALSE /\ facts = NoFacts
  /\ waiter = "off" /\ control = "off" /\ marker = NoMarker
  /\ pose \in Poses /\ referenced = FALSE
  /\ player = NoPlayer
  /\ readied = 0 /\ killed = FALSE
-----------------------------------------------------------------------------
(***************************************************************************)
(* hardware_bridge.py: main(), run_startup_phase() and PdoCspBridge.run(). *)
(***************************************************************************)
BridgeOnly == UNCHANGED <<launchVars, player, killed>>

Homes == config.mode \in {"home_then_csp", "home_then_pick_ready"}
ConfigOK == config.motion /\ ~Homes => config.unhomed
LoadConfig ==
  /\ bridge = "loading" /\ ConfigOK
  /\ bridge' = "startup" /\ marker' = NoMarker
  /\ UNCHANGED <<failed, facts, armVars, readied>> /\ BridgeOnly

\* load_pdo_config raises outside the try of main(): nothing is written.
LoadConfigFails ==
  /\ bridge = "loading"
  /\ bridge' = "gone"
  /\ UNCHANGED <<failed, facts, marker, armVars, readied>> /\ BridgeOnly

\* _homing_config_with_drive_pick_ready, then move_to_pick_ready.
BugPickReadyUnmapped == PickReady
PickReadyTarget == DriveOf(PickReady)

Startup ==
  /\ bridge = "startup"
  /\ bridge' = "connecting"
  /\ facts' = [arm |-> Homes, gripper |-> Homes]
  /\ referenced' = (referenced \/ Homes)
  /\ pose' = CASE config.mode = "home_then_csp" -> 0
               [] config.mode = "hold_current" -> pose
               [] OTHER -> PickReadyTarget
  /\ marker' = NoMarker
  /\ UNCHANGED <<failed, readied>> /\ BridgeOnly

\* Homing gives up on the way: some counters may have been zeroed wrongly.
StartupFails ==
  /\ bridge = "startup"
  /\ bridge' = "failing" /\ failed' = TRUE
  /\ pose' \in Poses
  /\ referenced' \in {referenced, referenced /\ ~Homes}
  /\ UNCHANGED <<facts, marker, readied>> /\ BridgeOnly

\* _create_ready_file replaces the file in one step.
BecomeReady ==
  /\ bridge = "connecting"
  /\ bridge' = "cyclic"
  /\ marker' = [kind |-> "ready", run |-> run, motion |-> config.motion,
                arm |-> facts.arm, gripper |-> facts.gripper, pose |-> ModelOf(pose)]
  /\ readied' = run
  /\ UNCHANGED <<failed, facts, armVars>> /\ BridgeOnly

\* A fault is held until the bridge is started again; the marker stays.
BridgeFaults ==
  /\ bridge = "cyclic"
  /\ bridge' = "fault"
  /\ UNCHANGED <<failed, facts, marker, armVars, readied>> /\ BridgeOnly

\* close() begins with the marker.
BugLeaveMarker == marker
MarkerAfterClose == NoMarker
InRun == bridge \in {"connecting", "cyclic", "fault"}
Close(error) ==
  /\ InRun
  /\ bridge' = "closing" /\ failed' = error
  /\ marker' = MarkerAfterClose
  /\ UNCHANGED <<facts, armVars, readied>>
RunFails == Close(TRUE) /\ BridgeOnly

Closed ==
  /\ bridge = "closing"
  /\ bridge' = IF failed THEN "failing" ELSE "gone"
  /\ UNCHANGED <<failed, facts, marker, armVars, readied>> /\ BridgeOnly

WriteStartupFailure ==
  /\ bridge = "failing"
  /\ bridge' = "gone"
  /\ marker' = [kind |-> "failed", run |-> run]
  /\ UNCHANGED <<failed, facts, armVars, readied>> /\ BridgeOnly

\* SIGINT.  Only run() handles it; elsewhere the process ends where it is.
Alive == bridge \notin {"off", "gone"}
Interrupted ==
  /\ launch = "down"
  /\ \/ Close(FALSE)
     \/ /\ Alive /\ ~InRun
        /\ bridge' = "gone"
        /\ UNCHANGED <<failed, facts, marker, armVars, readied>>
  /\ BridgeOnly

Killed ==
  /\ "kill" \in Hazards /\ Alive
  /\ bridge' = "gone" /\ killed' = TRUE
  /\ UNCHANGED <<launchVars, failed, facts, marker, armVars, player, readied>>
-----------------------------------------------------------------------------
(***************************************************************************)
(* The launch and what it starts.                                          *)
(***************************************************************************)
LaunchOnly == UNCHANGED <<bridgeVars, armVars, player, readied, killed>>

Launch ==
  /\ launch = "off" /\ run < MaxRuns
  /\ launch' = "up" /\ run' = run + 1
  /\ config' \in Configs
  /\ bridge' = "loading" /\ failed' = FALSE /\ facts' = NoFacts
  /\ waiter' = "waiting"
  /\ UNCHANGED <<control, marker, armVars, player, readied, killed>>

BugAnyRun(m) == TRUE
RunMatches(m) == m.run = run
WaiterReads ==
  /\ waiter = "waiting"
  /\ marker.kind # "none" /\ RunMatches(marker)
  /\ IF marker.kind = "ready"
       THEN /\ waiter' = "ok"
            /\ control' = IF launch = "up" THEN "starting" ELSE control
            /\ launch' = launch
       ELSE waiter' = "failed" /\ launch' = "down" /\ control' = control
  /\ UNCHANGED <<run, config>> /\ LaunchOnly

\* OnProcessExit(hardware_bridge).
BugExitUnwatched == FALSE
BridgeHasExited == bridge = "gone"
BridgeExits ==
  /\ launch = "up" /\ BridgeHasExited
  /\ launch' = "down"
  /\ UNCHANGED <<run, config, waiter, control>> /\ LaunchOnly

CtrlC ==
  /\ launch = "up"
  /\ launch' = "down"
  /\ UNCHANGED <<run, config, waiter, control>> /\ LaunchOnly

\* The spawners, one after the other; a spawner that fails ends the launch.
ConfigureController ==
  /\ launch = "up" /\ control = "starting"
  /\ \/ control' = "inactive" /\ launch' = launch
     \/ launch' = "down" /\ control' = control
  /\ UNCHANGED <<run, config, waiter>> /\ LaunchOnly
ActivateController ==
  /\ control = "inactive" /\ bridge = "cyclic"
  /\ control' = "active"
  /\ UNCHANGED <<launch, run, config, waiter>> /\ LaunchOnly

\* read() finds no feedback, or a hard error in it; see CspSession.
HardwareError ==
  /\ control \in {"inactive", "active"} /\ bridge # "cyclic"
  /\ control' = "halted"
  /\ UNCHANGED <<launch, run, config, waiter>> /\ LaunchOnly

Teardown ==
  /\ launch = "down"
  /\ \/ control # "off" /\ control' = "off" /\ waiter' = waiter
     \/ waiter = "waiting" /\ waiter' = "failed" /\ control' = control
  /\ UNCHANGED <<launch, run, config>> /\ LaunchOnly

\* Unless it is an orphan, the player is stopped with its session.
LaunchEnds ==
  /\ launch = "down" /\ ~Alive /\ control = "off" /\ waiter # "waiting"
  /\ player.at = "off" \/ "orphan" \in Hazards
  /\ launch' = "off" /\ bridge' = "off" /\ waiter' = "off"
  /\ UNCHANGED <<run, config, control, failed, facts, marker, armVars, player,
                 readied, killed>>

\* The drives lose power while nothing drives them.
PowerCycle ==
  /\ "powercycle" \in Hazards
  /\ bridge \in {"off", "gone", "fault"}
  /\ referenced' = FALSE /\ pose' \in Poses
  /\ UNCHANGED <<launchVars, bridgeVars, player, readied, killed>>
-----------------------------------------------------------------------------
(***************************************************************************)
(* wp3_tsk1.py.                                                            *)
(***************************************************************************)
PlayerOnly == UNCHANGED <<launch, run, config, waiter, bridgeVars, referenced, readied, killed>>

\* A command reaches the drives through the active controller and the gate of
\* the bridge; one the gate refuses stops the hardware component.
Publish(q) ==
  IF control # "active" \/ bridge # "cyclic" THEN UNCHANGED <<pose, control>>
  ELSE IF Distance(DriveOf(q), pose) > MaxStep
    THEN control' = "halted" /\ UNCHANGED pose
    ELSE pose' = (IF config.motion THEN DriveOf(q) ELSE pose) /\ UNCHANGED control

BugUnreferenced(m) == m.motion
Trusted(m) == m.motion /\ m.arm /\ m.gripper
HardwareExecutionReady ==
  /\ control \in {"inactive", "active", "halted"}
  /\ marker.kind = "ready" /\ Trusted(marker)
  /\ Distance(marker.pose, Trajectory[1]) <= Tolerance

StartPlayer ==
  /\ player.at = "off" /\ ("restart" \in Hazards \/ player.run < run)
  /\ player' = [at |-> "waiting", next |-> 1, run |-> run]
  /\ UNCHANGED <<pose, control>> /\ PlayerOnly

Advance(p) ==
  IF p.next = Len(Trajectory) THEN [p EXCEPT !.at = "done"]
  ELSE [p EXCEPT !.at = "streaming", !.next = @ + 1]

\* _start_once and TrajectoryExecutor.start: sample zero goes out at once.
StartOnce ==
  /\ player.at = "waiting" /\ HardwareExecutionReady
  /\ Publish(Trajectory[1])
  /\ player' = Advance([player EXCEPT !.next = 1, !.run = run])
  /\ PlayerOnly

\* TrajectoryExecutor._on_timer.
OnTimer ==
  /\ player.at = "streaming"
  /\ Publish(Trajectory[player.next])
  /\ player' = Advance(player)
  /\ PlayerOnly

StopPlayer ==
  /\ player.at # "off"
  /\ player' = [player EXCEPT !.at = "off", !.next = 0]
  /\ UNCHANGED <<pose, control>> /\ PlayerOnly
-----------------------------------------------------------------------------
Bridge ==
  \/ LoadConfig \/ LoadConfigFails \/ Startup \/ StartupFails \/ BecomeReady
  \/ Closed \/ WriteStartupFailure
Stack ==
  \/ WaiterReads \/ BridgeExits \/ ConfigureController \/ ActivateController
  \/ HardwareError \/ Teardown \/ LaunchEnds
Operator == Launch \/ CtrlC \/ StartPlayer \/ StopPlayer
Faults == BridgeFaults \/ RunFails \/ Killed \/ PowerCycle
Player == StartOnce \/ OnTimer

SNext == Bridge \/ Interrupted \/ Stack \/ Operator \/ Faults \/ Player
SSpec == SInit /\ [][SNext]_svars

\* The processes run and end; launch sends SIGINT, then SIGTERM and SIGKILL.
FairSessions ==
  /\ SSpec
  /\ WF_svars(Bridge) /\ WF_svars(Interrupted)
  /\ WF_svars(WaiterReads) /\ WF_svars(BridgeExits) /\ WF_svars(Teardown)
-----------------------------------------------------------------------------
Markers ==
  {NoMarker} \cup [kind : {"failed"}, run : 1 .. MaxRuns]
  \cup [kind : {"ready"}, run : 1 .. MaxRuns, motion : BOOLEAN, arm : BOOLEAN,
        gripper : BOOLEAN, pose : Int]
STypeOK ==
  /\ launch \in {"off", "up", "down"} /\ run \in 0 .. MaxRuns /\ config \in Configs
  /\ bridge \in {"off", "loading", "startup", "connecting", "cyclic", "fault",
                 "closing", "failing", "gone"}
  /\ failed \in BOOLEAN /\ facts \in [arm : BOOLEAN, gripper : BOOLEAN]
  /\ waiter \in {"off", "waiting", "ok", "failed"}
  /\ control \in {"off", "starting", "inactive", "active", "halted"}
  /\ marker \in Markers
  /\ pose \in Int /\ referenced \in BOOLEAN
  /\ player \in [at : {"off", "waiting", "streaming", "done"},
                 next : 0 .. Len(Trajectory), run : 0 .. MaxRuns]
  /\ readied \in 0 .. run /\ killed \in BOOLEAN

\* "The current-run ready marker is owned by the still-running bridge and removed
\* on shutdown": without a kill, no ready marker outlives the bridge that wrote
\* it, and none is of an earlier run.
MarkerOwned ==
  marker.kind = "ready" /\ ~killed => bridge \in {"cyclic", "fault"} /\ marker.run = run

\* Whatever an earlier run left behind, a bridge that was killed included, the
\* controllers start only after the bridge of this launch was ready.
ControlFollowsReady == control # "off" => readied = run

\* A player admitted in this session moves the arm only while the counters it is
\* commanded in have been homed since the drives were powered.  (One left over
\* from an earlier session does not look at the marker again, and may.)
OnlyReferencedMotion ==
  [][Player /\ player.run = run /\ pose' # pose => referenced]_svars

\* After homing and the move to pick-ready, the marker shows the pose that the
\* player wants to see, whatever the signs and zeros of the drives.
PickReadyAdmits ==
  bridge = "cyclic" /\ config.mode = "home_then_pick_ready"
    => Distance(marker.pose, Trajectory[1]) <= Tolerance

\* However the bridge ends, killed or by an error nobody wrote down, the launch
\* does not wait for it for ever.
NoEndlessWait == waiter = "waiting" ~> waiter # "waiting"

\* "Controller commands remain blocked until PDO readiness, references, and the
\* measured start pose are verified".
StartsFromMeasuredPose ==
  [][StartOnce => Distance(ModelOf(pose), Trajectory[1]) <= Tolerance]_svars
=============================================================================
