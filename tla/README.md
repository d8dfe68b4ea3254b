# Verification of the RASCL manipulator control stack

TLA+ models, TLC checks and TLAPS proofs for the ROS 2 control stack of the RASCL
four-joint arm. Paths below are relative to the repository's `src/` directory;
`hw/` stands for `rascl_hardware_interface/` and `wp3/` for
`rascl_wp3_ss26_group11/rascl_wp3_ss26_group11/`.

## The system

| Component | Code | State | Operations | Hard behaviour | Status |
|---|---|---|---|---|---|
| PDO bridge, cyclic exchange | `hw/scripts/pdo_csp_bridge.py`, class `PdoCspBridge` | bridge state, halt request, measured / commanded / applied targets, error flags, three debounce counters, watchdog time, client address, ready marker | connect, prime, run loop (drain, outputs, exchange, timing, feedback), close | datagrams between two frames, stalls, watchdog, faults, interrupts | modelled: `PdoBridge` |
| PDO bridge, unit conversion | same file, `_radians_to_position_units` and neighbours | units per revolution, sign, zero | conversions both ways | rounding, S32 range | modelled: `PositionScaling` |
| PDO bridge, drive configuration | same file, `_connect_ethercat`, `_configure_slave_pdos`, `_transition_drive_to_operation_enabled`, `close` | drive objects over SDO, process image | identify, map, supervise, enable, OP, prime, close | a retained target when a drive is enabled, one drive of several failing, how far close() may go | modelled: `DriveSetup` |
| Configuration loading | same file, `load_pdo_config` | none | validation | relations between options | partly: `ConfigOK` in `HardwareSession`, the assumptions of `PdoBridge` |
| ros2_control hardware interface | `hw/src/rascl_hardware_interface.cpp` | socket, sequences, last feedback, commands, active | life-cycle callbacks, read, write | lost and old datagrams, timeouts, reconfiguration | modelled: `CspSession` |
| Startup and ready marker | `hw/scripts/hardware_bridge.py`, `wait_for_bridge_ready.py`, the launch files | marker file with a run id, reference validity | startup modes, failure marker, waiting, launch exit handlers | kills between steps, markers of earlier runs | modelled: `HardwareSession` |
| Homing controller | `hw/scripts/pysoem_bridge.py` | drive objects over SDO, limits, switches | set-point handshake, reference search, limit extension, method 37, homing order, moves, command loop | handshake order, aborts, restoring limits on failure | partly: `Homing`, `Axis` |
| Task 1 node | `wp3/wp3_tsk1.py`, `wp3/trajectory_loader.py` | started, stream index | readiness gate, start, timer | marker stale when used | partly: `HardwareSession` |
| Task 2 node | `wp3/wp3_tsk2.py`, `wp3/task2_planner.py` | WAITING / PLANNING / EXECUTING, planning future, last joint state | cube point, state timer, completion | callbacks against the planning thread | modelled: `Task2` |
| Trajectory executor | `wp3/trajectory_executor.py` | stream, index, running, finished, held sample | start, timer, finish | end of stream, resampling | modelled: `Task2`, `HardwareSession`, `Streaming` |
| Task 2 trajectory generation | `wp3/task2_trajectory.py`, `wp3/task2_planner.py`, kinematics | none that changes at run time | segments, resampling, metrics, stretching | boundary samples | partly: `Streaming` |
| Offline tools, URDF, simulation launch, container | `scripts/`, `rascl_description/` | none at run time | generators, audits, plots | – | not modelled |

**How they interact.** `hardware_bridge.py` homes the arm over SDO, hands the open
EtherCAT master to `PdoCspBridge.run()`, which configures the drives, primes the
exchange and creates the marker file `PDO_READY`. The launch file starts
ros2_control when `wait_for_bridge_ready.py` sees the marker of its own run. The
hardware interface and the bridge exchange datagrams over Unix sockets: commands
one way, feedback the other. The task nodes read the marker, then publish joint
targets at 100 Hz to a position controller, which hands them to the hardware
interface; it writes one command datagram per control cycle. The bridge runs its
own cycle and never waits for a client.

**What makes each correct.** Bridge: never drive a target that was not compared
with what the arm is doing now, halt on silence, latch faults, advertise
readiness only when exchanging. Drive configuration: an enabled drive is told to
stay. Hardware interface: leave the bridge halted when it goes away, see every
fault. Startup: ready means this run, homed, exchanging. Homing: nothing is left
running, limits are restored, zero is assigned only on the switch. Tasks: start
only where the trajectory starts, never two executions at once, send what was
validated.

## Modules

| Module | Models | Composes |
|---|---|---|
| `PositionScaling` (+ `_proofs`) | conversions of the bridge | – |
| `MotionGate` | abstract specification of what the bridge lets through | – |
| `PdoBridge` (+ `_proofs`) | class `PdoCspBridge` between connect and close | `PositionScaling`; refines `MotionGate` |
| `CspSession` (+ `_proofs`) | hardware interface, two datagram queues, bridge | `PdoBridge`; refines `PdoBridge!Spec` |
| `DriveSetup` (+ `_proofs`) | the bridge before its first and after its last cycle, N drives | – |
| `Axis`, `Homing` (+ `_proofs`) | the drives as the homing code uses them (external); `RasclRobotController` | `Axis` |
| `HardwareSession` (+ `_proofs`) | launches, bridge process, waiter, ros2_control stack, Task 1 player, one marker file | – |
| `Task2` (+ `_proofs`) | Task 2 node, planning thread, executor | – |
| `Streaming` (+ `_proofs`) | plan segments, resampling, time stretching, executor's resampling | – |
| `MC*` | values of the constants for TLC | |

Operators whose names begin with `Bug` are plausible mistakes, kept beside the
operator they would replace, to show that each property can fail. The
specifications use none of them.

### PositionScaling, MotionGate, PdoBridge

An angle is an integer number of ticks, a unit a whole number of ticks, so the
arithmetic (sign, zero, Python's round-half-to-even, the range check) is exact;
floating-point error is not modelled. `MotionGate` has a mode, the reference the
drives were last enabled to follow and the measured pose. The reference moves
only in a `Drive` step and only to a vector inside the limits that was compared
with the previous reference or with the live pose; `FAULT` only stops.

`PdoBridge` has one action per method of the cycle:

| Action | Code |
|---|---|
| `Connect` | end of `_connect_ethercat`: measured pose becomes actual, target, applied target and first output |
| `UpdateOutputs` (`FaultOutput` / `HoldOutput` / `DriveOutput`) | `_update_outputs`, in the prime loop and in the run loop |
| `Exchange` (`ReadInputs`) | send and receive process data, `_read_inputs_and_validate`; the end of a priming cycle |
| `PublishReady` | `_create_ready_file` and the entry of the loop |
| `StartCycle` | `now = time.monotonic()`: the clock is seen once per cycle |
| `Receive`, `DrainEnds` | one datagram of `_drain_commands`; the end of the drain |
| `RecordCycleTiming`, `SendFeedback` | the methods of these names |
| `Interrupt`, `BeginClose`, `Release` | an exception or Ctrl-C in any step, then `close()` |

`pc` names the method the single thread runs next. The environment chooses the
datagrams, the working counter, each drive's status bits and pose, the lateness
and how far the clock advances. Abstractions, with their reason:

- `target_counts` and `actual_positions` are derived: every assignment in the code
  sets both members of a pair from one value. If `_radians_to_position_units`
  raised after `target_positions` was replaced the pair would differ; theorem
  `TargetsFitS32` shows it cannot.
- Here the socket is not a queue: what a drain finds is an arbitrary sequence of
  at most `MaxBurst` datagrams. The code's drain loop is unbounded.
- `command_age` saturates just past the watchdog, `cycle_count` past the grace
  interval and the priming cycles. Nothing reads them beyond that.
- The lateness of a cycle is independent of the clock's advance; in the code they
  are correlated. The model has more behaviours, so safety carries over.
- Only an unpacked frame of the wrong length is "incomplete"; status words are sets
  of the bits the code tests, `operation_enabled` standing for the masked state.
- `last_received_command` and `last_changed_command_time` are written and never
  read; logging, scheduling class, affinity and distributed clocks are left out.
- In `close()`, an error among the five halt frames, or a second Ctrl-C, leaves the
  drives with their last frame: `Release` may keep the output.
- The code before `Connect` is `DriveSetup`; seen from here its failure is
  `Interrupt`.

### CspSession

The client is the controller manager's one thread: `Open`, `Register`,
`Configured`, `ConfigureTimesOut` are `on_configure` with its HALT handshake;
`Activate`, `ActivateTimesOut`, `Deactivate`, `OnError`, `Finish` the other
callbacks; `Read` and `Write` a control cycle. The bridge's steps are those of
`PdoBridge`, `Receive` being applied to the head of `requests` and `SendFeedback`
appending to `replies`. Sending to a full or an unbound socket loses the datagram,
as in the code.

- *Reduction.* The client takes its turns only while the bridge is at `cycle`,
  `feedback`, `release` or `closed`. The steps in between touch neither a queue's
  other end nor the client, so a datagram sent during them is as if sent just
  before or just after the drain.
- `command_sequence_` saturates at `SeqCap`. `last_feedback_time_` is the Boolean
  `stale`: whether the timeout has passed is all the code asks.
- `seen` is the last accepted packet: state, positions (`hw_positions_`), and
  whether a hard error flag was set.
- The controller manager is external: it calls `on_error` after an ERROR and a
  successful `on_error` leaves the component unconfigured.
- Because `read()` takes COMMAND_WATCHDOG for a hard error while only an accepted
  command clears it, a trip the client has seen ends its activity for good:
  `WatchdogTripIsFinal`.

### DriveSetup

One action per access group of `_configure_slave_pdos` and of the CiA 402
transition (`MapPdos`, `Supervise`, `WriteTarget`, `ResetFault`, `Shutdown`,
`SwitchOn`, `EnableOperation`, `ConfirmMode`), for each of `N` drives in turn; then
`PrepareOutputs`, `RequestOp`, `Prime`, `Primed` or `PrimeFails`; and the three
ways of `close()` (`CloseMapped`, `CloseUnmapped`, `CloseMaster`). A drive starts in
any CiA 402 state, with any retained target, possibly left enabled by homing.
External: `config_map` may raise what a configuration function raised at once or
after the other drives; outputs reach the drives in OP only, and a frame may miss any
of them on its way out or back (`Frame`, `Reading`), which the working counter shows in
priming and nobody looks at in `close()`. A priming cycle is bad when an input last
read is not Operation Enabled, or for any other of the status bits (`OtherBits`). An
error in `close()` is swallowed at any of its steps, and the master is closed all the
same; `unheard` remembers the drives that no halt request got to. A second Ctrl-C in
`close()` is not modelled. `FaultCycles`, `WkcFaultCycles` and `PrimeCycles` are
independent constants: `load_pdo_config` does not compare them. Priming is modelled
with `allow_motion` true.

### Axis and Homing

`Axis` is the drive the homing code relies on (external): set-point handshake of
bits 4 and 12, Halt that keeps the loaded target, method 37, software and switch
limits, the delayed mode display. A place is a stretch of travel; how many places
a joint crosses between two polls is open.

`Homing` is one thread whose call stack is `todo`, the operations still to be done:
calling a method puts the operations of its body in front, returning takes one
off, raising drops all but those of a `finally`. So exceptions, nested calls and
clean-up need no extra control state. An SDO access is a step wherever the moving
joint makes a difference. Deadlines are open: a wait may time out whenever its
condition is not met. Following error and fault bit are one bit. `Programs` is what the
controller is asked to do, sequences of `Entry`: homing steps, commands, gotos and the
reference check. `Unwind` keeps the pending `finally`; the code never enters one inside
another, and theorem `OneFinally` shows that there is at most one. Not modelled:
the strategy `faulhaber_home_switch`, which no joint of `config/homing.yaml`
selects; the race of the mode display in the single-switch strategy beyond one
delayed update. The shoulder's own strategy runs in `command_loop` only.

### HardwareSession

Launches follow one another, at most `MaxRuns`, and do not overlap. A launch has
the bridge process (`LoadConfig`, `Startup`, `BecomeReady`, a fault, its closing, the
failure marker), the waiter, the ros2_control stack and the launch's exit handlers. Beside
it runs the Task 1 player, from another terminal, which may outlive a launch. The
processes meet in the marker file. Faults: a killed bridge, a power cycle (which
loses the references; an exchanging bridge sees it as a fault first), a restarted or left-over player, an arm moved by hand. Homing,
cyclic exchange and the client session are single steps here, being modules of
their own. CPU load and a second Ctrl-C are not modelled. `CHECK_DEADLOCK FALSE`:
after the last launch the system stops.

### Task2

`OnCubePoint`, `OnJointState`, `OnStateTimer` and the executor's `OnTimer` are the
callbacks, one at a time in any order; `PlannerReturns` and `PlannerRaises` the
planning thread. In mode `joint_states` the executor's publications come back as
the joint state; in mode `controller` the robot follows late, is held, or is moved
by hand. One joint; a cube is a place; a plan goes there and back one place per
sample. Whether inverse kinematics and limits admit a cube is the choice of
`PlannerRaises`. Message ages are the Boolean `fresh`.

### Streaming

The segments of `Task2Planner.plan` with the minimum-jerk blend, appended one per
step (`MakePlan`); `resample_trajectory`, where a round of the inner `while` is
`Advance` and a round of the outer one ends in `Emit`; the measurement and the
stretching loop of `validate_and_time_scale` with its four rounds; and the executor,
which resamples again. Time is whole ticks and positions whole units; a quotient that
is not whole is rounded down, and the run's units are fine enough for none to be. So a
sample may be less than a unit below the line between its neighbours (`OnPath`); at a
sample of the path, and where the path stands still, nothing is lost. The stretch
factor is rounded up to a multiple of one half that keeps the times whole, at most
`MaxHalves`/2; beyond that the model stops, which the run shows not to happen. Inverse
kinematics is a straight line, one joint and the gripper. A plan is rejected through
the position limits of the gripper.

## Runs

Deadlock is checked except where said. Every run of a property that passes has a
mutant that makes the property fail under the same configuration.

| Run | Checks | Bounds and why they suffice |
|---|---|---|
| `bridge_commands` | `TypeOK`, `QueuedCommandsNeverAddUp`, `EngagedTargetInLimits`, `NoStaleCommandDriven`, `ImplementsGate` | one joint, reversed, two ticks per unit and an odd zero so every conversion rounds; every tick from one below to one above the limits is a command; poses stick out on both sides; two datagrams per drain (accept then accept, reject, HALT, garbage); stalls below and beyond the watchdog |
| `bridge_faults` | `FrameMatchesState`, `StreakAtLimitIsFault`, `MarkerOnlyAfterPriming`, `FaultLatched`, `SilenceEndsInHold`, `BadFramesEndInFault` | every status combination the code tells apart; all three debounce limits 2, so that a streak can be broken and restarted; two priming cycles |
| `resume_jump` | `ResumeJumpBounded`, **violated** | poses far from the last target |
| `session_live` | `InactiveEndsHalted`, `FaultReachesClient`, `WatchdogTripIsFinal` | one datagram per queue, so that every second send may be lost; sequences 0 to 2, so that a restarted client meets feedback that carries a later sequence than the one it goes on to get, and ignores it until the old one is stale; good and lagging drives |
| `homing_arm` | `HomedMeansReferenced`, `NothingLeftRunning`, `LimitsRestored`, `ClearanceKept`, `HomingEnds` | upper and lower arm from any of five places with two counter zeros, one of which lets the software limit come before the switch; failing accesses, failing drives, Ctrl-C |
| `homing_gripper` | `OneAtATime` | single-switch homing, then a move of two joints, with failing drives |
| `command_loop` | `CommandLeavesRest` | every verb on the shoulder, one after the other without end, each beginning with whatever the one before left behind; a move may end one place short (tolerance 1); failing accesses, failing drives, Ctrl-C |
| `session_runs` | `ControlFollowsReady`, `PickReadyAdmits`, `MarkerOwned`, `OnlyReferencedMotion`, `NoEndlessWait` | two launches (an earlier and a present one), all sixteen configurations, all faults; a reversed drive with a zero two steps off; `CHECK_DEADLOCK FALSE` |
| `stale_start_pose` | `StartsFromMeasuredPose`, **violated** | one launch with the task's configuration, the player started a second time |
| `drive_setup` | `HoldsStill`, `NoFaultedReady`, `ReadyMeansConfigured`, `EveryExitHalts`, `SetupEnds` | two drives: one may fail, or be missed by a frame, while the other is done; two positions: the retained target is right or wrong; four priming cycles, both debounce limits two, so that a failure may be found, hidden by a lost frame, or too late |
| `task2` | `TypeOK`, `BusyMeansBusy`, `StreamIsContinuous`, `StartsNearRobot`, `CycleEnds` | two cubes, the nearer one within the start tolerance; queues of two (the code's are 10 and 20) hold a stale and a fresh entry |
| `streaming` | `StreamFollowsPath`, `SentAsValidated`, `SentWithinLimits`, `SampledPartOpenInPlace` | each of four durations short or long, so that every segment is a whole or a broken number of steps; three grippers found, one beyond the limit |

Comparisons in the code are between a value and a tolerance, a counter and a limit,
or an age and a timeout; the instances have values on both sides of each. The
bridge's joints interact only through "all" and "any", and vectors of any joints are
covered by theorem `Refinement`. That with `allow_motion` false the run loop never
enables a drive is theorem `Forbidden`, with no run of its own; the set-up and the first
frame enable them whatever `allow_motion` says.

`NothingLeftRunning` leaves one case out: a Ctrl-C while `hardware_bridge.py` homes.
Its start-up handles `Exception` only (`hw/scripts/hardware_bridge.py:183`), so the
drives are then neither disabled nor reported in a failure marker. It is about start-up,
and checked there; `command_loop` asks for something stronger and elsewhere.
`CommandLeavesRest`: a command that returns without an error leaves its joint with no
start bit up and, unless it cannot move, with the target where it stands, although the
command before it may have given up on a handshake, a move or an access with the joint
under way. It says nothing of another joint that an earlier command left moving (see
Divergences).

**Fairness.**

- `PdoBridge`: weak fairness of the thread's own steps, not of `Receive`: the loop
  is paced by its deadline and `recvfrom` does not block; a client may stop at any
  time. A drain is assumed to end (`MaxBurst`).
- `CspSession`: the same for the bridge; strong fairness of the client's cycle and
  of the feedback's expiry, because the reduction above disables the client between
  the drain and the timing check although the code does not. Life-cycle calls are
  not fair: nobody has to make them.
- `DriveSetup`, `Homing`: the thread runs and every wait has a deadline. In
  `Homing` the time-out is strongly fair, a wait's condition being able to come and
  go while the joint moves; the drives are not fair at all.
- `HardwareSession`: the bridge, the waiter and the launch's teardown run; launch
  sends SIGINT, then SIGTERM and SIGKILL, so an interrupted bridge ends.
- `Task2`: timers keep firing and a plan is computed or given up. Joint states,
  points and the robot are not fair.

**What the violated runs show.**

- *Resume jump.* `_validate_command` compares with `applied_target_positions`, which
  only a driven cycle updates. While the bridge holds, the arm may move (it
  decelerates after a halt, sags or is pushed); the frame then commands the measured
  position. A command next to the *last driven* target is accepted and the next
  frame jumps there. The comment at `hw/scripts/pdo_csp_bridge.py:1212` promises the
  comparison with the previous cycle's target and no multi-sample jump.
  `QueuedCommandsNeverAddUp` and `ImplementsGate` state what the code does ensure.
- *Stale start pose.* The Task 1 node compares the trajectory's first sample with
  the pose in the marker, written when the bridge became ready, not with the present
  pose. `wp3/wp3_tsk1.py:137` promises the measured start pose.

## Divergences

Met while modelling, and not given a run of their own:

- A drive warning is recorded and never counted as a bad cycle
  (`hw/scripts/pdo_csp_bridge.py:1336`); `docs/DEBUG_AUDIT.md:80,89` lists warnings
  among what the bridge rejects.
- The comparison of a first command with live feedback is made once per process
  (`pdo_csp_bridge.py:1201`): `have_valid_command` is never reset, so a second client
  or task is not covered by it.
- After a reconfiguration the client's sequence restarts, and feedback still carrying
  the old one hides what follows until the bridge has taken a new datagram
  (`hw/src/rascl_hardware_interface.cpp:587`).
- `close()` swallows an error on either of its ways out and closes the master all the
  same (`pdo_csp_bridge.py:1532`). Unmapped, it stops at the first failing SDO access
  (`:1524`) and the drives after it stay as they were; mapped, an error before or among
  the halt frames, or frames that miss a drive, leave it following; and between the
  mapping and OP the frames reach nobody while SDO is not tried. Before the slaves are
  known no halt is sent at all: drives that homing left enabled stay so, without a
  target of the bridge. `EveryExitHalts` states what is left.
- `soft_halt_joint` clears Halt with the latched target still loaded
  (`hw/scripts/pysoem_bridge.py:699`), and `halt_joint_at_current_position` clears it
  before the neutral target is latched (`:1267`): a joint stopped on its way may go on
  for a moment.
- A move that times out raises while the joint is still under way (`:789`); in the
  command loop the next command may start another joint. `OneAtATime` is therefore
  checked for the start-up program, which ends on an error.
- A player once started looks neither at the marker nor at the run again
  (`wp3/trajectory_executor.py:125`); `OnlyReferencedMotion` is therefore about a player
  admitted in the present launch.
- "Task 2 cycle finished at pick-ready/open" (`wp3/wp3_tsk2.py:379`) is printed when
  the last sample was sent; in mode `controller` the robot may be elsewhere, or still
  moving when the next cycle is planned. `StartsNearRobot` and `BusyMeansBusy` speak of
  the pose last seen and of what was sent, not of a robot at rest.
- A point published while the node is busy may wait in the subscription's queue and
  be taken afterwards (`wp3/wp3_tsk2.py:270`); `docs/TASK2_IMPLEMENTATION.md:86-87`
  says that points are rejected rather than queued.
- `wp3/task2_planner.py:182` keeps a gripper opening apart from arm travel;
  `resample_trajectory` (`wp3/task2_trajectory.py:235`) puts no sample at the join
  unless it falls on a step, so one interval of the stream has both.
  `SampledPartOpenInPlace` is therefore about samples: one that shows the gripper part-way
  has the arm in place.

## Proofs

`tlapm` proves, for every value of the constants that satisfies the named
assumptions of each module:

| Module | Assumptions | Theorems |
|---|---|---|
| `PositionScaling_proofs` | those of each theorem | `MeasuredPositionRoundTrip`, `CommandFitsS32` |
| `PdoBridge_proofs` | `ConfigAssumption`, `EnvironmentAssumption` | `TypeCorrect`, `Invariance`, `QueuedCommands`, `Limits`, `Frame`, `Watchdog`, `Streak`, `Marker`, `Forbidden`, `Latched`, `Refinement`, `TargetsFitS32` |
| `CspSession_proofs` | the above, `SessionAssumption` | `SessionTypes`, `SessionImplementsBridge`, `SafeSession`, `TripIsFinal` |
| `DriveSetup_proofs` | `SetupAssumption` | `TypeCorrect`, `HoldStill`, `Closes`, `Ready`, `ReadyIsFresh` |
| `HardwareSession_proofs` | `SessionsAssumption` | `TypeCorrect`, `Marker`, `ControlWaits`, `ReferencedMotion`, `PickReadyShown` |
| `Task2_proofs` | `Task2Assumption` | `TypeCorrect`, `Busy`, `StartsNear`, `NeverJumps` |
| `Homing_proofs` | `AxisAssumption`, `HomingAssumption`, `ProgramsAssumption` | `HomingSafe`, `HomingTypes`, `OneFinally`, `OneJointMoves`, `HomedIsReferenced`, `ArmLeftAtRest`, `LimitsAreRestored`, `ClearanceIsKept` |
| `Streaming_proofs` | `StreamingAssumption` | `StreamingSafe`, `FollowsPath`, `NothingResampled`, `LimitsAreKept`, `PartOpenInPlace` |

**Bridge.** None of the safety properties is inductive. `QueuedCommandsNeverAddUp`
speaks about the drain, but the target it speaks of may be cycles old, so one must
know what the target was when the last frame was sent: `AppliedInv` says that outside
the drain a target that may be driven *is* the applied one, and that before the first
command the target is the start pose. A rejected command sets a halt, so the old
target stops mattering; an accepted one was just compared. `EngagedTargetInLimits`
survives a HALT (which may load a pose outside the limits) for the same reason: what
HALT loads cannot be driven until a validated command replaces it. `NoStaleCommandDriven`
needs that the watchdog flag implies a halt. `PhaseInv` ties `bridge_state` to the
phase of the program; `FrameMatchesState` and `MarkerOnlyAfterPriming` rest on it.

**Session.** Every step of `CspSession` is a step of `PdoBridge` or leaves its
variables alone: `Receive` of a queued datagram is a `Receive`, and a client's step a
stutter. What has to be known is that the queue only holds datagrams and that a drain
takes at most `QueueCap` of them, the client having no turn during it; hence the
assumption `MaxBurst >= QueueCap`. The bridge's theorems then hold of every session
by `PTL` alone. `TripIsFinal` is about both ends. `Tripped` is stable
(`TrippedKept`), for three reasons that lean on each other: only an accepted position
clears the watchdog flag, and none is queued (`FlagKept`); a position is only queued
from `update`, where the client is not (`NoPositionKept`); and the client gets to
`update` only past a read that sees no hard error, while every packet it holds, has
queued or will be sent carries one (`SeesErrorKept`). What makes the trip mean
anything is the bridge's side, an invariant of its own on top of `IInv`: with the
flag up the bridge is not READY (`FlagHoldsStep`).

**Drive set-up.** `Steady`: a drive in CSP has its measured position as target, and so
has the process image from the preparation of the outputs on. `WriteTarget` comes
before the mode is CSP, which is why the order of the accesses matters. `Progress`
says how far drive `i` is and that the drives before it are done unless something
raised; without "unless raised" it is false, as `config_map` may go on. `Counted`:
while no frame has brought a drive's failure back, every cycle since raised the working
counter's count; once one has, every cycle raises the bad-state count, which is behind
by at most `WkcFaultCycles` - 1. `Halted`, for `Closes`: a drive in CSP means that the slaves are known,
and in an unmapped `close()` the drives before `i` are halted.

**Launches.** `Owned` joins five parts that need each other: a ready marker of this
run exists exactly if the bridge of this run was ready (`MarkerOfRun`), the waiter
accepts only such a marker, so the controllers wait (`ControlFollowsReady`); an
admitted player relies on what that marker recorded, and references are lost
only when no bridge is exchanging (`Admitted`). `AtPickReady` follows the pose from the move to the
marker.

**Task 2.** `Busy` is inductive with types. `StartsNear` follows from the order of the
checks after a plan arrived. `NeverJumps` assumes `require_pick_ready_before_request`
and a tolerance of at most one place, and needs `Continues`: what is left of a stream
is smooth and begins next to the sample held, and a robot that is not streaming is at
pick-ready. Without the pick-ready check a plan may begin anywhere.

**Homing.** No property of `Homing` says anything of the states in between: that an arm is
at rest at the end depends on what every method left behind on its way. `HomingInv` relates
the stack to the drives. `StackInv` is about the stack alone: what may come right after
what (`Follows`) and anywhere below it (`Above`). With it an operation that leaves its
joint in motion (`Opens`) has one of the same joint after it that settles it, and an
extended limit has its `restore` below it until it is done. A method's body keeps a stack
well-formed if it is a `Body`, which is shown once for each method. `RestInv` then says
that only the joint in hand may be in motion, and only while the operation in hand expects
it (`Moving`); `AtRest` is stronger than not `Running`, since a raised start bit or a halt
about to be cleared moves a joint later. `LimitsInv`, `RefInv` and `ClearInv` carry the
limits, the references and the clearance along. Every step of the controller returns, calls
a body or raises, and one lemma for each (`ReturnStep`, `CallStep`, `RaiseStep`) carries
`HomingInv` over; the actions only have to show what they do to the joint in hand. A drive's
own step is `DrivenTo`: it may move a joint that is not at rest, and nothing else.

The hypotheses of these theorems: `OneJointMoves` and `ClearanceIsKept` are about start-up
(`~Standalone`); in the command loop a move that times out leaves its joint under way for
the next command (see Divergences). `ArmLeftAtRest` assumes that the drives can be reached
(`"link" \notin Hazards`), as `disable_all_drives` passes over one it cannot.
`HomedIsReferenced` assumes programs that end with the reference check, gotos aside
(`Validated`), as `home_all_joints` does. `ClearanceIsKept` assumes the relation between
joints that `config/homing.yaml` has and a program that moves the upper arm only by homing
it (`ClearanceConfig`): the move to pick-ready is a goto and not meant to keep clear. The
configurations of `homing_arm` and `homing_gripper` satisfy all of them.

**Streaming.** All four properties speak of the end of a phase; `StreamingInv` says what
holds at every step towards it. While the plan is made, the segments still to come lead
from where the path ends to the open gripper at pick-ready (`Route`), and every two
neighbouring samples have the same gripper angle, open or closed, or the same arm over the
cube's place, the goal or the start (`Pair`). `Pair` holds of the plan and of what is left
of it after stretching, not of a resampled stream, two samples of which may lie on both
sides of a join; what survives resampling is what `Pair` says of a single sample between
two (`SampleOK`). While sampling, sample `k` has the time `(k - 1) * Step` or, if that is
past it, the end (`OnTime`), and `source` is not past the target (`SourceBehind`), so a
sample is taken between its neighbours. A measured stream therefore has its times at
multiples of the step. This is what makes the executor's resampling harmless: its next
target is exactly the time of the next sample, the interpolation ends there (`LerpAtEnd`),
and the stream sent is a prefix of the path (`Prefix`) until it is the path. The limits
carry over from what was measured, since the samples are the same. The assumption asks for
positive durations, as `_sample_times` does, and for integers; no relation between sample
period, rate, durations or places is assumed.

**Only model-checked:** the liveness properties (fairness and ENABLED are beyond the prover); that the
stretching finds a factor in the bounds of the run; the violated properties.

## Not modelled

Timing in real units and floating-point error; the Factor Group arithmetic that yields
units per revolution; inverse kinematics, the board transform and configuration files;
the numeric ranges of `load_pdo_config`; the CSV loader and its fingerprints; the
EtherCAT master and the drives beyond what the code relies on; two launches at once,
two bridges on one socket path; running out of memory or file descriptors; the offline
generators, audits and plots, the URDF, simulation launch and container files, which
have no concurrent or stateful behaviour.
