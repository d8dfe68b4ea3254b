----------------------------- MODULE PdoBridge -----------------------------
(***************************************************************************)
(* The cyclic part of the EtherCAT bridge: class PdoCspBridge of           *)
(* rascl_hardware_interface/scripts/pdo_csp_bridge.py, from the end of     *)
(* _connect_ethercat to close().                                           *)
(*                                                                         *)
(* One thread runs a fixed cycle: drain the command socket, choose the     *)
(* output of every drive, exchange one process-data frame, judge the       *)
(* inputs, judge the cycle's lateness, send feedback.  Each of these       *)
(* methods is one action, and pc says which one is next.  The environment  *)
(* is the client that writes the command socket, the drives that answer    *)
(* the frame, and the clock.                                               *)
(*                                                                         *)
(* Angles are integer ticks (module PositionScaling).  The code keeps      *)
(* target_counts beside target_positions and actual_positions beside       *)
(* actual_counts; every assignment sets both members of a pair to the two  *)
(* units' rendering of one value, so one of each pair is kept.             *)
(*                                                                         *)
(* An operator whose name begins with Bug is a plausible mistake in the    *)
(* operator that follows it.  The specification uses none of them: they    *)
(* are there to show that a property can fail.                             *)
(***************************************************************************)
EXTENDS PositionScaling, FiniteSets

CONSTANTS
  Joint,             \* the joints, one EtherCAT slave each
  TicksPerUnit,      \* [Joint -> Nat \ {0}]: ticks per drive position unit
  Sign, DriveZero,   \* [Joint -> Int]: model_to_drive_sign, drive_rad_at_model_zero
  PosMin, PosMax,    \* [Joint -> Int]: position_min_rad, position_max_rad
  MaxStep,           \* [Joint -> Nat]: max_velocity_rad_s * cycle_time_s * 1.05
  FirstTol,          \* [Joint -> Int]: first_command_tolerance_rad, not validated
  SyncTol,           \* [Joint -> Nat]: initial_sync_limit_tolerance_rad
  MaxTracking,       \* [Joint -> Nat]: max_tracking_error_rad
  WatchdogTicks,     \* command_watchdog_ms, in clock ticks
  WkcFaultCycles, StateFaultCycles, TimingFaultCycles,
  PrimeCycles,       \* hold cycles exchanged before readiness (20)
  GraceCycles,       \* cycles without the follows-command check (20)
  AllowMotion        \* allow_motion

CONSTANTS            \* the environment's choices, and the bounds of a model
  Candidates,        \* position vectors a client may send (ticks)
  Seqs,              \* sequence numbers of command datagrams
  Poses,             \* position vectors the drives may report (units)
  Reports,           \* [complete, bits] one drive may report
  Disturbances,      \* what else may go wrong in a cycle
  MaxMove,           \* units a joint may move between two frames
  MaxStall,          \* clock ticks one cycle may take
  MaxBurst           \* datagrams one drain may find

(***************************************************************************)
(* What load_pdo_config and _configure_position_scaling reject is excluded *)
(* here.  They let wkc_fault_cycles and state_fault_cycles be zero or      *)
(* less; the first priming cycle is then a fault and the bridge never gets *)
(* ready, so only positive limits are considered.                          *)
(***************************************************************************)
ASSUME ConfigAssumption ==
  /\ TicksPerUnit \in [Joint -> Nat \ {0}]
  /\ Sign \in [Joint -> {-1, 1}]
  /\ DriveZero \in [Joint -> Int]
  /\ PosMin \in [Joint -> Int] /\ PosMax \in [Joint -> Int]
  /\ MaxStep \in [Joint -> Nat] /\ FirstTol \in [Joint -> Int]
  /\ SyncTol \in [Joint -> Nat] /\ MaxTracking \in [Joint -> Nat]
  /\ \A j \in Joint :
       /\ PosMin[j] <= PosMax[j]
       /\ RangeFitsS32(PosMin[j], PosMax[j], TicksPerUnit[j], Sign[j], DriveZero[j])
  /\ WkcFaultCycles \in Nat \ {0} /\ StateFaultCycles \in Nat \ {0}
  /\ TimingFaultCycles \in Nat \ {0}
  /\ WatchdogTicks \in Nat \ {0} /\ PrimeCycles \in Nat \ {0}
  /\ GraceCycles \in Nat
  /\ AllowMotion \in BOOLEAN

StatusBits == {"fault", "warning", "internal_limit", "following_error",
               "follows_command", "operation_enabled"}

ASSUME EnvironmentAssumption ==
  /\ Candidates \subseteq [Joint -> Int]
  /\ Poses \subseteq [Joint -> Int]
  /\ Seqs \subseteq Nat
  /\ Reports \subseteq [complete : BOOLEAN, bits : SUBSET StatusBits]
  /\ Disturbances \subseteq {"wkc", "late", "recv_error", "interrupt"}
  /\ MaxMove \in Nat /\ MaxBurst \in Nat
  /\ MaxStall \in Nat \ {0}

VARIABLES
  pc,                       \* the method the thread executes next
  bridge_state,             \* BRIDGE_STATE_*
  halt_requested,
  have_valid_command,
  actual_counts,            \* [Joint -> Int], units
  target_positions,         \* [Joint -> Int], ticks
  applied_target_positions, \* [Joint -> Int], ticks: last enabled target
  output,                   \* the process data last written for the drives
  error_flags,
  bad_wkc_cycles, bad_state_cycles, bad_timing_cycles,
  cycle_count,              \* saturates at CycleCap
  command_age,              \* now - last_valid_command_time, saturating
  latest_command_sequence,
  client_known,             \* client_address is not None
  ready_file,               \* the PDO_READY marker exists
  drained                   \* datagrams taken in the current drain

drive == <<actual_counts, output>>
command == <<have_valid_command, target_positions, command_age>>
judge == <<bad_wkc_cycles, bad_state_cycles, cycle_count>>
ipc == <<latest_command_sequence, client_known, drained>>
vars == <<pc, bridge_state, halt_requested, drive, command,
          applied_target_positions, error_flags, judge, bad_timing_cycles,
          ipc, ready_file>>
-----------------------------------------------------------------------------
BridgeStates == {"STARTING", "READY", "HOLD", "FAULT", "STOPPED"}
DriveErrors == {"DRIVE_FAULT", "NOT_FOLLOWING", "FOLLOWING_ERROR",
                "INTERNAL_LIMIT", "ETHERCAT_STATE", "TRACKING"}
ErrorFlags == DriveErrors \cup
  {"WKC", "WARNING", "TIMING", "COMMAND_WATCHDOG", "INVALID_COMMAND",
   "MOTION_DISABLED"}
RunPcs == {"cycle", "drain", "output", "exchange", "timing", "feedback"}
PrimePcs == {"prime_output", "prime_exchange", "publish"}
Pcs == RunPcs \cup PrimePcs \cup {"connect", "close", "release", "closed"}

Frames == [word : {"ENABLE", "HALT"}, counts : [Joint -> Int]]
Datagrams ==
  [kind : {"malformed"}]
    \cup [kind : {"register", "halt", "no_position", "non_finite"}, seq : Seqs]
    \cup [kind : {"position"}, seq : Seqs, positions : Candidates]

CycleCap == IF GraceCycles > PrimeCycles THEN GraceCycles + 1 ELSE PrimeCycles + 1
AgeCap == WatchdogTicks + 1
UpTo(n, cap) == IF n > cap THEN cap ELSE n
\* A consecutive-error counter: reset by a good cycle, saturating at its limit.
BugLeaks(good, n, limit) == IF good THEN n - 1 ELSE UpTo(n + 1, limit)
BugCountTooLow(good, n, limit) == IF good THEN 0 ELSE UpTo(n + 1, limit - 1)
CountBad(good, n, limit) == IF good THEN 0 ELSE UpTo(n + 1, limit)
Distance(a, b) == IF a > b THEN a - b ELSE b - a
Within(a, b, tol) == \A j \in Joint : Distance(a[j], b[j]) <= tol[j]
InLimits(a) == \A j \in Joint : PosMin[j] <= a[j] /\ a[j] <= PosMax[j]

CountsOf(a) ==
  [j \in Joint |-> ModelToUnits(a[j], TicksPerUnit[j], Sign[j], DriveZero[j])]
AnglesOf(u) ==
  [j \in Joint |-> UnitsToModel(u[j], TicksPerUnit[j], Sign[j], DriveZero[j])]
actual_positions == AnglesOf(actual_counts)
-----------------------------------------------------------------------------
(***************************************************************************)
(* Start-up: connect, prime, publish the marker.                           *)
(***************************************************************************)
Init ==
  /\ pc = "connect"
  /\ bridge_state = "STARTING"
  /\ halt_requested = FALSE
  /\ have_valid_command = FALSE
  /\ actual_counts = [j \in Joint |-> 0]
  /\ target_positions = [j \in Joint |-> 0]
  /\ applied_target_positions = [j \in Joint |-> 0]
  /\ output = [word |-> "HALT", counts |-> [j \in Joint |-> 0]]
  /\ error_flags = {}
  /\ bad_wkc_cycles = 0 /\ bad_state_cycles = 0 /\ bad_timing_cycles = 0
  /\ cycle_count = 0
  /\ command_age = 0
  /\ latest_command_sequence = 0
  /\ client_known = FALSE
  /\ ready_file = FALSE
  /\ drained = 0

\* The measured pose becomes actual, target, applied target and first output.
Connect ==
  /\ pc = "connect"
  /\ \E pose \in Poses :
       /\ actual_counts' = pose
       /\ target_positions' = AnglesOf(pose)
       /\ applied_target_positions' = AnglesOf(pose)
       /\ output' = [word |-> "ENABLE", counts |-> pose]
  /\ bridge_state' = "HOLD"
  /\ pc' = "prime_output"
  /\ UNCHANGED <<halt_requested, have_valid_command, command_age, error_flags,
                 judge, bad_timing_cycles, ipc, ready_file>>

PublishReady ==
  /\ pc = "publish"
  /\ bridge_state' = "HOLD"
  /\ ready_file' = TRUE
  /\ pc' = "cycle"
  /\ UNCHANGED <<halt_requested, drive, command, applied_target_positions,
                 error_flags, judge, bad_timing_cycles, ipc>>

\* now = time.monotonic(): the cycle sees the clock once, before the drain.
StartCycle ==
  /\ pc = "cycle"
  /\ \E dt \in 1 .. MaxStall :
       command_age' = IF have_valid_command
                        THEN UpTo(command_age + dt, AgeCap) ELSE 0
  /\ drained' = 0
  /\ pc' = "drain"
  /\ UNCHANGED <<bridge_state, halt_requested, drive, have_valid_command,
                 target_positions, applied_target_positions, error_flags, judge,
                 bad_timing_cycles, latest_command_sequence, client_known,
                 ready_file>>
-----------------------------------------------------------------------------
(***************************************************************************)
(* _drain_commands: one action per datagram taken from the socket.  The    *)
(* socket is first-in first-out and its writer is arbitrary, so the        *)
(* datagram taken is an arbitrary one.                                     *)
(***************************************************************************)
\* _normalize_initial_command: only before the first accepted command.
Clamp(a) == [j \in Joint |-> IF a[j] < PosMin[j] THEN PosMin[j]
                             ELSE IF a[j] > PosMax[j] THEN PosMax[j] ELSE a[j]]
Normalizable(a) == have_valid_command \/ Within(a, Clamp(a), SyncTol)
Normalize(a) == IF have_valid_command THEN a ELSE Clamp(a)

\* _validate_command.
BugLatestTarget == target_positions
StepReference == applied_target_positions
BugNoLimits(a) == IF have_valid_command THEN Within(a, StepReference, MaxStep)
                                        ELSE Within(a, actual_positions, FirstTol)
Validates(a) ==
  /\ InLimits(a)
  /\ IF have_valid_command THEN Within(a, StepReference, MaxStep)
                           ELSE Within(a, actual_positions, FirstTol)
Accepts(a) == Normalizable(a) /\ Validates(Normalize(a))

Reject(flag) ==
  /\ error_flags' = error_flags \cup {flag}
  /\ halt_requested' = TRUE
  /\ UNCHANGED command

AcceptCommand(a) ==
  /\ command_age' = 0
  /\ target_positions' = Normalize(a)
  /\ have_valid_command' = TRUE
  /\ halt_requested' = FALSE
  /\ error_flags' =
       error_flags \ {"COMMAND_WATCHDOG", "INVALID_COMMAND", "MOTION_DISABLED"}

HaltCommand ==
  /\ halt_requested' = TRUE
  /\ target_positions' = actual_positions
  /\ UNCHANGED <<have_valid_command, command_age, error_flags>>

Receive(d) ==
  /\ pc = "drain"
  /\ drained < MaxBurst
  /\ drained' = drained + 1
  /\ client_known' \in BOOLEAN  \* FALSE: the sender's socket has no name
  /\ latest_command_sequence' =
       IF d.kind = "malformed" THEN latest_command_sequence ELSE d.seq
  /\ \/ /\ d.kind = "malformed"
        /\ error_flags' = error_flags \cup {"INVALID_COMMAND"}
        /\ UNCHANGED <<halt_requested, command>>
     \/ /\ d.kind \in {"register", "no_position"}
        /\ UNCHANGED <<error_flags, halt_requested, command>>
     \/ d.kind = "halt" /\ HaltCommand
     \/ d.kind = "non_finite" /\ Reject("INVALID_COMMAND")
     \/ /\ d.kind = "position"
        /\ IF ~Accepts(d.positions) THEN Reject("INVALID_COMMAND")
           ELSE IF ~AllowMotion THEN Reject("MOTION_DISABLED")
           ELSE AcceptCommand(d.positions)
  /\ UNCHANGED <<pc, bridge_state, drive, applied_target_positions, judge,
                 bad_timing_cycles, ready_file>>

\* recvfrom finds the socket empty, or fails with another OSError.
DrainEnds ==
  /\ pc = "drain"
  /\ \/ UNCHANGED error_flags
     \/ /\ "recv_error" \in Disturbances
        /\ error_flags' = error_flags \cup {"INVALID_COMMAND"}
  /\ pc' = "output"
  /\ UNCHANGED <<bridge_state, halt_requested, drive, command,
                 applied_target_positions, judge, bad_timing_cycles, ipc,
                 ready_file>>
-----------------------------------------------------------------------------
(***************************************************************************)
(* _update_outputs: the watchdog, then one control word and one target for *)
(* every drive.                                                            *)
(***************************************************************************)
BugWatchdogNeedsClient ==
  have_valid_command /\ client_known /\ command_age > WatchdogTicks
WatchdogExpired == have_valid_command /\ command_age > WatchdogTicks
MayDrive == ~halt_requested' /\ AllowMotion

\* FAULT outranks everything and leaves bridge_state alone.
BugFaultRelaxes ==
  /\ bridge_state = "FAULT"
  /\ output' = [word |-> "HALT", counts |-> actual_counts]
  /\ bridge_state' = "HOLD"
  /\ UNCHANGED applied_target_positions
FaultOutput ==
  /\ bridge_state = "FAULT"
  /\ output' = [word |-> "HALT", counts |-> actual_counts]
  /\ UNCHANGED <<bridge_state, applied_target_positions>>

BugHoldAtTarget ==
  /\ bridge_state # "FAULT" /\ ~MayDrive
  /\ output' = [word |-> "HALT", counts |-> CountsOf(target_positions)]
  /\ bridge_state' = "HOLD"
  /\ UNCHANGED applied_target_positions
BugHoldMovesReference ==
  /\ bridge_state # "FAULT" /\ ~MayDrive
  /\ output' = [word |-> "HALT", counts |-> actual_counts]
  /\ bridge_state' = "HOLD"
  /\ applied_target_positions' = target_positions
HoldOutput ==
  /\ bridge_state # "FAULT" /\ ~MayDrive
  /\ output' = [word |-> "HALT", counts |-> actual_counts]
  /\ bridge_state' = "HOLD"
  /\ UNCHANGED applied_target_positions

DriveOutput ==
  /\ bridge_state # "FAULT" /\ MayDrive
  /\ output' = [word |-> "ENABLE", counts |-> CountsOf(target_positions)]
  /\ applied_target_positions' = target_positions
  /\ bridge_state' = "READY"

UpdateOutputs ==
  /\ pc \in {"prime_output", "output"}
  /\ halt_requested' = (halt_requested \/ WatchdogExpired)
  /\ error_flags' =
       IF WatchdogExpired THEN error_flags \cup {"COMMAND_WATCHDOG"} ELSE error_flags
  /\ FaultOutput \/ HoldOutput \/ DriveOutput
  /\ pc' = IF pc = "output" THEN "exchange" ELSE "prime_exchange"
  /\ UNCHANGED <<actual_counts, command, judge, bad_timing_cycles, ipc,
                 ready_file>>
-----------------------------------------------------------------------------
(***************************************************************************)
(* send_processdata, receive_processdata and _read_inputs_and_validate.    *)
(***************************************************************************)
Supervised == have_valid_command /\ ~halt_requested
PastGrace == cycle_count + 1 > GraceCycles

\* The errors one drive's report raises; pos is the position it reports.
JointErrors(j, report, pos) ==
  IF ~report.complete THEN {"ETHERCAT_STATE"} ELSE
    {e \in DriveErrors :
       \/ e = "DRIVE_FAULT" /\ "fault" \in report.bits
       \/ e = "INTERNAL_LIMIT" /\ "internal_limit" \in report.bits
       \/ e = "FOLLOWING_ERROR" /\ "following_error" \in report.bits
       \/ /\ e = "NOT_FOLLOWING"
          /\ PastGrace /\ AllowMotion /\ Supervised
          /\ "follows_command" \notin report.bits
       \/ e = "ETHERCAT_STATE" /\ "operation_enabled" \notin report.bits
       \/ /\ e = "TRACKING"
          /\ Supervised
          /\ Distance(target_positions[j], pos[j]) > MaxTracking[j]}

\* wkc_ok: the working counter is the expected one; pose: where the drives are.
ReadInputs(wkc_ok, report, pose) ==
  LET errors == UNION {JointErrors(j, report[j], AnglesOf(pose)) : j \in Joint}
      warning == \E j \in Joint : report[j].complete /\ "warning" \in report[j].bits
      kept == error_flags \ ({"WKC", "WARNING"} \cup
                             IF errors = {} THEN DriveErrors ELSE {})
  IN
    /\ cycle_count' = UpTo(cycle_count + 1, CycleCap)
    /\ actual_counts' =
         [j \in Joint |-> IF report[j].complete THEN pose[j] ELSE actual_counts[j]]
    /\ bad_wkc_cycles' = CountBad(wkc_ok, bad_wkc_cycles, WkcFaultCycles)
    /\ bad_state_cycles' =
         CountBad(errors = {}, bad_state_cycles, StateFaultCycles)
    /\ error_flags' = kept \cup errors
                        \cup (IF wkc_ok THEN {} ELSE {"WKC"})
                        \cup (IF warning THEN {"WARNING"} ELSE {})
    /\ IF \/ bad_wkc_cycles' >= WkcFaultCycles
          \/ bad_state_cycles' >= StateFaultCycles
         THEN halt_requested' = TRUE /\ bridge_state' = "FAULT"
         ELSE UNCHANGED <<halt_requested, bridge_state>>

BugPublishUnprimed == IF pc = "exchange" THEN "timing" ELSE "publish"
\* A FAULT while priming raises RuntimeError, which ends in close().
AfterExchange ==
  IF pc = "exchange" THEN "timing"
  ELSE IF bridge_state' = "FAULT" THEN "close"
  ELSE IF cycle_count' >= PrimeCycles THEN "publish"
  ELSE "prime_output"

Exchange ==
  /\ pc \in {"prime_exchange", "exchange"}
  /\ \E wkc_ok \in {TRUE, "wkc" \notin Disturbances}, report \in [Joint -> Reports], pose \in Poses :
       /\ \A j \in Joint : Distance(pose[j], actual_counts[j]) <= MaxMove
       /\ ReadInputs(wkc_ok, report, pose)
  /\ pc' = AfterExchange
  /\ UNCHANGED <<output, command, applied_target_positions, bad_timing_cycles,
                 ipc, ready_file>>
-----------------------------------------------------------------------------
\* _record_cycle_timing.
RecordCycleTiming ==
  /\ pc = "timing"
  /\ \E late \in {FALSE, "late" \in Disturbances} :
       bad_timing_cycles' =
         CountBad(~late, bad_timing_cycles, TimingFaultCycles)
  /\ IF bad_timing_cycles' >= TimingFaultCycles
       THEN /\ error_flags' = error_flags \cup {"TIMING"}
            /\ halt_requested' = TRUE
            /\ bridge_state' = "FAULT"
       ELSE /\ error_flags' = error_flags \ {"TIMING"}
            /\ UNCHANGED <<halt_requested, bridge_state>>
  /\ pc' = "feedback"
  /\ UNCHANGED <<drive, command, applied_target_positions, judge, ipc,
                 ready_file>>

\* _send_feedback packs this packet for client_address, if there is one.
Feedback ==
  [sequence |-> latest_command_sequence, bridge_state |-> bridge_state,
   positions |-> actual_positions, error_flags |-> error_flags]

\* A vanished client is forgotten; any other send error loses one packet.
SendFeedback ==
  /\ pc = "feedback"
  /\ client_known' \in {client_known, FALSE}
  /\ pc' = "cycle"
  /\ UNCHANGED <<bridge_state, halt_requested, drive, command,
                 applied_target_positions, error_flags, judge,
                 bad_timing_cycles, latest_command_sequence, drained, ready_file>>
-----------------------------------------------------------------------------
(***************************************************************************)
(* close(), from the finally clause of run().  An exception or Ctrl-C may  *)
(* end any step; close() itself never raises.                              *)
(***************************************************************************)
Interrupt ==
  /\ "interrupt" \in Disturbances
  /\ pc \in RunPcs \cup PrimePcs \cup {"connect"}
  /\ pc' = "close"
  /\ UNCHANGED <<bridge_state, halt_requested, drive, command,
                 applied_target_positions, error_flags, judge,
                 bad_timing_cycles, ipc, ready_file>>

BeginClose ==
  /\ pc = "close"
  /\ bridge_state' = "STOPPED"
  /\ ready_file' = FALSE
  /\ pc' = "release"
  /\ UNCHANGED <<halt_requested, drive, command, applied_target_positions,
                 error_flags, judge, bad_timing_cycles, ipc>>

\* Five halt frames, then SAFEOP, master and socket closed.  An error in the
\* exchange is printed and the rest goes on; a second Ctrl-C here, which
\* close() does not catch, also leaves the drives with their last frame.
Release ==
  /\ pc = "release"
  /\ output' \in {output, [word |-> "HALT", counts |-> actual_counts]}
  /\ client_known' = FALSE
  /\ pc' = "closed"
  /\ UNCHANGED <<bridge_state, halt_requested, actual_counts, command,
                 applied_target_positions, error_flags, judge,
                 bad_timing_cycles, latest_command_sequence, drained, ready_file>>

Closed == pc = "closed" /\ UNCHANGED vars
-----------------------------------------------------------------------------
Step ==
  \/ Connect \/ PublishReady \/ StartCycle
  \/ DrainEnds \/ UpdateOutputs \/ Exchange
  \/ RecordCycleTiming \/ SendFeedback \/ BeginClose \/ Release

Next ==
  \/ Step
  \/ \E d \in Datagrams : Receive(d)
  \/ Interrupt
  \/ Closed

Spec == Init /\ [][Next]_vars

\* The loop is paced by a timer, not by its client: the thread always runs on.
FairSpec == Spec /\ WF_vars(Step)
-----------------------------------------------------------------------------
\* Every variable keeps its type, the counters and the saturating clock included.
TypeOK ==
  /\ pc \in Pcs
  /\ bridge_state \in BridgeStates
  /\ halt_requested \in BOOLEAN /\ have_valid_command \in BOOLEAN
  /\ client_known \in BOOLEAN /\ ready_file \in BOOLEAN
  /\ actual_counts \in [Joint -> Int]
  /\ target_positions \in [Joint -> Int]
  /\ applied_target_positions \in [Joint -> Int]
  /\ output \in Frames
  /\ error_flags \subseteq ErrorFlags
  /\ bad_wkc_cycles \in 0 .. WkcFaultCycles
  /\ bad_state_cycles \in 0 .. StateFaultCycles
  /\ bad_timing_cycles \in 0 .. TimingFaultCycles
  /\ cycle_count \in 0 .. CycleCap
  /\ command_age \in 0 .. AgeCap
  /\ latest_command_sequence \in Nat /\ drained \in Nat

\* The bridge will drive a client's target unless something stops it first.
Engaged == have_valid_command /\ ~halt_requested /\ bridge_state \in {"READY", "HOLD"}

(***************************************************************************)
(* However many datagrams one drain takes, and whatever HALT and rejected  *)
(* commands come between them, the target the next frame will enable was   *)
(* compared with the target of the last enabled frame, or (the first       *)
(* command of the process) with the live feedback: queued samples never    *)
(* add up to a jump.                                                       *)
(***************************************************************************)
QueuedCommandsNeverAddUp ==
  (Engaged /\ pc \in {"drain", "output"}) =>
    \/ Within(target_positions, applied_target_positions, MaxStep)
    \/ Within(target_positions, actual_positions, FirstTol)

\* A client's target outside the position limits is never the target the
\* bridge goes on to drive, also when the first command was clamped or a HALT
\* replaced the target by a measured pose outside the limits.
EngagedTargetInLimits == Engaged => InLimits(target_positions)

\* The frame on the wire agrees with the state reported to the client: READY
\* enables the applied target; HOLD and FAULT halt every drive where it is.
FrameMatchesState ==
  pc = "exchange" =>
    /\ bridge_state \in {"READY", "HOLD", "FAULT"}
    /\ bridge_state = "READY" =>
         output = [word |-> "ENABLE", counts |-> CountsOf(applied_target_positions)]
    /\ bridge_state # "READY" => output = [word |-> "HALT", counts |-> actual_counts]

\* No frame enables a client's target that is older than the command watchdog,
\* whether or not the client is still there.
NoStaleCommandDriven ==
  pc = "exchange" /\ have_valid_command /\ output.word = "ENABLE" =>
    command_age <= WatchdogTicks /\ "COMMAND_WATCHDOG" \notin error_flags

\* A streak of bad frames that reached its limit is never forgotten: outside
\* FAULT and the shutdown every consecutive-error counter is below its limit.
StreakAtLimitIsFault ==
  bridge_state \notin {"FAULT", "STOPPED"} =>
    /\ bad_wkc_cycles < WkcFaultCycles
    /\ bad_state_cycles < StateFaultCycles
    /\ bad_timing_cycles < TimingFaultCycles

\* PDO_READY appears only after all prime cycles passed without a fault, and
\* does not outlive close().
MarkerOnlyAfterPriming ==
  /\ ready_file \/ pc = "publish" => cycle_count >= PrimeCycles
  /\ pc = "publish" => bridge_state # "FAULT"
  /\ ready_file => pc \in RunPcs \cup {"close"}

\* With allow_motion false the run loop never enables a drive, whatever is sent.
NoMotionWhenForbidden ==
  ~AllowMotion /\ pc = "exchange" =>
    output = [word |-> "HALT", counts |-> actual_counts]

(***************************************************************************)
(* The invariant behind those above.  A state of the bridge belongs to its *)
(* phase of the program; outside the drain the target a client is allowed  *)
(* to drive is the one that was applied; the watchdog flag implies a halt. *)
(***************************************************************************)
PhaseInv ==
  /\ pc = "connect" => /\ bridge_state = "STARTING"
                       /\ ~have_valid_command /\ ~halt_requested
  /\ pc \in PrimePcs => bridge_state \in {"READY", "HOLD"} /\ ~have_valid_command
  /\ pc \in RunPcs => bridge_state \in {"READY", "HOLD", "FAULT"}
  /\ bridge_state = "STOPPED" <=> pc \in {"release", "closed"}

AppliedInv ==
  /\ have_valid_command => AllowMotion
  /\ /\ pc \in RunPcs \cup PrimePcs
     /\ ~have_valid_command /\ ~halt_requested
     => target_positions = applied_target_positions
  /\ Engaged /\ pc \in {"exchange", "timing", "feedback", "cycle"} =>
       target_positions = applied_target_positions
  /\ "COMMAND_WATCHDOG" \in error_flags => halt_requested

IInv ==
  /\ TypeOK /\ PhaseInv /\ AppliedInv
  /\ QueuedCommandsNeverAddUp /\ EngagedTargetInLimits
  /\ FrameMatchesState /\ NoStaleCommandDriven
  /\ StreakAtLimitIsFault /\ MarkerOnlyAfterPriming

\* FAULT is left only by shutting the bridge down: no command, clean frame or
\* watchdog re-arm brings the bridge back.
FaultLatched == [][bridge_state = "FAULT" => bridge_state' \in {"FAULT", "STOPPED"}]_vars

\* The bridge implements the motion gate.
Gate == INSTANCE MotionGate WITH
  mode <- bridge_state, ref <- applied_target_positions, pose <- actual_positions
ImplementsGate == Gate!Spec

\* If the client goes silent for good, the drives end up halted for good,
\* unless no command was ever accepted (the bridge then holds the start pose).
SilenceEndsInHold ==
  \/ []<>(pc = "drain" /\ command_age = 0 /\ have_valid_command)
  \/ <>[](~have_valid_command)
  \/ <>[](output.word = "HALT")
  \/ <>(bridge_state = "STOPPED")

\* An unbroken run of bad frames, of whatever kind, ends in FAULT or shutdown.
BadFramesEndInFault ==
  (\/ <>[](bad_wkc_cycles > 0) \/ <>[](bad_state_cycles > 0)
   \/ <>[](bad_timing_cycles > 0))
    => <>(bridge_state \in {"FAULT", "STOPPED"})

(***************************************************************************)
(* What the repository says and the code does not do.                      *)
(***************************************************************************)
\* pdo_csp_bridge.py says of the step check that it compares with "the target
\* used in the previous PDO cycle" and prevents a multi-sample jump; then a
\* frame that resumes driving after a HALT frame is within one step of that
\* frame.  (The bound leaves room for rounding, for one cycle of movement and
\* for the tolerance of a first command.)
ResumeJumpBounded ==
  [][pc = "output" /\ output.word = "HALT" /\ output'.word = "ENABLE" =>
       \A j \in Joint :
         Distance(output'.counts[j], output.counts[j]) * TicksPerUnit[j] <=
           MaxStep[j] + FirstTol[j] + TicksPerUnit[j] * (1 + MaxMove)]_vars
=============================================================================
