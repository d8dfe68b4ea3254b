-------------------------- MODULE PdoBridge_proofs --------------------------
(***************************************************************************)
(* Theorems about PdoBridge, for every set of joints, every scaling and    *)
(* every configuration that satisfies its assumptions.                     *)
(***************************************************************************)
EXTENDS PdoBridge, PositionScaling_proofs, TLAPS

(***************************************************************************)
(* The conversions.                                                        *)
(***************************************************************************)
\* Rounding yields an integer.
LEMMA RoundingType ==
  ASSUME NEW n \in Int, NEW k \in Nat \ {0}
  PROVE  RoundHalfEven(n, k) \in Int
BY RoundingError

\* A measured position, read as an angle, is an integer number of ticks.
LEMMA AnglesType ==
  ASSUME NEW u \in [Joint -> Int]
  PROVE  AnglesOf(u) \in [Joint -> Int]
<1>1. ASSUME NEW j \in Joint
      PROVE  UnitsToModel(u[j], TicksPerUnit[j], Sign[j], DriveZero[j]) \in Int
  <2>1. /\ u[j] \in Int /\ TicksPerUnit[j] \in Int
        /\ Sign[j] \in Int /\ DriveZero[j] \in Int
    BY ConfigAssumption
  <2>2. u[j] * TicksPerUnit[j] - DriveZero[j] \in Int
    BY <2>1
  <2> QED
    BY <2>1, <2>2 DEF UnitsToModel, DriveToModel
<1> QED
  BY <1>1 DEF AnglesOf

\* A target angle becomes an integer number of drive units.
LEMMA CountsType ==
  ASSUME NEW a \in [Joint -> Int]
  PROVE  CountsOf(a) \in [Joint -> Int]
<1>1. ASSUME NEW j \in Joint
      PROVE  ModelToUnits(a[j], TicksPerUnit[j], Sign[j], DriveZero[j]) \in Int
  <2>1. /\ a[j] \in Int /\ TicksPerUnit[j] \in Nat \ {0}
        /\ Sign[j] \in Int /\ DriveZero[j] \in Int
    BY ConfigAssumption
  <2>2. ModelToDrive(a[j], Sign[j], DriveZero[j]) \in Int
    BY <2>1 DEF ModelToDrive
  <2> QED
    BY <2>1, <2>2, RoundingType DEF ModelToUnits
<1> QED
  BY <1>1 DEF CountsOf

(***************************************************************************)
(* Type correctness.                                                       *)
(***************************************************************************)
\* The first command is clamped to a vector of angles.
LEMMA NormalizeType ==
  ASSUME NEW a \in [Joint -> Int]
  PROVE  Normalize(a) \in [Joint -> Int]
BY ConfigAssumption DEF Normalize, Clamp

\* A saturating error counter stays between zero and its limit, and a counter
\* below the limit reaches it or goes on counting.
LEMMA CounterRange ==
  ASSUME NEW good \in BOOLEAN, NEW limit \in Nat \ {0}, NEW n \in 0 .. limit
  PROVE  CountBad(good, n, limit) \in 0 .. limit
BY DEF CountBad, UpTo

\* An accepted, rejected or ignored datagram leaves the variables well typed.
LEMMA ReceiveType ==
  ASSUME TypeOK, NEW d \in Datagrams, Receive(d)
  PROVE  TypeOK'
<1> USE DEF TypeOK
<1>1. d.kind # "malformed" => d.seq \in Nat
  BY EnvironmentAssumption DEF Datagrams
<1>2. actual_positions \in [Joint -> Int]
  BY AnglesType DEF actual_positions
<1>3. d.kind = "position" => Normalize(d.positions) \in [Joint -> Int]
  BY EnvironmentAssumption, NormalizeType DEF Datagrams
<1> DEFINE Typed == /\ halt_requested' \in BOOLEAN
                    /\ have_valid_command' \in BOOLEAN
                    /\ target_positions' \in [Joint -> Int]
                    /\ error_flags' \subseteq ErrorFlags
                    /\ command_age' \in 0 .. AgeCap
<1>4. Typed
  <2>1. CASE UNCHANGED <<halt_requested, command>> /\ error_flags' \subseteq ErrorFlags
    BY <2>1 DEF command
  <2>2. CASE HaltCommand
    BY <2>2, <1>2 DEF HaltCommand
  <2>3. ASSUME NEW flag \in ErrorFlags, Reject(flag)
        PROVE  Typed
    BY <2>3 DEF Reject, command
  <2>4. CASE d.kind = "position" /\ AcceptCommand(d.positions)
    <3>1. 0 \in 0 .. AgeCap
      BY ConfigAssumption DEF AgeCap
    <3> QED
      BY <2>4, <1>3, <3>1 DEF AcceptCommand
  <2>5. {"INVALID_COMMAND", "MOTION_DISABLED"} \subseteq ErrorFlags
    BY DEF ErrorFlags
  <2> QED
    BY <2>1, <2>2, <2>3, <2>4, <2>5 DEF Receive
<1>5. latest_command_sequence' \in Nat /\ drained' \in Nat /\ client_known' \in BOOLEAN
  BY <1>1 DEF Receive
<1> QED
  BY <1>4, <1>5 DEF Receive, drive, judge

\* The environment of one step: the witnesses of Next's disjuncts.
LEMMA ExchangeType ==
  ASSUME TypeOK, Exchange
  PROVE  TypeOK'
<1> USE DEF TypeOK
<1>1. PICK wkc_ok \in BOOLEAN, report \in [Joint -> Reports], pose \in Poses :
        ReadInputs(wkc_ok, report, pose)
  BY DEF Exchange
<1>2. pose \in [Joint -> Int]
  BY EnvironmentAssumption
<1>3. actual_counts' \in [Joint -> Int]
  BY <1>1, <1>2 DEF ReadInputs
<1>4. bad_wkc_cycles' \in 0 .. WkcFaultCycles
  BY <1>1, CounterRange, ConfigAssumption DEF ReadInputs
<1>5. bad_state_cycles' \in 0 .. StateFaultCycles
  BY <1>1, CounterRange, ConfigAssumption DEF ReadInputs
<1>6. cycle_count' \in 0 .. CycleCap
  <2>1. cycle_count' = UpTo(cycle_count + 1, CycleCap)
    BY <1>1 DEF ReadInputs
  <2>2. CycleCap \in Nat
    BY ConfigAssumption DEF CycleCap
  <2> QED
    BY <2>1, <2>2 DEF UpTo
<1>7. error_flags' \subseteq ErrorFlags
  <2>1. \A j \in Joint : JointErrors(j, report[j], AnglesOf(pose)) \subseteq ErrorFlags
    BY DEF JointErrors, ErrorFlags, DriveErrors
  <2>2. UNION {JointErrors(j, report[j], AnglesOf(pose)) : j \in Joint} \subseteq ErrorFlags
    BY <2>1
  <2>3. {"WKC", "WARNING"} \subseteq ErrorFlags
    BY DEF ErrorFlags
  <2> QED
    BY <1>1, <2>2, <2>3, Zenon DEF ReadInputs
<1>8. halt_requested' \in BOOLEAN /\ bridge_state' \in BridgeStates
  BY <1>1 DEF ReadInputs, BridgeStates
<1>9. pc' \in Pcs
  BY DEF Exchange, AfterExchange, Pcs, RunPcs, PrimePcs
<1> QED
  BY <1>3, <1>4, <1>5, <1>6, <1>7, <1>8, <1>9 DEF Exchange, command, ipc

\* Choosing the outputs leaves the variables well typed.
LEMMA UpdateOutputsType ==
  ASSUME TypeOK, UpdateOutputs
  PROVE  TypeOK'
<1> USE DEF TypeOK
<1>1. CountsOf(target_positions) \in [Joint -> Int]
  BY CountsType
<1>2. output' \in Frames
  BY <1>1 DEF UpdateOutputs, FaultOutput, HoldOutput, DriveOutput, Frames
<1>3. bridge_state' \in BridgeStates /\ applied_target_positions' \in [Joint -> Int]
  BY DEF UpdateOutputs, FaultOutput, HoldOutput, DriveOutput, BridgeStates
<1>4. halt_requested' \in BOOLEAN /\ error_flags' \subseteq ErrorFlags
  BY DEF UpdateOutputs, WatchdogExpired, ErrorFlags
<1>5. pc' \in Pcs
  BY DEF UpdateOutputs, Pcs, RunPcs, PrimePcs
<1> QED
  BY <1>2, <1>3, <1>4, <1>5 DEF UpdateOutputs, command, judge, ipc

\* Every step of the bridge leaves the variables well typed.
LEMMA StepType == TypeOK /\ [Next]_vars => TypeOK'
<1> SUFFICES ASSUME TypeOK, [Next]_vars
             PROVE  TypeOK'
  OBVIOUS
<1> USE DEF TypeOK, drive, command, judge, ipc
<1> USE DEF Pcs, RunPcs, PrimePcs
<1>1. CASE Connect
  <2>1. PICK pose \in Poses :
          /\ actual_counts' = pose
          /\ target_positions' = AnglesOf(pose)
          /\ applied_target_positions' = AnglesOf(pose)
          /\ output' = [word |-> "ENABLE", counts |-> pose]
    BY <1>1 DEF Connect
  <2>2. pose \in [Joint -> Int] /\ AnglesOf(pose) \in [Joint -> Int]
    BY EnvironmentAssumption, AnglesType
  <2> QED
    BY <1>1, <2>1, <2>2 DEF Connect, BridgeStates, Frames
<1>2. CASE PublishReady
  BY <1>2 DEF PublishReady, BridgeStates
<1>3. CASE StartCycle
  <2>1. command_age' \in 0 .. AgeCap
    BY <1>3, ConfigAssumption, EnvironmentAssumption DEF StartCycle, UpTo, AgeCap
  <2> QED
    BY <1>3, <2>1 DEF StartCycle
<1>4. CASE \E d \in Datagrams : Receive(d)
  BY <1>4, ReceiveType
<1>5. CASE DrainEnds
  BY <1>5 DEF DrainEnds, ErrorFlags
<1>6. CASE UpdateOutputs
  BY <1>6, UpdateOutputsType
<1>7. CASE Exchange
  BY <1>7, ExchangeType
<1>8. CASE RecordCycleTiming
  <2>1. bad_timing_cycles' \in 0 .. TimingFaultCycles
    <3>1. PICK late \in BOOLEAN : bad_timing_cycles' =
            CountBad(~late, bad_timing_cycles, TimingFaultCycles)
      BY <1>8 DEF RecordCycleTiming
    <3>2. (~late) \in BOOLEAN
      OBVIOUS
    <3> QED
      BY <3>1, <3>2, CounterRange, ConfigAssumption
  <2> QED
    BY <1>8, <2>1 DEF RecordCycleTiming, BridgeStates, ErrorFlags
<1>9. CASE SendFeedback
  BY <1>9 DEF SendFeedback
<1>10. CASE Interrupt
  BY <1>10 DEF Interrupt
<1>11. CASE BeginClose
  BY <1>11 DEF BeginClose, BridgeStates
<1>12. CASE Release
  <2>1. [word |-> "HALT", counts |-> actual_counts] \in Frames
    BY DEF Frames
  <2>2. output' \in Frames
    BY <1>12, <2>1 DEF Release
  <2> QED
    BY <1>12, <2>2 DEF Release
<1>13. CASE UNCHANGED vars
  BY <1>13 DEF vars
<1> QED
  BY <1>1, <1>2, <1>3, <1>4, <1>5, <1>6, <1>7, <1>8, <1>9, <1>10, <1>11, <1>12,
     <1>13 DEF Next, Step, Closed

\* The initial state is well typed.
LEMMA InitType == Init => TypeOK
<1> SUFFICES ASSUME Init PROVE TypeOK
  OBVIOUS
<1>1. AgeCap \in Nat /\ CycleCap \in Nat
  BY ConfigAssumption DEF AgeCap, CycleCap
<1> QED
  <2>1. [j \in Joint |-> 0] \in [Joint -> Int]
    OBVIOUS
  <2>2. output \in Frames
    BY <2>1 DEF Init, Frames
  <2>3. /\ bad_wkc_cycles \in 0 .. WkcFaultCycles
        /\ bad_state_cycles \in 0 .. StateFaultCycles
        /\ bad_timing_cycles \in 0 .. TimingFaultCycles
    BY ConfigAssumption DEF Init
  <2>4. cycle_count \in 0 .. CycleCap /\ command_age \in 0 .. AgeCap
    BY <1>1 DEF Init
  <2> QED
    BY <2>1, <2>2, <2>3, <2>4 DEF Init, TypeOK, Pcs, BridgeStates

\* Every variable of the bridge keeps its type: the error counters, the cycle
\* counter and the age of the last command never leave their saturating ranges.
THEOREM TypeCorrect == Spec => []TypeOK
BY InitType, StepType, PTL DEF Spec

(***************************************************************************)
(* The inductive invariant.  Each lemma below is one part of IInv; the     *)
(* parts are preserved together, so each assumes what it needs of the      *)
(* others.                                                                 *)
(***************************************************************************)
\* A phase of the program has the bridge states that belong to it.
LEMMA PhaseStep == TypeOK /\ PhaseInv /\ [Next]_vars => PhaseInv'
<1> SUFFICES ASSUME TypeOK, PhaseInv, [Next]_vars
             PROVE  PhaseInv'
  OBVIOUS
<1> USE DEF PhaseInv, RunPcs, PrimePcs, command, drive
<1>1. CASE Connect \/ PublishReady \/ StartCycle
  BY <1>1 DEF Connect, PublishReady, StartCycle
<1>2. CASE \E d \in Datagrams : Receive(d)
  BY <1>2 DEF Receive
<1>3. CASE DrainEnds \/ SendFeedback \/ Interrupt
  BY <1>3 DEF DrainEnds, SendFeedback, Interrupt
<1>4. CASE UpdateOutputs
  BY <1>4 DEF UpdateOutputs, FaultOutput, HoldOutput, DriveOutput
<1>5. CASE Exchange
  BY <1>5 DEF Exchange, ReadInputs, AfterExchange
<1>6. CASE RecordCycleTiming
  BY <1>6 DEF RecordCycleTiming
<1>7. CASE BeginClose \/ Release
  BY <1>7 DEF BeginClose, Release
<1>8. CASE UNCHANGED vars
  BY <1>8 DEF vars
<1> QED
  BY <1>1, <1>2, <1>3, <1>4, <1>5, <1>6, <1>7, <1>8 DEF Next, Step, Closed

\* Equal targets are within any step of each other.
LEMMA WithinRefl ==
  ASSUME NEW a \in [Joint -> Int], NEW tol \in [Joint -> Nat]
  PROVE  Within(a, a, tol)
BY DEF Within, Distance

\* What a drain may do to the target the bridge will drive.
LEMMA ReceiveStep ==
  ASSUME TypeOK, PhaseInv, AppliedInv, QueuedCommandsNeverAddUp,
         EngagedTargetInLimits, NEW d \in Datagrams, Receive(d)
  PROVE  AppliedInv' /\ QueuedCommandsNeverAddUp' /\ EngagedTargetInLimits'
<1> USE DEF AppliedInv, QueuedCommandsNeverAddUp, EngagedTargetInLimits, Engaged
<1>1. /\ pc = "drain" /\ pc' = pc /\ bridge_state' = bridge_state
      /\ applied_target_positions' = applied_target_positions
      /\ actual_counts' = actual_counts
  BY DEF Receive, drive
<1>2. actual_positions' = actual_positions
  BY <1>1 DEF actual_positions
<1>3. CASE UNCHANGED <<halt_requested, command>>
           /\ error_flags' \subseteq error_flags \cup {"INVALID_COMMAND"}
  <2>1. /\ halt_requested' = halt_requested
        /\ have_valid_command' = have_valid_command
        /\ target_positions' = target_positions
    BY <1>3 DEF command
  <2>2. "COMMAND_WATCHDOG" \in error_flags' => halt_requested'
    BY <1>3, <2>1
  <2>3. (Engaged /\ pc \in {"drain", "output"})' =
        (Engaged /\ pc \in {"drain", "output"})
    BY <1>1, <2>1
  <2>4. /\ Within(target_positions, applied_target_positions, MaxStep)' =
             Within(target_positions, applied_target_positions, MaxStep)
        /\ Within(target_positions, actual_positions, FirstTol)' =
             Within(target_positions, actual_positions, FirstTol)
        /\ InLimits(target_positions)' = InLimits(target_positions)
    BY <1>1, <1>2, <2>1 DEF Within, InLimits
  <2> QED
    BY <1>1, <2>1, <2>2, <2>3, <2>4
<1>4. CASE halt_requested' /\ have_valid_command' = have_valid_command
  BY <1>1, <1>4 DEF PhaseInv
<1>5. CASE /\ d.kind = "position"
           /\ Accepts(d.positions) /\ AllowMotion /\ AcceptCommand(d.positions)
  <2>1. InLimits(target_positions)'
    BY <1>5 DEF Accepts, Validates, AcceptCommand, InLimits
  <2>2. \/ Within(target_positions, applied_target_positions, MaxStep)'
        \/ Within(target_positions, actual_positions, FirstTol)'
    BY <1>1, <1>2, <1>5
    DEF Accepts, Validates, AcceptCommand, StepReference, Within
  <2> QED
    BY <1>1, <1>5, <2>1, <2>2 DEF AcceptCommand
<1>6. ASSUME NEW flag, Reject(flag)
      PROVE  halt_requested' /\ have_valid_command' = have_valid_command
  BY <1>6 DEF Reject, command
<1>7. HaltCommand => halt_requested' /\ have_valid_command' = have_valid_command
  BY DEF HaltCommand
<1> QED
  BY <1>3, <1>4, <1>5, <1>6, <1>7 DEF Receive

\* Choosing the outputs: either the target becomes the applied target, or the
\* bridge halts.
LEMMA UpdateOutputsStep ==
  ASSUME TypeOK, PhaseInv, AppliedInv, QueuedCommandsNeverAddUp,
         EngagedTargetInLimits, UpdateOutputs
  PROVE  /\ AppliedInv' /\ QueuedCommandsNeverAddUp' /\ EngagedTargetInLimits'
         /\ FrameMatchesState' /\ NoStaleCommandDriven'
<1> USE DEF AppliedInv, EngagedTargetInLimits, Engaged, RunPcs, PrimePcs
<1>1. /\ pc \in {"prime_output", "output"}
      /\ pc' = IF pc = "output" THEN "exchange" ELSE "prime_exchange"
      /\ have_valid_command' = have_valid_command
      /\ target_positions' = target_positions
      /\ command_age' = command_age
      /\ actual_counts' = actual_counts
      /\ halt_requested' = (halt_requested \/ WatchdogExpired)
      /\ error_flags' = IF WatchdogExpired
                          THEN error_flags \cup {"COMMAND_WATCHDOG"} ELSE error_flags
  BY DEF UpdateOutputs, command
<1>2. QueuedCommandsNeverAddUp'
  BY <1>1 DEF QueuedCommandsNeverAddUp
<1>3. "COMMAND_WATCHDOG" \in error_flags' => halt_requested'
  BY <1>1
<1>4. InLimits(target_positions)' = InLimits(target_positions)
  BY <1>1 DEF InLimits
<1>5. CASE FaultOutput
  <2>1. halt_requested' \/ have_valid_command \/
          target_positions = applied_target_positions
    BY <1>1
  <2> QED
    BY <1>1, <1>2, <1>3, <1>4, <1>5, <2>1
    DEF FaultOutput, FrameMatchesState, NoStaleCommandDriven, PhaseInv
<1>6. CASE HoldOutput
  <2>1. halt_requested' \/ ~have_valid_command
    BY <1>6 DEF HoldOutput, MayDrive
  <2> QED
    BY <1>1, <1>2, <1>3, <1>4, <1>6, <2>1
    DEF HoldOutput, FrameMatchesState, NoStaleCommandDriven
<1>7. CASE DriveOutput
  <2>1. ~halt_requested' /\ ~halt_requested /\ ~WatchdogExpired
    BY <1>1, <1>7 DEF DriveOutput, MayDrive
  <2>2. /\ applied_target_positions' = target_positions
        /\ bridge_state' = "READY" /\ bridge_state # "FAULT"
        /\ output' = [word |-> "ENABLE", counts |-> CountsOf(target_positions)]
    BY <1>7 DEF DriveOutput
  <2>3. CountsOf(applied_target_positions)' = CountsOf(target_positions)
    BY <2>2 DEF CountsOf
  <2>4. FrameMatchesState'
    BY <2>2, <2>3 DEF FrameMatchesState
  <2>5. NoStaleCommandDriven'
    <3>1. have_valid_command => command_age <= WatchdogTicks
      BY <2>1, ConfigAssumption DEF WatchdogExpired, TypeOK, AgeCap
    <3> QED
      BY <1>1, <1>3, <2>1, <3>1 DEF NoStaleCommandDriven
  <2> QED
    BY <1>1, <1>2, <1>3, <1>4, <2>1, <2>2, <2>4, <2>5 DEF PhaseInv
<1> QED
  BY <1>5, <1>6, <1>7 DEF UpdateOutputs

\* Judging the inputs can only add a halt, and ends the output phase.
LEMMA ExchangeStep ==
  ASSUME TypeOK, PhaseInv, AppliedInv, EngagedTargetInLimits, Exchange
  PROVE  /\ AppliedInv' /\ QueuedCommandsNeverAddUp' /\ EngagedTargetInLimits'
         /\ FrameMatchesState' /\ NoStaleCommandDriven'
<1> USE DEF AppliedInv, EngagedTargetInLimits, Engaged, RunPcs, PrimePcs
<1>1. /\ pc \in {"prime_exchange", "exchange"}
      /\ pc' \in {"timing", "close", "publish", "prime_output"}
      /\ pc = "exchange" => pc' = "timing"
      /\ have_valid_command' = have_valid_command
      /\ target_positions' = target_positions
      /\ applied_target_positions' = applied_target_positions
  BY DEF Exchange, AfterExchange, command
<1>2. /\ \/ halt_requested' = TRUE
         \/ halt_requested' = halt_requested /\ bridge_state' = bridge_state
      /\ "COMMAND_WATCHDOG" \in error_flags' => "COMMAND_WATCHDOG" \in error_flags
  <2>1. PICK wkc_ok \in BOOLEAN, report \in [Joint -> Reports], pose \in Poses :
          ReadInputs(wkc_ok, report, pose)
    BY DEF Exchange
  <2>2. "COMMAND_WATCHDOG" \notin
          UNION {JointErrors(j, report[j], AnglesOf(pose)) : j \in Joint}
    BY DEF JointErrors, DriveErrors
  <2> QED
    BY <2>1, <2>2 DEF ReadInputs
<1>3. InLimits(target_positions)' = InLimits(target_positions)
  BY <1>1 DEF InLimits
<1> QED
  BY <1>1, <1>2, <1>3
  DEF QueuedCommandsNeverAddUp, FrameMatchesState, NoStaleCommandDriven, PhaseInv

\* The parts of the invariant that are about commands and frames.
LEMMA CommandStep ==
  /\ TypeOK /\ PhaseInv /\ AppliedInv /\ QueuedCommandsNeverAddUp
  /\ EngagedTargetInLimits /\ FrameMatchesState /\ NoStaleCommandDriven
  /\ [Next]_vars
  => /\ AppliedInv' /\ QueuedCommandsNeverAddUp' /\ EngagedTargetInLimits'
     /\ FrameMatchesState' /\ NoStaleCommandDriven'
<1> SUFFICES ASSUME TypeOK, PhaseInv, AppliedInv, QueuedCommandsNeverAddUp,
                    EngagedTargetInLimits, FrameMatchesState,
                    NoStaleCommandDriven, [Next]_vars
             PROVE  /\ AppliedInv' /\ QueuedCommandsNeverAddUp'
                    /\ EngagedTargetInLimits'
                    /\ FrameMatchesState' /\ NoStaleCommandDriven'
  OBVIOUS
<1> USE DEF AppliedInv, Engaged, EngagedTargetInLimits, FrameMatchesState,
            NoStaleCommandDriven, QueuedCommandsNeverAddUp, RunPcs, PrimePcs,
            command, drive
<1>1. CASE Connect \/ Interrupt \/ BeginClose \/ Release
  BY <1>1 DEF Connect, Interrupt, BeginClose, Release, PhaseInv, InLimits
<1>2. CASE PublishReady
  BY <1>2 DEF PublishReady, PhaseInv
<1>3. CASE StartCycle
  <2>1. Engaged => target_positions = applied_target_positions
    BY <1>3 DEF StartCycle
  <2>2. Within(target_positions, target_positions, MaxStep)
    BY WithinRefl, ConfigAssumption DEF TypeOK
  <2>3. UNCHANGED <<target_positions, applied_target_positions, halt_requested,
                    have_valid_command, bridge_state, error_flags>> /\ pc' = "drain"
    BY <1>3 DEF StartCycle
  <2>4. Engaged' => Within(target_positions, applied_target_positions, MaxStep)'
    BY <2>1, <2>2, <2>3 DEF Within
  <2> QED
    BY <1>3, <2>3, <2>4 DEF StartCycle, InLimits
<1>4. CASE \E d \in Datagrams : Receive(d)
  <2>1. PICK d \in Datagrams : Receive(d)
    BY <1>4
  <2>2. pc' # "exchange"
    BY <2>1 DEF Receive
  <2> QED
    BY <2>1, <2>2, ReceiveStep
<1>5. CASE DrainEnds
  <2>1. UNCHANGED <<target_positions, applied_target_positions, halt_requested,
                    have_valid_command, bridge_state, actual_counts>>
    BY <1>5 DEF DrainEnds
  <2>2. pc = "drain" /\ pc' = "output"
    BY <1>5 DEF DrainEnds
  <2>3. actual_positions' = actual_positions
    BY <2>1 DEF actual_positions
  <2> QED
    BY <1>5, <2>1, <2>2, <2>3 DEF DrainEnds, Within, InLimits
<1>6. CASE UpdateOutputs
  BY <1>6, UpdateOutputsStep
<1>7. CASE Exchange
  BY <1>7, ExchangeStep
<1>8. CASE RecordCycleTiming \/ SendFeedback
  <2>1. /\ pc \in {"timing", "feedback"} /\ pc' \in {"feedback", "cycle"}
        /\ have_valid_command' = have_valid_command
        /\ target_positions' = target_positions
        /\ applied_target_positions' = applied_target_positions
        /\ \/ halt_requested' = TRUE
           \/ halt_requested' = halt_requested /\ bridge_state' = bridge_state
        /\ "COMMAND_WATCHDOG" \in error_flags' => "COMMAND_WATCHDOG" \in error_flags
    <3>1. CASE RecordCycleTiming
      BY <3>1 DEF RecordCycleTiming
    <3>2. CASE SendFeedback
      BY <3>2 DEF SendFeedback
    <3> QED
      BY <1>8, <3>1, <3>2
  <2>2. InLimits(target_positions)' = InLimits(target_positions)
    BY <2>1 DEF InLimits
  <2>3. Engaged' => Engaged
    BY <2>1
  <2>4. /\ EngagedTargetInLimits' /\ QueuedCommandsNeverAddUp'
        /\ FrameMatchesState' /\ NoStaleCommandDriven'
    BY <2>1, <2>2, <2>3
  <2>5. "COMMAND_WATCHDOG" \in error_flags' => halt_requested'
    <3>1. "COMMAND_WATCHDOG" \in error_flags => halt_requested
      OBVIOUS
    <3>2. CASE halt_requested' = TRUE
      BY <3>2
    <3>3. CASE halt_requested' = halt_requested
      BY <2>1, <3>1, <3>3
    <3> QED
      BY <2>1, <3>2, <3>3
  <2>6. /\ have_valid_command' => AllowMotion
        /\ (/\ pc \in RunPcs \cup PrimePcs
            /\ ~have_valid_command /\ ~halt_requested
            => target_positions = applied_target_positions)'
    BY <2>1
  <2> QED
    BY <2>1, <2>3, <2>4, <2>5, <2>6
<1>9. CASE UNCHANGED vars
  BY <1>9 DEF vars, Within, InLimits, actual_positions
<1> QED
  BY <1>1, <1>2, <1>3, <1>4, <1>5, <1>6, <1>7, <1>8, <1>9 DEF Next, Step, Closed

\* A consecutive-error counter below its limit is only moved to the limit by the
\* step that enters FAULT, and FAULT is not left for a running state.
LEMMA StreakStep ==
  TypeOK /\ PhaseInv /\ StreakAtLimitIsFault /\ [Next]_vars => StreakAtLimitIsFault'
<1> SUFFICES ASSUME TypeOK, PhaseInv, StreakAtLimitIsFault, [Next]_vars
             PROVE  StreakAtLimitIsFault'
  OBVIOUS
<1> USE DEF StreakAtLimitIsFault, judge
<1>1. CASE Connect \/ PublishReady \/ StartCycle
  BY <1>1 DEF Connect, PublishReady, StartCycle, PhaseInv, PrimePcs
<1>2. CASE \E d \in Datagrams : Receive(d)
  BY <1>2 DEF Receive
<1>3. CASE DrainEnds \/ SendFeedback \/ Interrupt \/ BeginClose \/ Release
  BY <1>3 DEF DrainEnds, SendFeedback, Interrupt, BeginClose, Release, PhaseInv
<1>4. CASE UpdateOutputs
  BY <1>4 DEF UpdateOutputs, FaultOutput, HoldOutput, DriveOutput, PhaseInv
<1>5. CASE Exchange
  <2>1. bad_timing_cycles' = bad_timing_cycles
    BY <1>5 DEF Exchange
  <2>2. \/ bridge_state' = "FAULT"
        \/ /\ bridge_state' = bridge_state
           /\ ~(bad_wkc_cycles' >= WkcFaultCycles)
           /\ ~(bad_state_cycles' >= StateFaultCycles)
    BY <1>5 DEF Exchange, ReadInputs
  <2>3. bad_wkc_cycles' \in Nat /\ bad_state_cycles' \in Nat
    BY <1>5, ExchangeType DEF TypeOK
  <2> QED
    BY <2>1, <2>2, <2>3, ConfigAssumption
<1>6. CASE RecordCycleTiming
  <2>1. bad_timing_cycles' \in Nat
    BY <1>6, StepType DEF TypeOK, Next, Step
  <2> QED
    BY <1>6, <2>1, ConfigAssumption DEF RecordCycleTiming
<1>7. CASE UNCHANGED vars
  BY <1>7 DEF vars
<1> QED
  BY <1>1, <1>2, <1>3, <1>4, <1>5, <1>6, <1>7 DEF Next, Step, Closed

\* The cycle counter never falls below the priming length once it reached it.
LEMMA MarkerStep ==
  TypeOK /\ PhaseInv /\ MarkerOnlyAfterPriming /\ [Next]_vars => MarkerOnlyAfterPriming'
<1> SUFFICES ASSUME TypeOK, PhaseInv, MarkerOnlyAfterPriming, [Next]_vars
             PROVE  MarkerOnlyAfterPriming'
  OBVIOUS
<1> USE DEF MarkerOnlyAfterPriming, RunPcs, PrimePcs, judge
<1>1. CASE Connect \/ PublishReady \/ StartCycle
  BY <1>1 DEF Connect, PublishReady, StartCycle
<1>2. CASE \E d \in Datagrams : Receive(d)
  BY <1>2 DEF Receive
<1>3. CASE DrainEnds
  BY <1>3 DEF DrainEnds
<1>10. CASE SendFeedback
  BY <1>10 DEF SendFeedback
<1>11. CASE Interrupt
  BY <1>11 DEF Interrupt
<1>4. CASE UpdateOutputs
  BY <1>4 DEF UpdateOutputs
<1>8. CASE BeginClose
  BY <1>8 DEF BeginClose
<1>9. CASE Release
  BY <1>9 DEF Release
<1>5. CASE Exchange
  <2>1. cycle_count' = UpTo(cycle_count + 1, CycleCap)
    BY <1>5 DEF Exchange, ReadInputs
  <2>2. cycle_count >= PrimeCycles => cycle_count' >= PrimeCycles
    BY <2>1, ConfigAssumption DEF UpTo, CycleCap, TypeOK
  <2>3. /\ pc' \in {"timing", "close", "publish", "prime_output"}
        /\ pc' = "publish" => cycle_count' >= PrimeCycles /\ bridge_state' # "FAULT"
        /\ pc = "exchange" => pc' = "timing"
        /\ pc \in {"exchange", "prime_exchange"} /\ ready_file' = ready_file
    BY <1>5 DEF Exchange, AfterExchange
  <2> QED
    BY <2>2, <2>3
<1>6. CASE RecordCycleTiming
  BY <1>6 DEF RecordCycleTiming
<1>7. CASE UNCHANGED vars
  BY <1>7 DEF vars
<1> QED
  BY <1>1, <1>2, <1>3, <1>4, <1>5, <1>6, <1>7, <1>8, <1>9,
     <1>10, <1>11
  DEF Next, Step, Closed

\* The inductive invariant holds of every behaviour.
THEOREM Invariance == Spec => []IInv
<1>1. Init => IInv
  <2> SUFFICES ASSUME Init PROVE IInv
    OBVIOUS
  <2>1. TypeOK
    BY InitType
  <2> QED
    BY <2>1, ConfigAssumption
    DEF Init, IInv, PhaseInv, AppliedInv, QueuedCommandsNeverAddUp,
        EngagedTargetInLimits, Engaged, FrameMatchesState, NoStaleCommandDriven,
        StreakAtLimitIsFault, MarkerOnlyAfterPriming, RunPcs, PrimePcs
<1>2. IInv /\ [Next]_vars => IInv'
  BY StepType, PhaseStep, CommandStep, StreakStep, MarkerStep DEF IInv
<1> QED
  BY <1>1, <1>2, PTL DEF Spec

\* Several datagrams in one drain never add up to a jump of the target.
THEOREM QueuedCommands == Spec => []QueuedCommandsNeverAddUp
<1>1. IInv => QueuedCommandsNeverAddUp
  BY DEF IInv
<1> QED
  BY <1>1, Invariance, PTL

\* The bridge only ever drives client targets inside the position limits.
THEOREM Limits == Spec => []EngagedTargetInLimits
<1>1. IInv => EngagedTargetInLimits
  BY DEF IInv
<1> QED
  BY <1>1, Invariance, PTL

\* The frame sent agrees with the state reported.
THEOREM Frame == Spec => []FrameMatchesState
<1>1. IInv => FrameMatchesState
  BY DEF IInv
<1> QED
  BY <1>1, Invariance, PTL

\* The command watchdog: no frame drives a target older than its limit.
THEOREM Watchdog == Spec => []NoStaleCommandDriven
<1>1. IInv => NoStaleCommandDriven
  BY DEF IInv
<1> QED
  BY <1>1, Invariance, PTL

\* An error streak at its limit means FAULT.
THEOREM Streak == Spec => []StreakAtLimitIsFault
<1>1. IInv => StreakAtLimitIsFault
  BY DEF IInv
<1> QED
  BY <1>1, Invariance, PTL

\* The readiness marker exists only between priming and shutdown.
THEOREM Marker == Spec => []MarkerOnlyAfterPriming
<1>1. IInv => MarkerOnlyAfterPriming
  BY DEF IInv
<1> QED
  BY <1>1, Invariance, PTL

\* With allow_motion false, every frame of the run loop halts every drive at its
\* measured position: the state is never READY when a frame goes out.
THEOREM Forbidden == Spec => []NoMotionWhenForbidden
<1>1. NoMotionWhenForbidden /\ [Next]_vars => NoMotionWhenForbidden'
  <2> SUFFICES ASSUME NoMotionWhenForbidden, [Next]_vars, ~AllowMotion, pc' = "exchange"
               PROVE  (output = [word |-> "HALT", counts |-> actual_counts])'
    BY DEF NoMotionWhenForbidden
  <2>1. CASE UpdateOutputs
    BY <2>1 DEF UpdateOutputs, FaultOutput, HoldOutput, DriveOutput, MayDrive
  <2>2. CASE UNCHANGED vars
    BY <2>2 DEF vars, drive, NoMotionWhenForbidden
  <2>3. CASE \E d \in Datagrams : Receive(d)
    BY <2>3 DEF Receive
  <2>4. pc' # "exchange" \/ UpdateOutputs \/ UNCHANGED vars
          \/ \E d \in Datagrams : Receive(d)
    BY DEF Next, Step, Closed, Connect, PublishReady, StartCycle, DrainEnds,
       Exchange, AfterExchange, RecordCycleTiming, SendFeedback, Interrupt,
       BeginClose, Release
  <2> QED
    BY <2>1, <2>2, <2>3, <2>4
<1>2. Init => NoMotionWhenForbidden
  BY DEF Init, NoMotionWhenForbidden
<1> QED
  BY <1>1, <1>2, PTL DEF Spec

(***************************************************************************)
(* Action properties and the refinement.  Each step of the bridge is one   *)
(* step of the motion gate or leaves its variables alone.                  *)
(***************************************************************************)
\* FAULT is left only by shutting down.
THEOREM Latched == Spec => FaultLatched
<1>1. IInv /\ [Next]_vars =>
        [bridge_state = "FAULT" => bridge_state' \in {"FAULT", "STOPPED"}]_vars
  <2> SUFFICES ASSUME IInv, [Next]_vars, bridge_state = "FAULT"
               PROVE  bridge_state' \in {"FAULT", "STOPPED"}
    OBVIOUS
  <2>1. pc # "connect" /\ pc # "publish"
    BY DEF IInv, PhaseInv, PrimePcs
  <2>2. CASE UpdateOutputs
    BY <2>2 DEF UpdateOutputs, FaultOutput, HoldOutput, DriveOutput
  <2>3. CASE Exchange
    BY <2>3 DEF Exchange, ReadInputs
  <2>4. CASE \E d \in Datagrams : Receive(d)
    BY <2>4 DEF Receive
  <2>5. CASE UNCHANGED vars
    BY <2>5 DEF vars
  <2>6. CASE StartCycle \/ DrainEnds \/ SendFeedback \/ Interrupt \/ Release
    BY <2>6 DEF StartCycle, DrainEnds, SendFeedback, Interrupt, Release
  <2>7. CASE RecordCycleTiming \/ BeginClose
    BY <2>7 DEF RecordCycleTiming, BeginClose
  <2> QED
    BY <2>1, <2>2, <2>3, <2>4, <2>5, <2>6, <2>7
    DEF Next, Step, Closed, Connect, PublishReady
<1> QED
  BY <1>1, Invariance, PTL DEF Spec, FaultLatched

\* _radians_to_position_units never raises OverflowError for a target the
\* bridge goes on to drive: its encoding fits the S32 entry of the frame.
THEOREM TargetsFitS32 == Spec => [](Engaged => CountsOf(target_positions) \in [Joint -> S32])
<1>1. IInv => (Engaged => CountsOf(target_positions) \in [Joint -> S32])
  <2> SUFFICES ASSUME IInv, Engaged
               PROVE  CountsOf(target_positions) \in [Joint -> S32]
    OBVIOUS
  <2>1. TypeOK /\ EngagedTargetInLimits
    BY DEF IInv
  <2>2. ASSUME NEW j \in Joint
        PROVE  ModelToUnits(target_positions[j], TicksPerUnit[j], Sign[j], DriveZero[j])
                 \in S32
    <3>1. /\ target_positions[j] \in Int
          /\ PosMin[j] <= target_positions[j] /\ target_positions[j] <= PosMax[j]
      BY <2>1 DEF TypeOK, EngagedTargetInLimits, InLimits
    <3>2. /\ PosMin[j] \in Int /\ PosMax[j] \in Int
          /\ TicksPerUnit[j] \in Nat \ {0} /\ Sign[j] \in {-1, 1} /\ DriveZero[j] \in Int
          /\ RangeFitsS32(PosMin[j], PosMax[j], TicksPerUnit[j], Sign[j], DriveZero[j])
      BY ConfigAssumption
    <3> QED
      BY <3>1, <3>2, CommandFitsS32
  <2> QED
    BY <2>2 DEF CountsOf
<1> QED
  BY <1>1, Invariance, PTL

\* The gate's comparisons are the bridge's.
LEMMA GateComparisons ==
  /\ \A a, b, tol : Gate!Near(a, b, tol) <=> Within(a, b, tol)
  /\ \A a : Gate!Allowed(a) <=> InLimits(a)
BY DEF Gate!Near, Within, Distance, Gate!Allowed, InLimits

\* A frame that enables the drives moves the reference as the gate allows.
LEMMA DriveRefines ==
  ASSUME IInv, UpdateOutputs, DriveOutput
  PROVE  Gate!Drive
<1> USE DEF IInv
<1>1. /\ ~halt_requested /\ pc \in {"prime_output", "output"}
      /\ bridge_state' = "READY"
      /\ applied_target_positions' = target_positions
      /\ actual_counts' = actual_counts
  BY DEF UpdateOutputs, DriveOutput, MayDrive
<1>2. bridge_state \in {"READY", "HOLD"}
  BY <1>1 DEF PhaseInv, RunPcs, PrimePcs, DriveOutput
<1>3. actual_positions' = actual_positions
  BY <1>1 DEF actual_positions
<1>4. CASE ~have_valid_command
  <2>1. target_positions = applied_target_positions
    BY <1>1, <1>4 DEF AppliedInv, RunPcs, PrimePcs
  <2> QED
    BY <1>1, <1>2, <1>3, <2>1 DEF Gate!Drive, TypeOK
<1>5. CASE have_valid_command
  <2>1. pc = "output" /\ Engaged
    BY <1>1, <1>2, <1>5 DEF PhaseInv, PrimePcs, Engaged
  <2>2. /\ InLimits(target_positions)
        /\ \/ Within(target_positions, applied_target_positions, MaxStep)
           \/ Within(target_positions, actual_positions, FirstTol)
    BY <2>1 DEF EngagedTargetInLimits, QueuedCommandsNeverAddUp
  <2>3. /\ Gate!Allowed(applied_target_positions')
        /\ \/ Gate!Near(applied_target_positions', applied_target_positions, MaxStep)
           \/ Gate!Near(applied_target_positions', actual_positions, FirstTol)
    BY <1>1, <2>2, GateComparisons
  <2> QED
    BY <1>1, <1>2, <1>3, <2>3 DEF Gate!Drive, TypeOK
<1> QED
  BY <1>4, <1>5

\* The bridge implements the motion gate: its reference moves only in an enabled
\* frame, only to a checked target, and never again after a failure.
THEOREM Refinement == Spec => ImplementsGate
<1>1. Init => Gate!Init
  BY DEF Init, Gate!Init
<1>2. IInv /\ IInv' /\ [Next]_vars => [Gate!Next]_(Gate!gateVars)
  <2> SUFFICES ASSUME IInv, IInv', [Next]_vars
               PROVE  Gate!Next \/ UNCHANGED Gate!gateVars
    OBVIOUS
  <2> USE DEF Gate!gateVars, Gate!Next
  <2>1. actual_positions' \in [Joint -> Int]
    <3>1. (actual_counts \in [Joint -> Int])'
      BY DEF IInv, TypeOK
    <3> QED
      BY <3>1, AnglesType DEF actual_positions
  <2>2. actual_counts' = actual_counts => actual_positions' = actual_positions
    BY DEF actual_positions
  <2>3. CASE Connect
    <3>1. bridge_state = "STARTING" /\ bridge_state' = "HOLD"
      BY <2>3 DEF Connect, IInv, PhaseInv
    <3>2. applied_target_positions' = actual_positions'
      BY <2>3 DEF Connect, actual_positions
    <3> QED
      BY <2>1, <3>1, <3>2 DEF Gate!Calibrate
  <2>4. CASE PublishReady
    BY <2>2, <2>4 DEF PublishReady, drive, IInv, PhaseInv, PrimePcs, Gate!Hold
  <2>5. CASE UpdateOutputs
    <3>1. CASE DriveOutput
      BY <2>5, <3>1, DriveRefines
    <3>2. CASE HoldOutput
      BY <2>2, <2>5, <3>2
      DEF UpdateOutputs, HoldOutput, IInv, PhaseInv, RunPcs, PrimePcs, Gate!Hold
    <3>3. CASE FaultOutput
      BY <2>2, <2>5, <3>3 DEF UpdateOutputs, FaultOutput
    <3> QED
      BY <2>5, <3>1, <3>2, <3>3 DEF UpdateOutputs
  <2>6. CASE Exchange
    <3>1. /\ bridge_state \in {"READY", "HOLD", "FAULT"}
          /\ bridge_state' \in {bridge_state, "FAULT"}
          /\ applied_target_positions' = applied_target_positions
      BY <2>6 DEF Exchange, ReadInputs, IInv, PhaseInv, RunPcs, PrimePcs
    <3> QED
      BY <2>1, <3>1 DEF Gate!Sense
  <2>7. CASE RecordCycleTiming
    <3>1. /\ bridge_state \in {"READY", "HOLD", "FAULT"}
          /\ bridge_state' \in {bridge_state, "FAULT"}
          /\ applied_target_positions' = applied_target_positions
      BY <2>7 DEF RecordCycleTiming, IInv, PhaseInv, RunPcs
    <3> QED
      BY <2>1, <3>1 DEF Gate!Sense
  <2>8. CASE BeginClose
    BY <2>2, <2>8 DEF BeginClose, drive, IInv, PhaseInv, Gate!Stop
  <2>9. CASE StartCycle \/ DrainEnds \/ SendFeedback \/ Interrupt
    BY <2>2, <2>9 DEF StartCycle, DrainEnds, SendFeedback, Interrupt, drive
  <2>10. CASE Release \/ UNCHANGED vars
    BY <2>2, <2>10 DEF Release, vars, drive
  <2>11. CASE \E d \in Datagrams : Receive(d)
    BY <2>2, <2>11 DEF Receive, drive
  <2> QED
    BY <2>3, <2>4, <2>5, <2>6, <2>7, <2>8, <2>9, <2>10, <2>11 DEF Next, Step, Closed
<1> QED
  BY <1>1, <1>2, Invariance, PTL DEF Spec, ImplementsGate, Gate!Spec
=============================================================================
