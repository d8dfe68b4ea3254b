------------------------------- MODULE Homing -------------------------------
(***************************************************************************)
(* RasclRobotController (pysoem_bridge.py): the motion of the arm over SDO *)
(* before cyclic control, against the drives of module Axis.  The          *)
(* controller is one thread.  Its stack is todo, the operations still to   *)
(* be done: calling a method puts the operations of its body in front,     *)
(* returning takes one off, raising drops all but those of a finally       *)
(* clause.                                                                 *)
(*                                                                         *)
(* An SDO access is a step wherever a drive that moves between two of them *)
(* makes a difference: each control word, and in the searches the first    *)
(* reads of a poll and the last, the joint having moved in between.        *)
(* enable_drive is one step, the drive being without power during it.      *)
(*                                                                         *)
(* Deadlines are left open: a wait may time out whenever its condition was *)
(* not met.  All lengths are in places.                                    *)
(***************************************************************************)
EXTENDS Axis, Sequences

CONSTANTS
  Programs,      \* what the controller is asked to do, as sequences of Op
  Required,      \* required_reference_joints
  Strategy,
  NeedsParked,   \* [Joint -> SUBSET Joint]: requires_joint_at_negative_boundary
  Preferred,     \* direct_search_preferred_direction
  SingleSide,    \* search_direction of the single-switch strategy
  ParkDistance, SearchDistance, BackOff, EscapeDistance,
  Extension,     \* c_to_b_negative_software_limit_extension_rad
  Tolerance,     \* home_zero_tolerance_rad and pick_ready_tolerance_rad
  StartPlaces, StartZeros,   \* where the joints and their counters may start
  Standalone,    \* pysoem_bridge.py's own main() instead of hardware_bridge.py
  Hazards        \* which of "sdo", "link", "drive" and "interrupt" may happen

\* What _abc_homing_parameters and the methods that use it insist on.
HomingConfigOK ==
  /\ Strategy \in [Joint -> {"negative", "positive", "direct", "single"}]
  /\ NeedsParked \in [Joint -> SUBSET Joint]
  /\ {ParkDistance, SearchDistance, BackOff, EscapeDistance} \subseteq Nat \ {0}
  /\ Preferred \in {-1, 1} /\ SingleSide \in {-1, 1}
  /\ Extension \in Nat /\ Tolerance \in Nat
  /\ \A j \in Joint : LoLimit[j] - Extension < HiLimit[j]

ASSUME HomingAssumption ==
  /\ HomingConfigOK
  /\ Required \subseteq Joint /\ Standalone \in BOOLEAN
  /\ StartPlaces \in [Joint -> SUBSET Place] /\ StartZeros \subseteq Int

\* What a program is made of: homing steps, commands, gotos and the reference
\* check.
Entry ==
  [op : {"home", "park_a", "from_a", "park_boundary", "direct", "goto", "validate"},
   joint : Joint, arg : Int, kind : {"-"}, escape : {FALSE}]

ASSUME ProgramsAssumption == Programs \subseteq Seq(Entry)

VARIABLES
  todo,        \* operations still to be done, innermost call first
  raised,      \* "no", or the exception on its way out
  result,      \* "running", "homed", "failed" or "interrupted"
  sampled,     \* where the first reads of a poll found the joint
  unrestored   \* history: restoring the limits raised

hvars == <<axis, todo, raised, result, sampled, unrestored>>
NotRead == Last + 1

Op(name, j) == [op |-> name, joint |-> j, arg |-> 0, kind |-> "-", escape |-> FALSE]
Kind(name, j, k) == [Op(name, j) EXCEPT !.kind = k]

Now == Head(todo)
At(name) == result = "running" /\ todo # <<>> /\ Now.op = name
j0 == Now.joint
Here == axis[j0].pos

\* Method 37 zeroes the joint at its switch; what the counter then reads.
Within(a, b) == a - b \in -Tolerance .. Tolerance
OnReference(j) == On(j, "B", axis[j].pos) /\ Within(Counter(j), HomeOffset[j])
AtBoundary(j, p) == NegLimit(j, p) /\ ~PosLimit(j, p)

HInit ==
  /\ \E place \in [Joint -> Place], zero \in [Joint -> StartZeros] :
       /\ \A j \in Joint : place[j] \in StartPlaces[j]
       /\ axis = [j \in Joint |->
            [pos |-> place[j], zero |-> zero[j], lo |-> LoLimit[j],
             power |-> TRUE, halt |-> FALSE, start |-> FALSE, relative |-> FALSE,
             ack |-> FALSE, wanted |-> "position", mode |-> "position",
             target |-> place[j] - zero[j], goal |-> place[j] - zero[j],
             fault |-> FALSE]]
  /\ todo \in Programs
  /\ raised = "no" /\ result = "running"
  /\ sampled = NotRead /\ unrestored = FALSE
-----------------------------------------------------------------------------
(***************************************************************************)
(* Calling, returning, raising.                                            *)
(***************************************************************************)
Rest == UNCHANGED <<result, sampled, unrestored>>
Return == todo' = Tail(todo) /\ UNCHANGED raised
Call(ops) == todo' = ops \o Tail(todo) /\ UNCHANGED raised
BugNoFinally(o) == FALSE
IsFinally(o) == o.op = "restore"
\* No finally clause of the code is entered inside another: at most one of
\* them is pending.
Pending == {k \in 2 .. Len(todo) : IsFinally(todo[k])}
Unwind(kind) ==
  /\ todo' = IF Pending = {} THEN <<>> ELSE <<todo[CHOOSE k \in Pending : TRUE]>>
  /\ raised' = kind
Raise == Unwind("error")
Expect(condition) == IF condition THEN Return ELSE Raise
Halting(ops) == Call(<<Op("halt", j0)>> \o ops)
GiveUp == <<Op("give_up", j0)>>

RaiseNow == At("give_up") /\ Raise /\ UNCHANGED axis /\ Rest
-----------------------------------------------------------------------------
(***************************************************************************)
(* Enabling and moving one joint.                                          *)
(***************************************************************************)
\* enable_drive: no power, mode, target := actual position, power.
BugKeepsGoal(j) ==
  [axis[j] EXCEPT !.power = TRUE, !.halt = FALSE, !.start = FALSE,
     !.relative = FALSE, !.wanted = "position", !.mode = "position",
     !.ack = @ /\ axis[j].mode = "position"]
Enabled(j) ==
  [axis[j] EXCEPT !.power = TRUE, !.halt = FALSE, !.start = FALSE,
     !.relative = FALSE, !.wanted = "position", !.mode = "position",
     !.target = Counter(j), !.goal = Counter(j),
     !.ack = @ /\ axis[j].mode = "position"]

\* The mode is not confirmed, or an access fails, after the power is taken off.
Unpowered(j) ==
  [axis[j] EXCEPT !.power = FALSE, !.halt = FALSE, !.start = FALSE, !.relative = FALSE]
EnableFails ==
  /\ At("move") \/ At("goto") \/ (At("hold") /\ ~axis[j0].power)
  /\ "sdo" \in Hazards
  /\ axis' = [axis EXCEPT ![j0] = Unpowered(j0)]
  /\ Raise /\ Rest

\* A move is let go from a limit only if it leads away from it.
VerifiedEscape(j, delta) ==
  \/ NegLimit(j, axis[j].pos) /\ ~PosLimit(j, axis[j].pos) /\ delta > 0
  \/ PosLimit(j, axis[j].pos) /\ ~NegLimit(j, axis[j].pos) /\ delta < 0
Unsafe(escape) == axis[j0].fault \/ (Limited(j0, Here) /\ ~escape)

Handshake(kind, escape) ==
  <<[Kind("ready", j0, kind) EXCEPT !.escape = escape],
    [Op("latched", j0) EXCEPT !.escape = escape],
    [Op("released", j0) EXCEPT !.escape = escape]>>
Reach(count, escape) == [Op("reach", j0) EXCEPT !.arg = count, !.escape = escape]

\* move_joint_relative_radians.
Motion(j, by) == <<[Op("move", j) EXCEPT !.arg = by]>>
MotionToEnd(j, by) == <<[Kind("move", j, "wait") EXCEPT !.arg = by]>>
Move ==
  /\ At("move")
  /\ LET escape == Limited(j0, Here) IN
     IF escape /\ ~VerifiedEscape(j0, Now.arg)
       THEN axis' = [axis EXCEPT ![j0] = Enabled(j0)] /\ Raise
       ELSE /\ axis' = [axis EXCEPT ![j0] = [Enabled(j0) EXCEPT !.target = Now.arg]]
            /\ Call(Handshake("relative", escape)
                    \o (IF Now.kind = "wait"
                          THEN <<Reach(Counter(j0) + Now.arg, escape)>> ELSE <<>>))
  /\ Rest

\* _start_profile_position_motion.  Leaving on an error, it does not take back
\* the start bit.
Ready ==
  /\ At("ready")
  /\ \/ Unsafe(Now.escape) /\ Raise /\ UNCHANGED axis
     \/ /\ ~Unsafe(Now.escape) /\ ~axis[j0].ack
        /\ axis' = [axis EXCEPT ![j0].start = TRUE,
                                ![j0].relative = Now.kind = "relative"]
        /\ Return
  /\ Rest

Latched ==
  /\ At("latched")
  /\ \/ Unsafe(Now.escape) /\ Raise /\ UNCHANGED axis
     \/ /\ ~Unsafe(Now.escape) /\ axis[j0].ack
        /\ axis' = [axis EXCEPT ![j0].start = FALSE, ![j0].relative = FALSE]
        /\ Return
  /\ Rest

Released ==
  /\ At("released")
  /\ \/ Unsafe(Now.escape) /\ Raise
     \/ ~Unsafe(Now.escape) /\ ~axis[j0].ack /\ Return
  /\ UNCHANGED axis /\ Rest

\* wait_for_profile_target_reached.  A joint that does not leave its limit is
\* halted softly; a fault or a timeout is raised with the motion under way.
BugNoTargetReached == Within(Now.arg, Counter(j0)) /\ ~Limited(j0, Here)
Reached == AtGoal(j0, Here) /\ Within(Now.arg, Counter(j0)) /\ ~Limited(j0, Here)
AwaitTarget ==
  /\ At("reach")
  /\ \/ Unsafe(Now.escape) /\ Raise
     \/ ~Unsafe(Now.escape) /\ Reached /\ Return
     \/ ~axis[j0].fault /\ Limited(j0, Here) /\ Now.escape
          /\ Call(<<Op("soft_halt", j0), Op("resume", j0)>> \o GiveUp)
     \/ ~Unsafe(Now.escape) /\ ~Reached /\ Now.escape /\ ~Limited(j0, Here)
          /\ todo' = [todo EXCEPT ![1].escape = FALSE] /\ UNCHANGED raised
  /\ UNCHANGED axis /\ Rest

\* The control word of a halt: bits 4 and 6 are low.
Halted(j, p) ==
  [axis[j] EXCEPT !.halt = TRUE, !.start = FALSE, !.relative = FALSE, !.pos = p]
Halt ==
  /\ At("halt") \/ At("soft_halt")
  /\ \E p \in RestingPlaces(j0) : axis' = [axis EXCEPT ![j0] = Halted(j0, p)]
  /\ IF At("halt") THEN Expect(~axis[j0].fault) ELSE Return
  /\ Rest

SoftHaltEnds ==
  /\ At("resume")
  /\ axis' = [axis EXCEPT ![j0].halt = FALSE]
  /\ Return /\ Rest

\* One joint of move_joints: a limit is left first by a short step of its own.
Toward(a, b) ==
  IF b > a THEN (IF b - a < EscapeDistance THEN b ELSE a + EscapeDistance)
           ELSE (IF a - b < EscapeDistance THEN b ELSE a - EscapeDistance)
MoveJoint ==
  /\ At("goto")
  /\ LET escape == Limited(j0, Here)
         refused == escape /\ ~VerifiedEscape(j0, Now.arg - Counter(j0))
         first == IF escape THEN Toward(Counter(j0), Now.arg) ELSE Now.arg IN
     IF refused \/ Within(Now.arg, Counter(j0))
       THEN /\ axis' = [axis EXCEPT ![j0] = Enabled(j0)]
            /\ Expect(~refused /\ ~axis[j0].fault /\ ~escape)
       ELSE /\ axis' = [axis EXCEPT ![j0] = [Enabled(j0) EXCEPT !.target = first]]
            /\ Call(Handshake("absolute", escape) \o <<Reach(first, escape)>>
                    \o (IF escape THEN <<[Now EXCEPT !.op = "goto_rest"]>> ELSE <<>>))
  /\ Rest

MoveJointRest ==
  /\ At("goto_rest")
  /\ IF Within(Now.arg, Counter(j0))
       THEN Return /\ UNCHANGED axis
       ELSE /\ axis' = [axis EXCEPT ![j0].target = Now.arg]
            /\ Call(Handshake("absolute", FALSE) \o <<Reach(Now.arg, FALSE)>>)
  /\ Rest
-----------------------------------------------------------------------------
(***************************************************************************)
(* Searching.  A poll reads twice: First is where the joint was at the     *)
(* first reads.  wait_for_input_active_with_abort (kinds A and B) reads    *)
(* the switches first and then the status; the loops of park_joint_at_c    *)
(* (C), park_joint_at_negative_boundary (boundary), the directed search    *)
(* (plus, minus) and home_end_effector_toward_zero (single) the status.    *)
(***************************************************************************)
First == sampled
SwitchesFirst == Now.kind \in {"A", "B"}
Directed == Now.kind \in {"plus", "minus"}

NegEnd == On(j0, "A", Here) \/ NegLimit(j0, First)
PosEnd == On(j0, "C", Here) \/ PosLimit(j0, First)
Found ==
  CASE SwitchesFirst          -> On(j0, Now.kind, First)
    [] Now.kind = "C"         -> On(j0, "C", Here)
    [] Now.kind = "boundary"  -> NegEnd /\ ~PosEnd
    [] OTHER                  -> On(j0, "B", Here)

\* The end of the travel on the side searched, which only a directed search
\* takes for an answer.
EndReached ==
  \/ /\ Now.kind = "plus"
     /\ On(j0, "C", Here) \/ (~axis[j0].fault /\ SoftPos(j0, First))
  \/ /\ Now.kind = "minus"
     /\ On(j0, "A", Here) \/ (~axis[j0].fault /\ SoftNeg(j0, First))

Hopeless ==
  \/ axis[j0].fault
  \/ SwitchesFirst /\ (On(j0, "C", First) \/ Limited(j0, Here))
  \/ Now.kind = "C" /\ Limited(j0, First) /\ ~AtBoundary(j0, First)
  \/ Now.kind = "boundary" /\ PosEnd

\* After some time: the joint is still on the limit behind it, or at its target.
Stuck ==
  \/ Now.kind = "C" /\ AtBoundary(j0, First)
  \/ Now.kind = "plus" /\ SoftNeg(j0, First)
  \/ Now.kind = "minus" /\ SoftPos(j0, First)
Arrived == AtGoal(j0, IF SwitchesFirst THEN Here ELSE First)

FirstRead ==
  /\ At("seek") /\ sampled = NotRead
  /\ sampled' = Here
  /\ UNCHANGED <<axis, todo, raised, result, unrestored>>

\* A directed search is followed in todo by what to do if it finds only the end.
Decide ==
  /\ At("seek") /\ sampled # NotRead
  /\ \/ /\ Found
        /\ IF Directed
             THEN todo' = <<Op("halt", j0)>> \o Tail(Tail(todo)) /\ UNCHANGED raised
             ELSE Halting(<<>>)
     \/ ~Found /\ EndReached /\ Halting(<<>>)
     \/ ~Found /\ ~EndReached /\ (Hopeless \/ Stuck) /\ Halting(GiveUp)
     \/ ~Found /\ ~EndReached /\ ~Hopeless /\ Arrived
          /\ Halting(IF Directed THEN <<>> ELSE GiveUp)
     \/ ~Found /\ ~EndReached /\ ~Hopeless /\ UNCHANGED <<todo, raised>>
  /\ sampled' = NotRead
  /\ UNCHANGED <<axis, result, unrestored>>

\* The checks after a halt, and wait_for_input_inactive.
Holds(kind) ==
  CASE kind = "boundary" -> AtBoundary(j0, Here)
    [] kind = "free" -> ~Limited(j0, Here)
    [] OTHER -> On(j0, kind, Here)
CheckSwitch ==
  /\ At("check") /\ Expect(Holds(Now.kind)) /\ UNCHANGED axis /\ Rest
AwaitInactive ==
  /\ At("leave") /\ ~On(j0, "A", Here) /\ Return /\ UNCHANGED axis /\ Rest
-----------------------------------------------------------------------------
(***************************************************************************)
(* set_current_position_as_home, and set_current_single_switch_as_zero,    *)
(* which skips the set-point that replaces the target and does not wait    *)
(* for the mode.                                                           *)
(***************************************************************************)
Zeroing(j) == <<Op("request", j), Op("begin", j)>>
Finishing(j) == <<Op("finish", j), Op("verify", j)>>
SetHome(j) ==
  <<Op("neutral", j), Op("edge", j), Op("replaced", j)>> \o Zeroing(j)
    \o <<Op("confirm", j)>> \o Finishing(j)
SetSingleZero(j) == <<Op("neutral", j)>> \o Zeroing(j) \o Finishing(j)

\* target := actual position; then Halt is cleared.
NeutralTarget ==
  /\ At("neutral")
  /\ IF On(j0, "B", Here)
       THEN /\ axis' = [axis EXCEPT ![j0].target = Counter(j0), ![j0].halt = FALSE]
            /\ Return
       ELSE Raise /\ UNCHANGED axis
  /\ Rest

StartEdge ==
  /\ At("edge") \/ At("begin")
  /\ axis' = [axis EXCEPT ![j0].start = TRUE]
  /\ Return /\ Rest

TargetReplaced ==
  /\ At("replaced")
  /\ axis' = [axis EXCEPT ![j0].start = FALSE]
  /\ Expect(On(j0, "B", Here)) /\ Rest

RequestHoming ==
  /\ At("request")
  /\ axis' = [axis EXCEPT ![j0].wanted = "homing"]
  /\ Return /\ Rest

ConfirmHoming ==
  /\ At("confirm")
  /\ \/ axis[j0].mode = "homing" /\ Return
     \/ axis[j0].mode # "homing" /\ ~On(j0, "B", Here) /\ Raise
  /\ UNCHANGED axis /\ Rest

\* wait_for_homing_finished looks at bits 10 and 12, whichever the mode.
Attained == axis[j0].ack /\ (axis[j0].mode = "homing" \/ AtGoal(j0, Here))
AwaitHomed ==
  /\ At("finish")
  /\ \/ axis[j0].fault /\ Raise
     \/ ~axis[j0].fault /\ Attained /\ Return
  /\ UNCHANGED axis /\ Rest

BugNoSwitchCheck(j) == Within(Counter(j), HomeOffset[j])
ValidHome(j) == OnReference(j)
Verify ==
  /\ At("verify")
  /\ axis' = [axis EXCEPT ![j0].start = FALSE]
  /\ Expect(ValidHome(j0)) /\ Rest

ValidateReferences ==
  /\ At("validate")
  /\ Expect(\A j \in Required : ValidHome(j))
  /\ UNCHANGED axis /\ Rest
-----------------------------------------------------------------------------
(***************************************************************************)
(* The strategies.                                                         *)
(***************************************************************************)
BugForgetParked(j) == <<>>
Parked(j) ==
  IF NeedsParked[j] = {} THEN <<>>
  ELSE <<Op("hold", CHOOSE k \in NeedsParked[j] : TRUE)>>
Plan(j) ==
  CASE Strategy[j] = "negative" -> <<Op("park_a", j), Op("from_a", j)>>
    [] Strategy[j] = "positive" -> Parked(j) \o <<Op("park_c", j), Op("c_to_b", j)>>
    [] Strategy[j] = "direct"   -> <<Op("direct", j)>>
    [] Strategy[j] = "single"   -> <<Op("single", j)>>
HomeJoint == At("home") /\ Call(Plan(j0)) /\ UNCHANGED axis /\ Rest

\* home_all_joints, given homing.sequence (or a "home" for each of homing.order).
HomeAll(steps) == steps \o <<Op("validate", CHOOSE j \in Joint : TRUE)>>

\* move_joints, one joint after the other; move_to_pick_ready is one such move.
Goto(j, count) == [Op("goto", j) EXCEPT !.arg = count]
MoveJoints(joints, pose) == [k \in DOMAIN joints |-> Goto(joints[k], pose[joints[k]])]

\* The command file's verbs for one joint: HOME_JOINT, PARK_AT_A,
\* HOME_FROM_A_TO_B, PARK_AT_NEGATIVE_BOUNDARY and HOME_DIRECT_TO_B.
Commands(j) ==
  {<<Op(verb, j)>> : verb \in {"home", "park_a", "from_a", "park_boundary", "direct"}}

\* park_joint_at_a, with the escape from a limit in the way of the search.
SearchA ==
  IF On(j0, "A", Here) THEN <<>>
  ELSE Motion(j0, -ParkDistance) \o <<Kind("seek", j0, "A")>>
OntoA == <<Op("halt", j0), Kind("check", j0, "A")>>
ParkAtA ==
  /\ At("park_a")
  /\ IF ~On(j0, "A", Here) /\ AtBoundary(j0, Here)
       THEN Call(MotionToEnd(j0, EscapeDistance)
                 \o <<Kind("check", j0, "free"), Op("search_a", j0)>>)
       ELSE Call(SearchA \o OntoA)
  /\ UNCHANGED axis /\ Rest
ParkAtAAgain == At("search_a") /\ Call(SearchA \o OntoA) /\ UNCHANGED axis /\ Rest

\* home_joint_from_a_to_b.
HomeFromAToB ==
  /\ At("from_a")
  /\ IF On(j0, "A", Here)
       THEN Call(MotionToEnd(j0, BackOff) \o <<Op("leave", j0), Op("search_b", j0)>>)
       ELSE Raise
  /\ UNCHANGED axis /\ Rest
SearchB ==
  /\ At("search_b")
  /\ Call((IF On(j0, "B", Here) THEN <<>>
           ELSE Motion(j0, SearchDistance) \o <<Kind("seek", j0, "B")>>)
          \o <<Op("halt", j0)>> \o SetHome(j0))
  /\ UNCHANGED axis /\ Rest

ParkAtC ==
  /\ At("park_c")
  /\ Call((IF On(j0, "C", Here) THEN <<Op("halt", j0)>>
           ELSE Motion(j0, ParkDistance) \o <<Kind("seek", j0, "C")>>)
          \o <<Kind("check", j0, "C")>>)
  /\ UNCHANGED axis /\ Rest

\* hold_joint_at_negative_boundary: a drive without power is enabled first.
Hold ==
  /\ At("hold")
  /\ IF AtBoundary(j0, Here)
       THEN /\ axis' = IF axis[j0].power THEN axis
                       ELSE [axis EXCEPT ![j0] = Enabled(j0)]
            /\ Halting(<<Kind("check", j0, "boundary")>>)
       ELSE Raise /\ UNCHANGED axis
  /\ Rest

ParkAtBoundary ==
  /\ At("park_boundary")
  /\ Call((IF AtBoundary(j0, Here) THEN <<>>
           ELSE Motion(j0, -ParkDistance) \o <<Kind("seek", j0, "boundary")>>)
          \o <<Op("hold", j0)>>)
  /\ UNCHANGED axis /\ Rest

\* home_joint_direct_to_reference: away from a known boundary, else to the
\* preferred side; once back if only the end was found.
Side(d) == IF d = 1 THEN "plus" ELSE "minus"
Directly(d, otherwise) ==
  Motion(j0, d * SearchDistance) \o <<Kind("seek", j0, Side(d))>> \o otherwise
FirstDirection ==
  CASE AtBoundary(j0, Here) -> 1
    [] PosLimit(j0, Here) /\ ~NegLimit(j0, Here) -> -1
    [] OTHER -> Preferred
Direct ==
  /\ At("direct")
  /\ Call(Parked(j0) \o <<Op("direct_b", j0)>>)
  /\ UNCHANGED axis /\ Rest
DirectToB ==
  /\ At("direct_b")
  /\ IF On(j0, "B", Here)
       THEN Halting(SetHome(j0))
       ELSE Call(Directly(FirstDirection,
                   <<[Op("reverse", j0) EXCEPT !.arg = -FirstDirection]>>)
                 \o SetHome(j0))
  /\ UNCHANGED axis /\ Rest
Reverse ==
  /\ At("reverse") /\ Call(Directly(Now.arg, GiveUp)) /\ UNCHANGED axis /\ Rest

\* home_joint_from_c_to_b: the negative software limit is extended for the
\* search, and restored whatever happens.
LimitOp(name, count) == <<[Op(name, j0) EXCEPT !.arg = count]>>
Restore == LimitOp("restore", axis[j0].lo)
CToB ==
  /\ At("c_to_b")
  /\ IF ~On(j0, "C", Here) THEN Raise
     ELSE LET search == Directly(-1, GiveUp) \o SetHome(j0) IN
          Call(IF Extension = 0 THEN search
               ELSE LimitOp("extend", axis[j0].lo - Extension) \o search \o Restore)
  /\ UNCHANGED axis /\ Rest

\* set_software_position_limit_counts; the readback may differ.
WriteLimit ==
  /\ At("extend") \/ At("restore")
  /\ axis' = [axis EXCEPT ![j0].lo = Now.arg]
  /\ todo' = Tail(todo) /\ UNCHANGED raised /\ Rest

\* home_end_effector_toward_zero: in spite of its name, to one side only.
Single ==
  /\ At("single")
  /\ Call((IF On(j0, "B", Here) THEN <<Op("halt", j0)>>
           ELSE Motion(j0, SingleSide * SearchDistance) \o <<Kind("seek", j0, "single")>>)
          \o SetSingleZero(j0))
  /\ UNCHANGED axis /\ Rest
-----------------------------------------------------------------------------
(***************************************************************************)
(* Deadlines and failures.                                                 *)
(***************************************************************************)
BugNoHomingDeadline ==
  \/ (At("ready") \/ At("released")) /\ axis[j0].ack /\ ~Unsafe(Now.escape)
  \/ At("latched") /\ ~axis[j0].ack /\ ~Unsafe(Now.escape)
  \/ At("reach") /\ ~Reached /\ ~Unsafe(Now.escape)
  \/ At("seek") /\ sampled # NotRead /\ ~Found /\ ~EndReached /\ ~Hopeless
  \/ At("leave") /\ On(j0, "A", Here)
  \/ At("confirm") /\ axis[j0].mode # "homing" /\ On(j0, "B", Here)
Waiting ==
  \/ (At("ready") \/ At("released")) /\ axis[j0].ack /\ ~Unsafe(Now.escape)
  \/ At("latched") /\ ~axis[j0].ack /\ ~Unsafe(Now.escape)
  \/ At("reach") /\ ~Reached /\ ~Unsafe(Now.escape)
  \/ At("seek") /\ sampled # NotRead /\ ~Found /\ ~EndReached /\ ~Hopeless
  \/ At("leave") /\ On(j0, "A", Here)
  \/ At("confirm") /\ axis[j0].mode # "homing" /\ On(j0, "B", Here)
  \/ At("finish") /\ ~axis[j0].fault /\ ~Attained

\* Only a search halts its joint before it raises.
TimesOut ==
  /\ Waiting
  /\ IF At("seek") THEN Halting(GiveUp) ELSE Raise
  /\ axis' = IF At("confirm") THEN [axis EXCEPT ![j0].start = FALSE] ELSE axis
  /\ sampled' = NotRead
  /\ UNCHANGED <<result, unrestored>>

\* An SDO access fails, the last of its retries included, or SIGINT arrives.
Breaks(kind) ==
  /\ result = "running" /\ todo # <<>>
  /\ Unwind(kind)
  /\ unrestored' = (unrestored \/ IsFinally(Now))
  /\ sampled' = NotRead
  /\ UNCHANGED <<axis, result>>
SdoFails == "sdo" \in Hazards /\ Breaks(IF raised = "no" THEN "error" ELSE raised)
Interrupt == "interrupt" \in Hazards /\ Breaks("interrupt")
DriveFails ==
  /\ "drive" \in Hazards /\ result = "running"
  /\ \E j \in Joint : Fails(j)
  /\ UNCHANGED <<todo, raised, result, sampled, unrestored>>

\* disable_all_drives tries every drive, and passes over one it cannot reach.
BugDisableNothing == UNCHANGED axis
DisableAll ==
  \E reached \in (IF "link" \in Hazards THEN SUBSET Joint ELSE {Joint}) :
    axis' = [j \in Joint |-> IF j \in reached
                             THEN Unpowered(j) ELSE axis[j]]

Ended == result = "running" /\ todo = <<>>
Succeed ==
  /\ Ended /\ raised = "no" /\ ~Standalone
  /\ result' = "homed"
  /\ UNCHANGED <<axis, todo, raised, sampled, unrestored>>

\* hardware_bridge.py handles Exception, which SIGINT's is not.
Fail ==
  /\ Ended /\ raised = "error" /\ ~Standalone
  /\ result' = "failed" /\ DisableAll
  /\ UNCHANGED <<todo, raised, sampled, unrestored>>
Quit ==
  /\ Ended /\ raised = "interrupt"
  /\ result' = "interrupted"
  /\ IF Standalone THEN DisableAll ELSE UNCHANGED axis
  /\ UNCHANGED <<todo, raised, sampled, unrestored>>

\* pysoem_bridge.py's main() reports an error and reads the next command.
NextCommand ==
  /\ Ended /\ raised # "interrupt" /\ Standalone
  /\ todo' \in Programs /\ raised' = "no"
  /\ UNCHANGED <<axis, result, sampled, unrestored>>
-----------------------------------------------------------------------------
Stage == Succeed \/ Fail \/ Quit \/ NextCommand
Access ==
  \/ RaiseNow \/ Move \/ EnableFails \/ Ready \/ Latched \/ Released \/ AwaitTarget \/ Halt
  \/ SoftHaltEnds \/ MoveJoint \/ MoveJointRest
  \/ FirstRead \/ Decide \/ CheckSwitch \/ AwaitInactive
  \/ NeutralTarget \/ StartEdge \/ TargetReplaced \/ RequestHoming
  \/ ConfirmHoming \/ AwaitHomed \/ Verify \/ ValidateReferences
Strategize ==
  \/ HomeJoint \/ ParkAtA \/ ParkAtAAgain \/ HomeFromAToB \/ SearchB \/ ParkAtC
  \/ Hold \/ ParkAtBoundary \/ Direct \/ DirectToB \/ Reverse \/ CToB
  \/ WriteLimit \/ Single
Controller == Stage \/ Access \/ Strategize
Drives ==
  /\ \E j \in Joint : DriveStep(j)
  /\ UNCHANGED <<todo, raised, result, sampled, unrestored>>
Stopped == result # "running" /\ UNCHANGED hvars

HNext ==
  \/ Controller \/ TimesOut \/ SdoFails \/ Interrupt \/ DriveFails
  \/ Drives \/ Stopped
HSpec == HInit /\ [][HNext]_hvars

\* The thread runs, and the clock with it: a deadline is met in the end.
FairHoming == HSpec /\ WF_hvars(Controller) /\ SF_hvars(TimesOut)
-----------------------------------------------------------------------------
\* A program that ends with the reference check leaves the counter of every
\* required joint true: somewhere on B it reads the home offset.
Referenced(j) == \E q \in Switch[j]["B"] : Within(q - axis[j].zero, HomeOffset[j])
HomedMeansReferenced == result = "homed" => \A j \in Required : Referenced(j)

\* No two joints are ever in motion together.
OneAtATime == \A j, k \in Joint : Running(j) /\ Running(k) => j = k

\* When start-up or the command loop is over, the arm is at rest: nothing is
\* left that a cleared Halt or a late acknowledgement could set going.  An
\* interrupted start-up is left out: hardware_bridge.py does not handle it.
NothingLeftRunning ==
  \/ result = "homed" \/ result = "failed" \/ (result = "interrupted" /\ Standalone)
  => \A j \in Joint : ~Running(j)

\* No start bit is up that an acknowledgement could answer, and the target that the
\* drive has loaded is where the joint stands, or it cannot go there.
Still(a) ==
  ~a.start /\ (~a.power \/ a.halt \/ a.mode = "homing" \/ a.goal = a.pos - a.zero)
AtRest(j) == Still(axis[j])

\* A command that returns leaves its joint at rest, though an earlier one may have
\* given up on a handshake, a move or an access with the joint under way.
CommandLeavesRest ==
  [][\A j \in Joint :
       todo # <<>> /\ Now.joint = j /\ todo' = <<>> /\ raised' = "no" => AtRest(j)']_hvars

\* The upper arm moves only while the lower arm is out of its way.
ClearanceKept ==
  [][\A j \in Joint : axis'[j].pos # axis[j].pos =>
       \A k \in NeedsParked[j] : AtBoundary(k, axis[k].pos)]_hvars

\* "restored after method 37 establishes B as zero, or immediately after any
\* failure": unless the restoring write itself failed.
LimitsRestored ==
  result # "running" /\ ~unrestored => \A j \in Joint : axis[j].lo = LoLimit[j]

\* Whatever fails and however the joints behave, homing comes to an end.
HomingEnds == <>(result # "running")
=============================================================================
