------------------------------ MODULE Streaming ------------------------------
(***************************************************************************)
(* How Task 2 turns a plan into the commands that are sent: the segments   *)
(* of Task2Planner.plan, validate_and_time_scale with its resampling and   *)
(* its stretching, and the executor, which resamples once more.            *)
(*                                                                         *)
(* Time is counted in ticks and positions in whole units; a quotient that  *)
(* is not whole is rounded down.  The arm is one joint; inverse            *)
(* kinematics, which lies outside the model, is a straight line.  The      *)
(* factor by which time is stretched is rounded up to one that keeps the   *)
(* times whole.                                                            *)
(***************************************************************************)
EXTENDS Integers, Sequences, FiniteSetsExt

CONSTANTS
  Durations,     \* of segments, from which the run takes one
  Period,        \* planning_sample_period_s
  Step,          \* 1 / publish_rate_hz
  Places,        \* [ready, aboveCube, cube, aboveGoal, goal -> arm]
  Open, Hold,    \* gripper angles
  Grips,         \* gripper angles the cycle may find
  GripLimits,    \* position limits of the gripper
  MaxVelocity, MaxAcceleration

\* _sample_times raises unless a duration is positive.
ASSUME StreamingAssumption ==
  /\ Period \in Nat \ {0} /\ Step \in Nat \ {0}
  /\ Durations \subseteq
       [transfer : Nat \ {0}, vertical : Nat \ {0}, grip : Nat \ {0}, home : Nat \ {0}]
  /\ Places \in [ready : Int, aboveCube : Int, cube : Int, aboveGoal : Int, goal : Int]
  /\ {Open, Hold} \cup Grips \subseteq Int
  /\ MaxVelocity \in Nat \ {0} /\ MaxAcceleration \in Nat \ {0}

VARIABLES
  pc,          \* "plan", "check", "measure", "send", "sent" or "rejected"
  durations, start,
  moves,       \* the segments still to be appended to the plan
  path,        \* the samples [t, arm, grip, marker]: the plan, then what is resampled
  out,         \* the stream made of them so far
  source,      \* source_index
  passes       \* of the loop in validate_and_time_scale

vars == <<pc, durations, start, moves, path, out, source, passes>>

AbsOf(x) == IF x < 0 THEN -x ELSE x
CeilDiv(a, b) == (a + b - 1) \div b
Duration(samples) == samples[Len(samples)].t
-----------------------------------------------------------------------------
(***************************************************************************)
(* Segments.                                                               *)
(***************************************************************************)
\* min_jerk_scalar at k/n, and what it makes of a travel from a to b.
Cube(k) == k * k * k
Blend(k, n) == Cube(k) * (10 * n * n - 15 * k * n + 6 * k * k)
Blended(a, b, k, n) == a + ((b - a) * Blend(k, n)) \div (Cube(n) * n * n)

\* _sample_times, joint_segment and cartesian_segment.
Segment(t0, s) ==
  LET n == CeilDiv(s.duration, Period)
  IN  [j \in 1 .. n + 1 |->
        [t |-> t0 + ((j - 1) * s.duration) \div n,
         arm |-> Blended(s.from.arm, s.to.arm, j - 1, n),
         grip |-> Blended(s.from.grip, s.to.grip, j - 1, n),
         marker |-> s.marker]]

\* append_segment: the first sample repeats the last one there is.
AppendSegment(samples, s) ==
  IF samples = <<>> THEN Segment(0, s)
  ELSE samples \o Tail(Segment(Duration(samples), s))

At(place, grip) == [arm |-> Places[place], grip |-> grip]
Move(from, to, d, marker) == [from |-> from, to |-> to, duration |-> d, marker |-> marker]
BugClosesAbove == "aboveCube"
ClosesAt == "cube"

\* Task2Planner.plan.  An open gripper needs no opening.
Plan ==
  LET d == durations
      Opening ==
        IF start = Open THEN <<>>
        ELSE <<Move(At("ready", start), At("ready", Open), d.grip, 0)>>
      Approach ==
        <<Move(At("ready", Open), At("aboveCube", Open), d.transfer, 0),
          Move(At("aboveCube", Open), At("cube", Open), d.vertical, 0)>>
      Carry ==
        <<Move(At(ClosesAt, Open), At(ClosesAt, Hold), d.grip, 1),
          Move(At("cube", Hold), At("aboveCube", Hold), d.vertical, 1),
          Move(At("aboveCube", Hold), At("aboveGoal", Hold), d.transfer, 1),
          Move(At("aboveGoal", Hold), At("goal", Hold), d.vertical, 1)>>
      Return ==
        <<Move(At("goal", Hold), At("goal", Open), d.grip, 0),
          Move(At("goal", Open), At("aboveGoal", Open), d.vertical, 0),
          Move(At("aboveGoal", Open), At("ready", Open), d.home, 0)>>
  IN  Opening \o Approach \o Carry \o Return
-----------------------------------------------------------------------------
(***************************************************************************)
(* resample_trajectory and TrajectoryExecutor._resample_trajectory.        *)
(***************************************************************************)
BugDefaultRate == Step + 1
SendStep == Step
StepNow == IF pc = "send" THEN SendStep ELSE Step
Target == Min({Len(out) * StepNow, Duration(path)})

BugHoldsLeft(left, right, f, t) == left[f]
Interpolated(left, right, f, t) ==
  left[f] + ((right[f] - left[f]) * (t - left.t)) \div (right.t - left.t)
SampleAt(t, k) ==
  LET left == path[k] right == path[k + 1]
  IN  [t |-> t,
       arm |-> Interpolated(left, right, "arm", t),
       grip |-> Interpolated(left, right, "grip", t),
       marker |-> IF t < right.t THEN left.marker ELSE right.marker]

\* One round of the inner while: on to the last sample before the target.
Behind == source < Len(path) /\ path[source + 1].t < Target
Advance ==
  /\ Behind
  /\ source' = source + 1
  /\ UNCHANGED <<pc, durations, start, moves, path, out, passes>>

\* One round of the outer while.  The target not being after the path's end,
\* there is a sample to the right.
Emit(next) ==
  /\ ~Behind
  /\ out' = Append(out, SampleAt(Target, source))
  /\ pc' = IF Target >= Duration(path) THEN next ELSE pc
  /\ UNCHANGED <<durations, start, moves, path, source, passes>>
Resample(next) == Advance \/ Emit(next)
-----------------------------------------------------------------------------
(***************************************************************************)
(* trajectory_metrics and validate_and_time_scale.                         *)
(***************************************************************************)
\* Stretched by half / 2, the velocities of f fit; and the accelerations.
VelocityFits(samples, f, half) ==
  \A k \in 1 .. Len(samples) - 1 :
    2 * AbsOf(samples[k + 1][f] - samples[k][f])
      <= MaxVelocity * half * (samples[k + 1].t - samples[k].t)
AccelerationFits(samples, f, half) ==
  \A k \in 2 .. Len(samples) - 1 :
    LET dt1 == samples[k].t - samples[k - 1].t
        dt2 == samples[k + 1].t - samples[k].t
        dq1 == samples[k][f] - samples[k - 1][f]
        dq2 == samples[k + 1][f] - samples[k][f]
    IN  8 * AbsOf(dq2 * dt1 - dq1 * dt2)
          <= MaxAcceleration * (dt1 + dt2) * dt1 * dt2 * half * half

BugVelocityOnly(half) == \A f \in {"arm", "grip"} : VelocityFits(out, f, half)
Fits(half) ==
  \A f \in {"arm", "grip"} : VelocityFits(out, f, half) /\ AccelerationFits(out, f, half)
Whole(half) == \A k \in 1 .. Len(path) : (path[k].t * half) % 2 = 0

InLimits == \A k \in DOMAIN out : out[k].grip \in GripLimits

MaxHalves == 12
Halves == {half \in 3 .. MaxHalves : Fits(half) /\ Whole(half)}
Stretched(half) == [k \in 1 .. Len(path) |-> [path[k] EXCEPT !.t = (@ * half) \div 2]]

\* Four rounds that may stretch, then one that may not.
Rounds == 4
Measure ==
  /\ pc = "measure"
  /\ \/ /\ InLimits /\ Fits(2)
        /\ pc' = "send" /\ path' = out /\ UNCHANGED passes
     \/ /\ InLimits /\ ~Fits(2) /\ passes < Rounds /\ Halves # {}
        /\ pc' = "check" /\ path' = Stretched(Min(Halves)) /\ passes' = passes + 1
     \/ /\ ~InLimits \/ (~Fits(2) /\ passes = Rounds)
        /\ pc' = "rejected" /\ UNCHANGED <<path, passes>>
  /\ out' = <<>> /\ source' = 1
  /\ UNCHANGED <<durations, start, moves>>

\* The planner's segments, one after the other.
MakePlan ==
  /\ pc = "plan"
  /\ path' = AppendSegment(path, Head(moves)) /\ moves' = Tail(moves)
  /\ pc' = IF moves' = <<>> THEN "check" ELSE "plan"
  /\ UNCHANGED <<durations, start, out, source, passes>>

Init ==
  /\ pc = "plan" /\ durations \in Durations /\ start \in Grips
  /\ moves = Plan /\ path = <<>> /\ out = <<>> /\ source = 1 /\ passes = 0
Check == pc = "check" /\ Resample("measure")
Send == pc = "send" /\ Resample("sent")
Finished == pc \in {"sent", "rejected"} /\ UNCHANGED vars
Next == MakePlan \/ Check \/ Measure \/ Send \/ Finished
Spec == Init /\ [][Next]_vars
-----------------------------------------------------------------------------
\* A finished stream is the path, sampled: at time zero, at every step and at the
\* end, each sample on the line between its neighbours in the path, less than a
\* unit below it.
OnPath(s, f) ==
  \E k \in 1 .. Len(path) - 1 :
    LET left == path[k] right == path[k + 1] interval == right.t - left.t
    IN  /\ left.t <= s.t /\ s.t <= right.t
        /\ (right[f] - left[f]) * (s.t - left.t) - (s[f] - left[f]) * interval
             \in 0 .. interval - 1
StreamFollowsPath ==
  pc = "measure" =>
    /\ {out[k].t : k \in DOMAIN out}
         = {t \in 0 .. Duration(path) : t % Step = 0} \cup {Duration(path)}
    /\ \A k \in DOMAIN out : OnPath(out[k], "arm") /\ OnPath(out[k], "grip")
    /\ out[1].arm = Places["ready"] /\ out[1].grip = start
    /\ out[Len(out)].arm = Places["ready"] /\ out[Len(out)].grip = Open

\* The executor sends the very samples that were validated: its own resampling
\* changes nothing.
SentAsValidated == pc = "sent" => out = path

\* The velocity and acceleration limits hold for what is sent, with whatever interval
\* ends the stream: by the time stamps, as trajectory_metrics measures them.  The
\* executor's timer sends the last, shorter interval at the pace of the others.
SentWithinLimits ==
  pc = "sent" =>
    \A f \in {"arm", "grip"} :
      /\ VelocityFits(out, f, 2) /\ AccelerationFits(out, f, 2)

\* A sample that is sent shows the gripper part-way (neither as it was found, nor
\* open, nor closed) only over the cube's or the goal's place, or at the start
\* when it was not found open.  It speaks of samples: in an interval that a join of
\* two segments divides, arm and gripper do move together (plan, resampling).
SampledPartOpenInPlace ==
  pc = "sent" => \A k \in DOMAIN out :
    out[k].grip \notin {Open, Hold, start} =>
      \/ out[k].arm \in {Places["cube"], Places["goal"]}
      \/ out[k].arm = Places["ready"] /\ start # Open
=============================================================================
