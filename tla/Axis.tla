-------------------------------- MODULE Axis --------------------------------
(***************************************************************************)
(* The drives under the homing controller: one axis per joint, a FAULHABER *)
(* motion controller in Profile Position or Homing mode, its three         *)
(* switches and its software position limits.  The drives are not under    *)
(* src/: this is what pysoem_bridge.py relies on.                          *)
(*                                                                         *)
(*   - A rising edge of control word bit 4 loads the target; the drive     *)
(*     answers with status bit 12 and takes it back when bit 4 is low.     *)
(*   - Bit 8 halts the axis and keeps the loaded target ("a stale target   *)
(*     retained by the drive", pysoem_bridge.py:434).                      *)
(*   - In Homing mode the edge runs method 37: the position counter takes  *)
(*     the home offset where the axis stands.                              *)
(*   - A limit, by switch A or C or by the counter, stops motion towards   *)
(*     it.                                                                 *)
(*                                                                         *)
(* A place is a stretch of the joint's travel; how many of them a joint    *)
(* crosses between two polls of the controller is left open.               *)
(***************************************************************************)
EXTENDS Integers

CONSTANTS
  Joint,
  Last,        \* the places of a joint are 0 .. Last
  Switch,      \* the places on which a joint's switches A, B and C are active
  LoLimit,     \* software position limits kept by the drives, in counts
  HiLimit,
  HomeOffset   \* home_offset_steps

Place == 0 .. Last

ASSUME AxisAssumption ==
  /\ Last \in Nat
  /\ Switch \in [Joint -> [A : SUBSET Place, B : SUBSET Place, C : SUBSET Place]]
  /\ LoLimit \in [Joint -> Int] /\ HiLimit \in [Joint -> Int]
  /\ HomeOffset \in [Joint -> Int]

VARIABLE axis
(***************************************************************************)
(* axis[j].pos      place of the joint                                     *)
(*        .zero     the place at which the position counter reads 0        *)
(*        .lo       negative software limit, in counts                     *)
(*        .power    Operation Enabled                                      *)
(*        .halt, .start, .relative   control word bits 8, 4 and 6          *)
(*        .ack      status bit 12: set-point acknowledged, or homed        *)
(*        .wanted, .mode   requested and displayed mode of operation       *)
(*        .target   object 0x607A      .goal  the target loaded from it    *)
(*        .fault    status bit 3 or 13                                     *)
(***************************************************************************)
Modes == {"position", "homing"}
Axes ==
  [pos : Place, zero : Int, lo : Int, power : BOOLEAN, halt : BOOLEAN,
   start : BOOLEAN, relative : BOOLEAN, ack : BOOLEAN, wanted : Modes,
   mode : Modes, target : Int, goal : Int, fault : BOOLEAN]

Counter(j) == axis[j].pos - axis[j].zero

\* Switches and limits for a joint standing at p.
On(j, s, p) == p \in Switch[j][s]
SoftNeg(j, p) == p - axis[j].zero <= axis[j].lo
SoftPos(j, p) == p - axis[j].zero >= HiLimit[j]
NegLimit(j, p) == On(j, "A", p) \/ SoftNeg(j, p)
PosLimit(j, p) == On(j, "C", p) \/ SoftPos(j, p)
Limited(j, p) == NegLimit(j, p) \/ PosLimit(j, p)
AtGoal(j, p) == p - axis[j].zero = axis[j].goal

\* The joint is free to move towards the target it has loaded.
Heading(j) == IF axis[j].goal > Counter(j) THEN 1 ELSE -1
Blocked(j) ==
  \/ axis[j].pos + Heading(j) \notin Place
  \/ IF Heading(j) = 1 THEN PosLimit(j, axis[j].pos) ELSE NegLimit(j, axis[j].pos)
Driven(j) ==
  /\ axis[j].power /\ ~axis[j].halt /\ ~axis[j].fault
  /\ axis[j].mode = "position"
Running(j) == Driven(j) /\ axis[j].goal # Counter(j) /\ ~Blocked(j)
-----------------------------------------------------------------------------
Moves(j) ==
  /\ Running(j)
  /\ axis' = [axis EXCEPT ![j].pos = @ + Heading(j)]

\* A joint told to stop may come to rest one place further on.
RestingPlaces(j) ==
  {axis[j].pos} \cup (IF Running(j) THEN {axis[j].pos + Heading(j)} ELSE {})

Loads(j) ==
  /\ axis[j].power /\ axis[j].mode = "position"
  /\ axis[j].start /\ ~axis[j].ack
  /\ axis' = [axis EXCEPT
       ![j].ack = TRUE,
       ![j].goal = axis[j].target + (IF axis[j].relative THEN Counter(j) ELSE 0)]

Releases(j) ==
  /\ axis[j].mode = "position"
  /\ ~axis[j].start /\ axis[j].ack
  /\ axis' = [axis EXCEPT ![j].ack = FALSE]

\* "This drive may update the displayed mode only after the mode-specific
\* start bit has been processed" (pysoem_bridge.py:1298).
EntersHoming(j) ==
  /\ axis[j].wanted = "homing" /\ axis[j].mode = "position"
  /\ axis' = [axis EXCEPT ![j].mode = "homing", ![j].ack = FALSE]

Zeroes(j) ==
  /\ axis[j].power /\ axis[j].mode = "homing"
  /\ axis[j].start /\ ~axis[j].ack
  /\ axis' = [axis EXCEPT ![j].ack = TRUE, ![j].zero = axis[j].pos - HomeOffset[j]]

Fails(j) ==
  /\ axis[j].power /\ ~axis[j].fault
  /\ axis' = [axis EXCEPT ![j].fault = TRUE]

DriveStep(j) ==
  \/ Moves(j) \/ Loads(j) \/ Releases(j) \/ EntersHoming(j) \/ Zeroes(j)
=============================================================================
