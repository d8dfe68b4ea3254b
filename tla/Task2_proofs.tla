---------------------------- MODULE Task2_proofs ----------------------------
(***************************************************************************)
(* Theorems about Task2, for any cubes, tolerance and queue depths.        *)
(***************************************************************************)
EXTENDS Task2, SequenceTheorems, TLAPS

(***************************************************************************)
(* Places, plans and queues.                                               *)
(***************************************************************************)
\* Every place between pick-ready and a place of the robot is one too.
LEMMA PlacesRange ==
  /\ Places \subseteq Nat /\ PickReady \in Places /\ Cubes \subseteq Places
  /\ \A a \in Places, n \in Nat : n <= a => n \in Places
BY Task2Assumption DEF Places, PickReady

\* A leg starts at one place, ends at the other, and takes one step at a time.
LEMMA LegProperties ==
  ASSUME NEW a \in Places, NEW b \in Places
  PROVE  /\ Leg(a, b) \in Seq(Places) /\ Len(Leg(a, b)) = Distance(a, b) + 1
         /\ Leg(a, b)[1] = a /\ Leg(a, b)[Len(Leg(a, b))] = b
         /\ \A k \in 1 .. Len(Leg(a, b)) - 1 : Distance(Leg(a, b)[k + 1], Leg(a, b)[k]) <= 1
<1> DEFINE n == Distance(a, b) + 1
           place(k) == IF a <= b THEN a + k - 1 ELSE a - k + 1
<1>1. a \in Nat /\ b \in Nat /\ n \in Nat \ {0}
  BY PlacesRange DEF Distance
<1>2. ASSUME NEW k \in 1 .. n
      PROVE  place(k) \in Places
  <2>1. place(k) \in Nat /\ (place(k) <= a \/ place(k) <= b)
    BY <1>1 DEF Distance
  <2> QED
    BY <2>1, PlacesRange
<1>3. Leg(a, b) = [k \in 1 .. n |-> place(k)]
  BY DEF Leg
<1>4. Leg(a, b) \in [1 .. n -> Places]
  BY <1>2, <1>3
<1>5. Leg(a, b) \in Seq(Places) /\ Len(Leg(a, b)) = n
  BY <1>1, <1>4, SeqDef
<1>6. ASSUME NEW k \in 1 .. n
      PROVE  Leg(a, b)[k] = place(k)
  BY <1>3
<1>7. Leg(a, b)[1] = a /\ Leg(a, b)[n] = b
  <2>1. 1 \in 1 .. n /\ n \in 1 .. n /\ place(1) = a /\ place(n) = b
    BY <1>1 DEF Distance
  <2> QED
    BY <1>6, <2>1
<1>8. ASSUME NEW k \in 1 .. n - 1
      PROVE  Distance(Leg(a, b)[k + 1], Leg(a, b)[k]) <= 1
  <2>1. k \in 1 .. n /\ k + 1 \in 1 .. n
    BY <1>1
  <2>2. Distance(place(k + 1), place(k)) <= 1
    BY <1>1 DEF Distance
  <2> QED
    BY <1>6, <2>1, <2>2
<1> QED
  BY <1>5, <1>7, <1>8

\* What the executor streams without a jump: one place per sample, each a step
\* from the one before, pick-ready at the end.
Smooth(s) ==
  /\ \A k \in 1 .. Len(s) - 1 : Distance(s[k + 1], s[k]) <= 1
  /\ s[Len(s)] = PickReady

\* A plan starts where it was made for and is smooth.
LEMMA PlanProperties ==
  ASSUME NEW a \in Places, NEW b \in Places
  PROVE  /\ Plan(a, b) \in Seq(Places) /\ Plan(a, b) # <<>>
         /\ Head(Plan(a, b)) = a /\ Smooth(Plan(a, b))
<1> DEFINE s == Plan(a, b)
<1>0. PickReady \in Places /\ Distance(a, b) \in Nat /\ Distance(b, PickReady) \in Nat
  BY PlacesRange DEF Distance
<1>a. PICK there \in Seq(Places) :
        /\ there = Leg(a, b) /\ Len(there) = Distance(a, b) + 1
        /\ there[1] = a /\ there[Len(there)] = b
        /\ \A k \in 1 .. Len(there) - 1 : Distance(there[k + 1], there[k]) <= 1
  BY LegProperties
<1>b. PICK back \in Seq(Places) :
        /\ back = Leg(b, PickReady) /\ Len(back) = Distance(b, PickReady) + 1
        /\ back[1] = b /\ back[Len(back)] = PickReady
        /\ \A k \in 1 .. Len(back) - 1 : Distance(back[k + 1], back[k]) <= 1
  BY <1>0, LegProperties
<1>1. Len(there) \in Nat \ {0}
  BY <1>0, <1>a
<1>2. Len(back) \in Nat \ {0}
  BY <1>0, <1>b
<1>3. /\ Tail(back) \in Seq(Places) /\ Len(Tail(back)) = Len(back) - 1
      /\ \A k \in 1 .. Len(Tail(back)) : Tail(back)[k] = back[k + 1]
  BY <1>2, HeadTailProperties, EmptySeq
<1>4. s = there \o Tail(back)
  BY <1>a, <1>b DEF Plan
<1>5. /\ s \in Seq(Places) /\ Len(s) = Len(there) + Len(back) - 1
      /\ \A k \in 1 .. Len(s) :
           s[k] = IF k <= Len(there) THEN there[k] ELSE back[k + 1 - Len(there)]
  <2>1. /\ s \in Seq(Places) /\ Len(s) = Len(there) + Len(Tail(back))
        /\ \A k \in 1 .. Len(there) + Len(Tail(back)) :
             s[k] = IF k <= Len(there) THEN there[k] ELSE Tail(back)[k - Len(there)]
    BY <1>1, <1>3, <1>4, ConcatProperties
  <2>2. ASSUME NEW k \in 1 .. Len(s), k > Len(there)
        PROVE  s[k] = back[k + 1 - Len(there)]
    <3>1. k - Len(there) \in 1 .. Len(Tail(back))
      BY <1>1, <1>3, <2>1, <2>2
    <3> QED
      BY <1>1, <1>3, <2>1, <2>2, <3>1
  <2> QED
    BY <1>1, <1>2, <1>3, <2>1, <2>2
<1> HIDE DEF s
<1>6. Len(s) \in Nat \ {0} /\ s # <<>>
  BY <1>1, <1>2, <1>5, EmptySeq
<1>7. Head(s) = a
  BY <1>1, <1>a, <1>5, <1>6
<1>8. s[Len(s)] = PickReady
  <2>1. CASE Len(back) = 1
    <3>1. Len(s) = Len(there) /\ Len(there) \in 1 .. Len(s)
      BY <1>1, <1>5, <2>1
    <3>2. s[Len(s)] = there[Len(there)]
      BY <1>1, <1>5, <3>1
    <3> QED
      BY <1>a, <1>b, <2>1, <3>2
  <2>2. CASE Len(back) # 1
    BY <1>1, <1>2, <1>b, <1>5, <1>6, <2>2
  <2> QED
    BY <2>1, <2>2
<1>9. ASSUME NEW k \in 1 .. Len(s) - 1
      PROVE  Distance(s[k + 1], s[k]) <= 1
  <2>0. k \in 1 .. Len(s) /\ k + 1 \in 1 .. Len(s)
    BY <1>6
  <2>1. CASE k < Len(there)
    BY <1>1, <1>a, <1>5, <2>0, <2>1
  <2>2. CASE k >= Len(there)
    <3> DEFINE i == k + 1 - Len(there)
    <3>1. i \in 1 .. Len(back) - 1 /\ i + 1 = k + 2 - Len(there)
      BY <1>1, <1>2, <1>5, <1>6, <2>2
    <3>2. s[k + 1] = back[i + 1]
      BY <1>1, <1>5, <2>0, <2>2, <3>1
    <3>3. s[k] = back[i]
      BY <1>1, <1>2, <1>a, <1>b, <1>5, <2>0, <2>2
    <3> QED
      BY <1>b, <3>1, <3>2, <3>3
  <2> QED
    BY <1>1, <2>1, <2>2
<1> QED
  BY <1>5, <1>6, <1>7, <1>8, <1>9 DEF Smooth, s

\* A queue keeps its type and its depth.
LEMMA QueueProperties ==
  ASSUME NEW S, NEW q \in Seq(S), NEW m \in S, NEW depth \in Nat \ {0}, Len(q) <= depth
  PROVE  Queued(q, m, depth) \in Seq(S) /\ Len(Queued(q, m, depth)) <= depth
<1>1. CASE Len(q) = depth
  <2>1. q # <<>>
    BY <1>1, EmptySeq
  <2>2. Tail(q) \in Seq(S) /\ Len(Tail(q)) = depth - 1
    BY <1>1, <2>1, HeadTailProperties
  <2> QED
    BY <1>1, <2>2, AppendProperties DEF Queued
<1>2. CASE Len(q) # depth
  BY <1>2, LenProperties, AppendProperties DEF Queued
<1> QED
  BY <1>1, <1>2

(***************************************************************************)
(* Type correctness and the relation of state, thread and executor.        *)
(***************************************************************************)
\* The displayed robot is always somewhere.
Displayed == mode = "joint_states" => held # Nowhere
Inv == TypeOK /\ BusyMeansBusy /\ Displayed

LEMMA InvInit == Init => Inv
<1> SUFFICES ASSUME Init PROVE Inv
  OBVIOUS
<1>1. PickReady \in Places /\ 0 \in Places /\ PickReady = 0
  BY PlacesRange DEF PickReady
<1>2. /\ <<>> \in Seq(Places) /\ <<>> \in Seq(Cubes) /\ Len(<<>>) = 0
      /\ <<PickReady>> \in Seq(Places) /\ Len(<<PickReady>>) = 1
  BY <1>1
<1>3. wire \in Seq(Places) /\ Len(wire) <= StateDepth /\ robot \in Places
  <2>1. CASE mode = "joint_states"
    <3>1. wire = <<PickReady>> /\ robot = PickReady
      BY <2>1 DEF Init
    <3>2. StateDepth \in Nat /\ 1 <= StateDepth
      BY Task2Assumption
    <3> QED
      BY <1>1, <1>2, <3>1, <3>2
  <2>2. CASE mode # "joint_states"
    BY <1>1, <1>2, <2>2, Task2Assumption DEF Init
  <2> QED
    BY <2>1, <2>2
<1>4. points \in Seq(Cubes) /\ Len(points) <= Depth /\ stream \in Seq(Places)
  BY <1>2, Task2Assumption DEF Init
<1>5. future \in [status : {"none", "planning", "planned", "failed"},
                  start : Places, cube : Cubes \cup {0}]
  BY <1>1 DEF Init, NoFuture
<1>6. /\ mode \in Modes /\ state \in {"WAITING", "PLANNING", "EXECUTING"}
      /\ seen \in Places \cup {Nowhere} /\ held \in Places \cup {Nowhere}
  BY <1>1 DEF Init
<1>7. fresh \in BOOLEAN /\ running \in BOOLEAN /\ finished \in BOOLEAN /\ hw \in BOOLEAN
  BY DEF Init
<1>8. TypeOK
  BY <1>3, <1>4, <1>5, <1>6, <1>7 DEF TypeOK
<1>9. BusyMeansBusy
  BY DEF Init, BusyMeansBusy
<1>10. Displayed
  BY <1>1 DEF Init, Displayed, Nowhere
<1> QED
  BY <1>8, <1>9, <1>10 DEF Inv

\* The robot takes a step between two places.
LEMMA TowardType ==
  ASSUME NEW a \in Places, NEW b \in Places
  PROVE  Toward(a, b) \in Places
<1>1. a \in Nat /\ b \in Nat
  BY PlacesRange
<1> QED
  BY <1>1, PlacesRange DEF Toward

\* What a published sample does to the command, the wire and the robot.
LEMMA PublishType ==
  ASSUME TypeOK, NEW sample \in Places, Publish(sample)
  PROVE  /\ held' = sample
         /\ wire' \in Seq(Places) /\ Len(wire') <= StateDepth /\ robot' \in Places
<1>1. wire \in Seq(Places) /\ Len(wire) <= StateDepth /\ robot \in Places
  BY DEF TypeOK
<1>2. CASE mode = "joint_states"
  <2>1. held' = sample /\ wire' = Queued(wire, sample, StateDepth) /\ robot' = sample
    BY <1>2 DEF Publish
  <2> QED
    BY <1>1, <2>1, QueueProperties, Task2Assumption
<1>3. CASE mode # "joint_states"
  BY <1>1, <1>3 DEF Publish
<1> QED
  BY <1>2, <1>3

\* What remains of a stream that is not over.
LEMMA StreamTail ==
  ASSUME NEW s \in Seq(Places), s # <<>>
  PROVE  /\ Head(s) \in Places /\ Tail(s) \in Seq(Places)
         /\ Len(s) \in Nat \ {0} /\ (Len(s) > 1) = (Tail(s) # <<>>)
<1>1. Head(s) \in Places /\ Tail(s) \in Seq(Places) /\ Len(Tail(s)) = Len(s) - 1
  BY HeadTailProperties
<1>2. Len(s) \in Nat \ {0}
  BY EmptySeq, LenProperties
<1>3. (Tail(s) = <<>>) = (Len(s) - 1 = 0)
  BY <1>1, EmptySeq
<1> QED
  BY <1>1, <1>2, <1>3

LEMMA InvNext == Inv /\ [Next]_vars => Inv'
<1> SUFFICES ASSUME Inv, [Next]_vars PROVE Inv'
  OBVIOUS
<1> USE DEF Inv
<1>1. CASE OnTimer
  <2>0. /\ UNCHANGED <<state, points, seen, fresh, future, mode, hw>>
        /\ TypeOK /\ BusyMeansBusy /\ Displayed
    BY <1>1 DEF OnTimer
  <2>1. CASE running
    <3>1. /\ Publish(Head(stream)) /\ stream' = Tail(stream)
          /\ running' = (Len(stream) > 1) /\ finished' = (Len(stream) = 1)
      BY <1>1, <2>1 DEF OnTimer
    <3>2. stream \in Seq(Places) /\ stream # <<>>
      BY <2>0, <2>1 DEF TypeOK, BusyMeansBusy
    <3>3. /\ Head(stream) \in Places /\ stream' \in Seq(Places)
          /\ Len(stream) \in Nat \ {0} /\ running' = (stream' # <<>>)
      BY <3>1, <3>2, StreamTail
    <3>4. /\ held' \in Places /\ wire' \in Seq(Places) /\ Len(wire') <= StateDepth
          /\ robot' \in Places
      BY <2>0, <3>1, <3>3, PublishType
    <3>5. running' \in BOOLEAN /\ finished' \in BOOLEAN /\ (running' # finished')
      <4>1. (Len(stream) > 1) <=> ~(Len(stream) = 1)
        <5>1. Len(stream) \in Nat \ {0}
          BY <3>2, StreamTail
        <5>2. \A n \in Nat \ {0} : n > 1 <=> n # 1
          OBVIOUS
        <5> QED
          BY <5>1, <5>2
      <4>2. running' = (Len(stream) > 1) /\ finished' = (Len(stream) = 1)
        BY <3>1
      <4>3. running' \in BOOLEAN /\ finished' \in BOOLEAN
        BY <4>2
      <4>4. running' <=> ~finished'
        BY <4>1, <4>2, Zenon
      <4> QED
        BY <4>3, <4>4, Zenon
    <3>6. TypeOK'
      BY <2>0, <3>3, <3>4, <3>5 DEF TypeOK
    <3>7. BusyMeansBusy'
      BY <2>0, <2>1, <3>3, <3>5 DEF BusyMeansBusy
    <3>8. Displayed'
      BY <3>4, PlacesRange DEF Displayed, Nowhere
    <3> QED
      BY <3>6, <3>7, <3>8
  <2>2. CASE ~running
    <3>1. /\ mode = "joint_states" /\ Publish(held)
          /\ UNCHANGED <<stream, running, finished>>
      BY <1>1, <2>2 DEF OnTimer
    <3>2. held \in Places
      BY <2>0, <3>1 DEF TypeOK, Displayed
    <3>3. /\ held' = held /\ wire' \in Seq(Places) /\ Len(wire') <= StateDepth
          /\ robot' \in Places
      BY <2>0, <3>1, <3>2, PublishType
    <3>4. TypeOK'
      BY <2>0, <3>1, <3>3 DEF TypeOK
    <3> QED
      BY <2>0, <3>1, <3>3, <3>4 DEF BusyMeansBusy, Displayed
  <2> QED
    BY <2>1, <2>2, <2>0 DEF TypeOK
<1>2. CASE OnJointState
  <2>1. Head(wire) \in Places /\ Tail(wire) \in Seq(Places) /\ Len(Tail(wire)) <= StateDepth
    BY <1>2, HeadTailProperties, LenProperties, EmptySeq, Task2Assumption DEF OnJointState, TypeOK
  <2> QED
    BY <1>2, <2>1 DEF OnJointState, TypeOK, BusyMeansBusy, Displayed, executor, environment
<1>3. CASE OnCubePoint
  <2>1. Head(points) \in Cubes /\ Tail(points) \in Seq(Cubes) /\ Len(Tail(points)) <= Depth
    BY <1>3, HeadTailProperties, LenProperties, EmptySeq, Task2Assumption DEF OnCubePoint, TypeOK
  <2>2. CASE Accepts
    <3>1. state = "WAITING" /\ seen \in Places
      BY <2>2 DEF Accepts, Takes, CurrentState, TypeOK
    <3>2. /\ future' = [status |-> "planning", start |-> seen, cube |-> Head(points)]
          /\ state' = "PLANNING"
      BY <1>3, <2>2 DEF OnCubePoint
    <3>3. /\ future' \in [status : {"none", "planning", "planned", "failed"},
                          start : Places, cube : Cubes \cup {0}]
          /\ future' # NoFuture
      BY <2>1, <3>1, <3>2 DEF NoFuture
    <3> QED
      BY <1>3, <2>1, <3>1, <3>2, <3>3
      DEF OnCubePoint, TypeOK, BusyMeansBusy, Displayed, executor, environment
  <2>3. CASE ~Accepts
    BY <1>3, <2>1, <2>3
    DEF OnCubePoint, TypeOK, BusyMeansBusy, Displayed, executor, environment
  <2> QED
    BY <2>2, <2>3
<1>4. CASE PlannerReturns \/ PlannerRaises
  <2>1. /\ future.status = "planning" /\ UNCHANGED <<points, wire, seen, fresh, state>>
        /\ UNCHANGED <<executor, environment>>
        /\ \E s \in {"planned", "failed"} : future' = [future EXCEPT !.status = s]
    BY <1>4 DEF PlannerReturns, PlannerRaises
  <2>2. /\ future' \in [status : {"none", "planning", "planned", "failed"},
                        start : Places, cube : Cubes \cup {0}]
        /\ future' # NoFuture /\ future # NoFuture
    BY <2>1 DEF TypeOK, NoFuture
  <2> QED
    BY <2>1, <2>2 DEF TypeOK, BusyMeansBusy, Displayed, executor, environment
<1>5. CASE OnStateTimer
  <2>0. TypeOK /\ BusyMeansBusy /\ Displayed /\ UNCHANGED <<points, seen, fresh>>
    BY <1>5 DEF OnStateTimer
  <2>n. NoFuture \in [status : {"none", "planning", "planned", "failed"},
                      start : Places, cube : Cubes \cup {0}]
    BY PlacesRange DEF NoFuture, PickReady
  <2>1. CASE state = "PLANNING" /\ future.status \in Done /\ future' = NoFuture /\ Startable
    <3> DEFINE s == Plan(future.start, future.cube)
    <3>1. /\ Publish(Head(s)) /\ stream' = Tail(s) /\ running' = (Len(s) > 1)
          /\ finished' = IF Len(s) > 1 THEN FALSE ELSE TRUE
          /\ state' = (IF finished' THEN "WAITING" ELSE "EXECUTING")
          /\ UNCHANGED <<mode, hw>>
      BY <1>5, <2>1 DEF OnStateTimer, Start, FinishedAtStart
    <3>2. future.start \in Places /\ future.cube \in Places
      BY <2>0, PlacesRange DEF TypeOK, PickReady
    <3>3. s \in Seq(Places) /\ s # <<>>
      BY <3>2, PlanProperties
    <3>4. /\ Head(s) \in Places /\ stream' \in Seq(Places)
          /\ running' = (stream' # <<>>) /\ Len(s) \in Nat \ {0}
      BY <3>1, <3>3, StreamTail
    <3> HIDE DEF s
    <3>5. /\ held' \in Places /\ wire' \in Seq(Places) /\ Len(wire') <= StateDepth
          /\ robot' \in Places
      BY <2>0, <3>1, <3>4, PublishType
    <3>6. running' \in BOOLEAN /\ finished' = ~running' /\ future' = NoFuture
      BY <2>1, <3>1, <3>4
    <3>7. TypeOK'
      BY <2>0, <2>n, <3>1, <3>4, <3>5, <3>6 DEF TypeOK
    <3>8. BusyMeansBusy'
      BY <3>1, <3>4, <3>6 DEF BusyMeansBusy
    <3>9. Displayed'
      BY <3>5, PlacesRange DEF Displayed, Nowhere
    <3> QED
      BY <3>7, <3>8, <3>9
  <2>2. CASE state = "PLANNING" /\ future.status \in Done /\ future' = NoFuture /\ ~Startable
    <3>1. state' = "WAITING" /\ UNCHANGED <<wire, executor, environment>>
      BY <1>5, <2>2 DEF OnStateTimer
    <3> QED
      BY <2>0, <2>2, <2>n, <3>1 DEF TypeOK, BusyMeansBusy, Displayed, executor, environment
  <2>3. CASE /\ state = "EXECUTING" /\ finished /\ state' = "WAITING"
             /\ UNCHANGED <<future, wire, executor, environment>>
    BY <2>0, <2>3 DEF TypeOK, BusyMeansBusy, Displayed, executor, environment
  <2> QED
    BY <1>5, <2>1, <2>2, <2>3 DEF OnStateTimer
<1>6. CASE PublishPoint
  <2>1. PICK cube \in Cubes : points' = Queued(points, cube, Depth)
    BY <1>6 DEF PublishPoint
  <2>2. points' \in Seq(Cubes) /\ Len(points') <= Depth
    BY <2>1, QueueProperties, Task2Assumption DEF TypeOK
  <2> QED
    BY <1>6, <2>2 DEF PublishPoint, TypeOK, BusyMeansBusy, Displayed, executor, environment
<1>7. CASE JointStateAges
  BY <1>7 DEF JointStateAges, TypeOK, BusyMeansBusy, Displayed, executor, environment
<1>8. CASE RobotFollows
  <2>1. held \in Places /\ robot \in Places
    BY <1>8 DEF RobotFollows, TypeOK
  <2>2. robot' \in Places
    BY <1>8, <2>1, TowardType DEF RobotFollows
  <2> QED
    BY <1>8, <2>2 DEF RobotFollows, TypeOK, BusyMeansBusy, Displayed, executor
<1>9. CASE RobotReports
  <2>1. wire' \in Seq(Places) /\ Len(wire') <= StateDepth
    BY <1>9, QueueProperties, Task2Assumption DEF RobotReports, TypeOK
  <2> QED
    BY <1>9, <2>1 DEF RobotReports, TypeOK, BusyMeansBusy, Displayed, executor, environment
<1>10. CASE RobotDrifts
  <2>1. PICK place \in {PickReady} \cup Cubes : robot' = Toward(robot, place)
    BY <1>10 DEF RobotDrifts
  <2>2. robot' \in Places
    BY <2>1, PlacesRange, TowardType DEF TypeOK
  <2> QED
    BY <1>10, <2>2 DEF RobotDrifts, TypeOK, BusyMeansBusy, Displayed, executor
<1>11. CASE HardwareToggles
  BY <1>11 DEF HardwareToggles, TypeOK, BusyMeansBusy, Displayed, executor
<1>12. CASE UNCHANGED vars
  BY <1>12 DEF vars, TypeOK, BusyMeansBusy, Displayed
<1> QED
  BY <1>1, <1>2, <1>3, <1>4, <1>5, <1>6, <1>7, <1>8, <1>9, <1>10, <1>11, <1>12
  DEF Next, Environment

LEMMA Invariance == Spec => []Inv
<1>1. Inv => TypeOK /\ BusyMeansBusy
  BY DEF Inv
<1> QED
  BY InvInit, InvNext, PTL DEF Spec

\* Every queue, plan and place has its type: what the node plans from and what
\* it streams are places the arm can be in, for any cubes and any depths.
THEOREM TypeCorrect == Spec => []TypeOK
<1>1. Inv => TypeOK
  BY DEF Inv
<1> QED
  BY Invariance, <1>1, PTL

\* The state the node reports is what its planning thread and its executor do.
THEOREM Busy == Spec => []BusyMeansBusy
<1>1. Inv => BusyMeansBusy
  BY DEF Inv
<1> QED
  BY Invariance, <1>1, PTL

\* A stream begins where the robot was last seen, whatever the queues and the
\* tolerance: the plan starts at the place kept with it, which is compared with
\* the measured one when the stream starts.
THEOREM StartsNear == Spec => StartsNearRobot
<1>1. ASSUME Inv, [Next]_vars, Starts
      PROVE  HardwareReady /\ fresh /\ Distance(held', seen) <= Tolerance
  <2>1. OnStateTimer
    <3>1. ~OnTimer
      BY <1>1 DEF OnTimer, Starts
    <3>2. running' # running
      BY <1>1 DEF Starts, Inv, TypeOK
    <3> QED
      BY <1>1, <3>1, <3>2 DEF Next, Environment, OnJointState, OnCubePoint, PlannerReturns,
         PlannerRaises, PublishPoint, JointStateAges, RobotFollows, RobotReports,
         RobotDrifts, HardwareToggles, executor, vars
  <2>2. Startable /\ Start(Plan(future.start, future.cube))
    BY <1>1, <2>1 DEF OnStateTimer, executor, Starts
  <2>3. Head(Plan(future.start, future.cube)) = future.start
    BY <1>1, PlanProperties, PlacesRange DEF Inv, TypeOK, PickReady
  <2>4. held' = future.start
    BY <2>2, <2>3 DEF Start, Publish
  <2>5. HardwareReady /\ fresh /\ Distance(seen, future.start) <= Tolerance
    BY <2>2 DEF Startable, CurrentState, StillThere
  <2>6. seen \in Int /\ future.start \in Int
    <3>1. seen \in Places \cup {Nowhere} /\ future.start \in Places
      BY <1>1 DEF Inv, TypeOK
    <3>2. Places \subseteq Int /\ Nowhere \in Int
      BY PlacesRange DEF Nowhere
    <3> QED
      BY <3>1, <3>2
  <2> QED
    BY <2>4, <2>5, <2>6 DEF Distance
<1> QED
  BY <1>1, Invariance, PTL DEF Spec, StartsNearRobot

(***************************************************************************)
(* The displayed robot never jumps, if points are taken at pick-ready only *)
(* and the tolerance is no more than one step.                             *)
(***************************************************************************)
\* What is to be streamed goes on from where the robot is, and a robot that is
\* not streaming is at pick-ready, as every plan was made near there.
Continues ==
  mode = "joint_states" =>
    /\ running => Smooth(stream) /\ Distance(stream[1], held) <= 1
    /\ ~running => held = PickReady
    /\ future # NoFuture => Distance(future.start, PickReady) <= Tolerance
CInv == Inv /\ Continues

LEMMA DistanceSymmetric ==
  \A a, b \in Int : Distance(a, b) = Distance(b, a) /\ Distance(a, a) = 0
BY DEF Distance

\* What remains of a smooth stream once its first sample is published.
LEMMA SmoothTail ==
  ASSUME NEW s \in Seq(Places), s # <<>>, Smooth(s)
  PROVE  IF Len(s) > 1
         THEN Smooth(Tail(s)) /\ Distance(Tail(s)[1], Head(s)) <= 1
         ELSE Head(s) = PickReady
<1>1. Len(s) \in Nat \ {0} /\ Head(s) = s[1]
  BY EmptySeq, LenProperties
<1>2. CASE Len(s) > 1
  <2>1. PICK rest \in Seq(Places) :
          /\ rest = Tail(s) /\ Len(rest) = Len(s) - 1
          /\ \A k \in 1 .. Len(rest) : rest[k] = s[k + 1]
    BY HeadTailProperties
  <2>2. ASSUME NEW k \in 1 .. Len(rest) - 1
        PROVE  Distance(rest[k + 1], rest[k]) <= 1
    <3>1. k \in 1 .. Len(rest) /\ k + 1 \in 1 .. Len(rest) /\ k + 1 \in 1 .. Len(s) - 1
      BY <1>1, <2>1
    <3> QED
      BY <2>1, <3>1 DEF Smooth
  <2>3. rest[Len(rest)] = PickReady
    BY <1>1, <1>2, <2>1 DEF Smooth
  <2>4. Distance(rest[1], s[1]) <= 1
    BY <1>1, <1>2, <2>1 DEF Smooth
  <2> QED
    BY <1>1, <1>2, <2>1, <2>2, <2>3, <2>4 DEF Smooth
<1>3. CASE ~(Len(s) > 1)
  BY <1>1, <1>3 DEF Smooth
<1> QED
  BY <1>2, <1>3

LEMMA CInvNext ==
  ASSUME RequirePickReady, Tolerance <= 1, CInv, [Next]_vars
  PROVE  CInv' /\ (mode = "joint_states" => Distance(held', held) <= 1)
<1>0. Inv /\ Inv' /\ TypeOK /\ BusyMeansBusy /\ Displayed /\ Continues
  BY InvNext DEF CInv, Inv
<1>m. mode' = mode
  BY DEF Next, Environment, OnTimer, OnJointState, OnCubePoint, OnStateTimer, PlannerReturns,
     PlannerRaises, PublishPoint, JointStateAges, RobotFollows, RobotReports, RobotDrifts,
     HardwareToggles, environment, vars
<1>1. SUFFICES ASSUME mode = "joint_states"
               PROVE  Continues' /\ Distance(held', held) <= 1
  BY <1>0, <1>m DEF CInv, Continues
<1>2. held \in Places /\ Places \subseteq Int /\ Distance(held, held) = 0
  BY <1>0, <1>1, PlacesRange, DistanceSymmetric DEF TypeOK, Displayed
<1>3. ASSUME UNCHANGED <<stream, held, running>>, future' \in {future, NoFuture}
      PROVE  Continues' /\ Distance(held', held) <= 1
  BY <1>0, <1>1, <1>2, <1>3 DEF Continues
<1>4. CASE OnTimer
  <2>1. CASE running
    <3>1. held' = Head(stream) /\ stream' = Tail(stream) /\ running' = (Len(stream) > 1)
      BY <1>4, <2>1 DEF OnTimer, Publish
    <3>2. future' = future
      BY <1>4 DEF OnTimer
    <3>3. stream \in Seq(Places) /\ stream # <<>> /\ Smooth(stream)
      BY <1>0, <1>1, <2>1 DEF TypeOK, BusyMeansBusy, Continues
    <3>4. Head(stream) = stream[1]
      BY <3>3, EmptySeq, LenProperties
    <3>5. Distance(held', held) <= 1
      BY <1>0, <1>1, <2>1, <3>1, <3>4 DEF Continues
    <3>6. running' => Smooth(stream') /\ Distance(stream'[1], held') <= 1
      BY <3>1, <3>3, SmoothTail
    <3>7. ~running' => held' = PickReady
      BY <3>1, <3>3, SmoothTail
    <3> QED
      BY <1>0, <1>1, <3>2, <3>5, <3>6, <3>7 DEF Continues
  <2>2. CASE ~running
    BY <1>3, <1>4, <2>2 DEF OnTimer, Publish
  <2> QED
    BY <2>1, <2>2
<1>5. CASE OnCubePoint
  <2>1. CASE Accepts
    <3>1. /\ UNCHANGED <<stream, held, running>>
          /\ future' = [status |-> "planning", start |-> seen, cube |-> Head(points)]
      BY <1>5, <2>1 DEF OnCubePoint, executor
    <3>2. Distance(seen, PickReady) <= Tolerance
      BY <2>1 DEF Accepts, PickReadyCheck
    <3> QED
      BY <1>0, <1>1, <1>2, <3>1, <3>2 DEF Continues
  <2>2. CASE ~Accepts
    BY <1>3, <1>5, <2>2 DEF OnCubePoint, executor
  <2> QED
    BY <2>1, <2>2
<1>6. CASE PlannerReturns \/ PlannerRaises
  <2>1. /\ UNCHANGED <<stream, held, running>> /\ future.status = "planning"
        /\ \E s \in {"planned", "failed"} : future' = [future EXCEPT !.status = s]
    BY <1>6 DEF PlannerReturns, PlannerRaises, executor
  <2>2. future # NoFuture /\ future'.start = future.start
    BY <1>0, <2>1 DEF NoFuture, TypeOK
  <2> QED
    BY <1>0, <1>1, <1>2, <2>1, <2>2 DEF Continues
<1>7. CASE OnStateTimer
  <2>1. CASE /\ state = "PLANNING" /\ future.status \in Done /\ future' = NoFuture
             /\ Startable /\ Start(Plan(future.start, future.cube))
    <3>1. future.start \in Places /\ future.cube \in Places
      BY <1>0, PlacesRange DEF TypeOK, PickReady
    <3>2. PICK s \in Seq(Places) :
            /\ s = Plan(future.start, future.cube) /\ s # <<>>
            /\ Head(s) = future.start /\ Smooth(s)
      BY <3>1, PlanProperties
    <3>3. held' = Head(s) /\ stream' = Tail(s) /\ running' = (Len(s) > 1)
      BY <2>1, <3>2 DEF Start, Publish
    <3>4. running' => Smooth(stream') /\ Distance(stream'[1], held') <= 1
      BY <3>2, <3>3, SmoothTail
    <3>5. ~running' => held' = PickReady
      BY <3>2, <3>3, SmoothTail
    <3>6. held = PickReady /\ Distance(future.start, PickReady) <= Tolerance
      <4>1. ~running /\ future # NoFuture
        BY <2>1 DEF Startable, NoFuture
      <4> QED
        BY <1>0, <1>1, <4>1 DEF Continues
    <3>7. Distance(held', held) <= 1
      <4>1. Distance(held', held) \in Int /\ Tolerance \in Int
        <5>1. held' \in Int /\ held \in Int
          BY <1>2, <3>1, <3>2, <3>3
        <5>2. Distance(held', held) \in Int
          BY <5>1 DEF Distance
        <5> QED
          BY <5>2, Task2Assumption
      <4> QED
        BY <3>2, <3>3, <3>6, <4>1
    <3> QED
      BY <1>1, <2>1, <3>4, <3>5, <3>7 DEF Continues
  <2>2. CASE UNCHANGED executor /\ future' \in {future, NoFuture}
    BY <1>3, <2>2 DEF executor
  <2> QED
    BY <1>7, <2>1, <2>2 DEF OnStateTimer
<1>8. CASE OnJointState
  BY <1>3, <1>8 DEF OnJointState, executor
<1>9. CASE Environment
  BY <1>3, <1>9 DEF Environment, PublishPoint, JointStateAges, RobotFollows, RobotReports,
     RobotDrifts, HardwareToggles, executor
<1>10. CASE UNCHANGED vars
  BY <1>3, <1>10 DEF vars
<1> QED
  BY <1>4, <1>5, <1>6, <1>7, <1>8, <1>9, <1>10 DEF Next

\* The joint states of one cycle after another are one continuous motion, for
\* any cubes and any depths, refused plans and new points included.
THEOREM NeverJumps ==
  ASSUME RequirePickReady, Tolerance <= 1
  PROVE  Spec => StreamIsContinuous
<1>1. Init => CInv
  <2>1. Init => Continues
    BY DEF Init, Continues
  <2> QED
    BY <2>1, InvInit DEF CInv
<1>2. CInv /\ [Next]_vars => CInv'
  BY CInvNext
<1>3. CInv /\ [Next]_vars => [mode = "joint_states" => Distance(held', held) <= 1]_vars
  BY CInvNext
<1> QED
  BY <1>1, <1>2, <1>3, PTL DEF Spec, StreamIsContinuous
=============================================================================
