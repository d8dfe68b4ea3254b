---------------------------- MODULE Homing_proofs ----------------------------
(***************************************************************************)
(* Theorems about Homing, for any joints, programs and places, and any of  *)
(* the hazards.                                                            *)
(*                                                                         *)
(* All of them follow from one inductive invariant, HomingInv, which       *)
(* relates the stack of operations still to be done to the drives: what    *)
(* may stand above what, and what must hold of the joint in hand when an   *)
(* operation comes to the top.  A step of the controller returns from the  *)
(* operation in hand, calls its body or raises; there is a lemma for each  *)
(* of the three, and one for each action that uses them.                   *)
(***************************************************************************)
EXTENDS Homing, SequenceTheorems, TLAPS

(***************************************************************************)
(* The vocabulary of the stack.                                            *)
(***************************************************************************)
Names ==
  {"home", "park_a", "from_a", "park_boundary", "direct", "goto", "validate", "move", "ready",
   "latched", "released", "reach", "soft_halt", "resume", "give_up", "goto_rest", "seek",
   "halt", "check", "leave", "neutral", "edge", "replaced", "request", "begin", "confirm",
   "finish", "verify", "hold", "park_c", "c_to_b", "single", "search_a", "search_b",
   "direct_b", "reverse", "extend", "restore"}
Kinds ==
  {"-", "relative", "absolute", "wait", "A", "B", "C", "free", "boundary", "plus", "minus",
   "single"}
Operation == [op : Names, joint : Joint, arg : Int, kind : Kinds, escape : BOOLEAN]

\* Operations that do not yet touch the joint they name: what they call first is
\* the parked joint's hold.
Exempt == {"home", "direct", "validate"}

\* What homing.yaml has it: a joint needs at most one other parked, which needs
\* none itself and is homed without it, and the program moves such a joint only
\* through home or direct, which hold the parked one first.
ClearanceConfig ==
  /\ \A j \in Joint : \A k \in NeedsParked[j] :
       NeedsParked[j] = {k} /\ k # j /\ NeedsParked[k] = {} /\ Strategy[j] \in {"positive", "direct"}
  /\ \A p \in Programs : \A i \in 1 .. Len(p) : NeedsParked[p[i].joint] = {} \/ p[i].op \in Exempt

\* The reference check is still to come, with only gotos after it.
Ends(s) == \E i \in 1 .. Len(s) : s[i].op = "validate" /\ \A k \in 1 .. Len(s) : k > i => s[k].op = "goto"
Validated == \A p \in Programs : Ends(p)

\* Operations at which the joint in hand may be in motion.
Moving == {"latched", "released", "reach", "seek", "halt", "soft_halt", "resume", "edge",
           "replaced", "request", "begin", "confirm", "finish", "verify", "give_up"}

\* Operations that leave the joint as it is for the one after them to settle.
Active == {"ready", "latched", "released", "resume", "neutral", "edge", "replaced", "request",
           "begin", "confirm", "finish"}
DirectedSeek(a) == a.op = "seek" /\ a.kind \in {"plus", "minus"}
Starter(a) == a.op = "move" /\ a.kind # "wait"

\* Such an operation is never the last of a stack: something is to follow it.
Opens(a) == a.op \in Active \/ DirectedSeek(a) \/ Starter(a)

\* What may stand above the second half of a goto, and above a restore.
UnderRest == {"ready", "latched", "released", "reach", "soft_halt", "resume", "give_up"}
Inner == UnderRest \cup {"extend", "move", "seek", "halt", "neutral", "edge", "replaced",
           "request", "begin", "confirm", "finish", "verify"}

\* What a goto is made of.
AfterOps == UnderRest \cup {"goto", "goto_rest"}

\* An operation that may move a joint which needs another one parked.
Covered(a) == NeedsParked[a.joint] # {} /\ a.op \notin Exempt

\* Before such an operation is one on the same joint, or the parked joint's hold.
Covers(a, b) ==
  Covered(b) => \/ a.joint = b.joint /\ a.op \notin Exempt
                \/ /\ a.joint \in NeedsParked[b.joint]
                   /\ a.op = "hold" \/ (a.op = "check" /\ a.kind = "boundary")

\* b may come right after a on the stack.
Follows(a, b) ==
  /\ a.op \in Active => b.op \in Moving /\ b.joint = a.joint
  /\ Starter(a) => b.op = "seek" /\ b.joint = a.joint
  /\ DirectedSeek(a) => b.op \in {"reverse", "give_up"} /\ b.joint = a.joint
  /\ b.op = "latched" => a.op = "ready"
  /\ b.op = "released" => a.op = "latched"
  /\ b.op = "reach" => a.op = "released"
  /\ b.op = "verify" => a.op = "finish"
  /\ b.op = "goto_rest" => a.op \in {"reach", "give_up"}
  /\ b.op \notin {"ready", "extend"}
  /\ ClearanceConfig => Covers(a, b)

\* b may come anywhere below a on the stack.
Above(a, b) ==
  /\ b.op = "restore" => a.op \in Inner /\ a.joint = b.joint
  /\ b.op = "goto_rest" => a.op \in UnderRest /\ a.joint = b.joint
Is(o, n, j, k) == o \in Operation /\ o.op = n /\ o.joint = j /\ o.kind = k

\* A well-formed stack, and a well-formed body of a method.
Linked(s) == \A i \in 1 .. Len(s) - 1 : Follows(s[i], s[i + 1])
Plain(s) == \A i \in 1 .. Len(s) : s[i].op # "restore" /\ s[i].op # "goto_rest"
Line(s) ==
  /\ s \in Seq(Operation) /\ s # <<>> /\ Linked(s)
  /\ \A i, k \in 1 .. Len(s) : i < k => Above(s[i], s[k])

\* s may take the place of a at the top of a stack.
Body(a, s) ==
  /\ Line(s)
  /\ a.op \notin {"ready", "latched", "released", "finish", "give_up", "check", "validate",
                  "restore"}
  /\ a.op \in Inner => \A i \in 1 .. Len(s) : s[i].op \in Inner /\ s[i].joint = a.joint
  /\ a.op \in UnderRest => \A i \in 1 .. Len(s) : s[i].op \in UnderRest
  /\ a.op \in AfterOps => \A i \in 1 .. Len(s) : s[i].op \in AfterOps
  /\ a.op # "c_to_b" => \A i \in 1 .. Len(s) : s[i].op # "restore"
  /\ s[Len(s)].joint = a.joint
  /\ a.op \notin Exempt => s[Len(s)].op \notin Exempt
  /\ a.op = "hold" => s[Len(s)].op = "check" /\ s[Len(s)].kind = "boundary"
  /\ a.op = "reach" => s[Len(s)].op = "give_up"
  /\ Opens(s[Len(s)]) => s[Len(s)].op = "released" /\ Starter(a)
StackOK(s) ==
  /\ s \in Seq(Operation) /\ Linked(s)
  /\ \A i, k \in 1 .. Len(s) : i < k => Above(s[i], s[k])
  /\ \A i \in 1 .. Len(s) : Opens(s[i]) => i # Len(s)
-----------------------------------------------------------------------------
(***************************************************************************)
(* The inductive invariant.                                                *)
(***************************************************************************)
TypeOK ==
  /\ axis \in [Joint -> Axes] /\ raised \in {"no", "error", "interrupt"}
  /\ result \in {"running", "homed", "failed", "interrupted"}
  /\ sampled \in 0 .. Last + 1 /\ unrestored \in BOOLEAN

\* The stack is well-formed; on the way out of an exception only the finally
\* clause is left of it.
StackInv ==
  /\ StackOK(todo)
  /\ raised # "no" => todo = <<>> \/ (Len(todo) = 1 /\ todo[1].op = "restore")
  /\ result # "running" => todo = <<>>
  /\ result = "homed" => raised = "no" /\ ~Standalone
  /\ result = "failed" => ~Standalone

\* No homing is asked for or under way: the drive keeps its zero.
InPosition(a) == a.wanted = "position" /\ a.mode = "position"

\* An axis that is still as soon as the start bit is taken back.
Settled(a) == a.mode = "homing" \/ (a.goal = a.pos - a.zero /\ (a.ack \/ ~a.start))

\* What the operation in hand relies on.
HeadOK ==
  /\ Now.op \in {"ready", "latched", "released", "reach", "goto_rest"} => InPosition(axis[j0])
  /\ Now.op \in {"released", "reach"} => ~axis[j0].start
  /\ Now.op = "verify" => Settled(axis[j0])

\* In start-up only the joint in hand may be in motion, and only while the
\* operation in hand expects it.
RestInv == ~Standalone =>
  /\ \A j, k \in Joint : AtRest(j) \/ AtRest(k) \/ j = k
  /\ todo # <<>> => \A j \in Joint : j = j0 \/ AtRest(j)
  /\ raised = "no" /\ todo = <<>> => \A j \in Joint : AtRest(j)
  /\ raised = "no" /\ todo # <<>> => HeadOK /\ (Now.op \notin Moving => AtRest(j0))

\* A limit that is not the configured one has its restore pending.
LimitsInv == ~unrestored =>
  /\ \A i \in 1 .. Len(todo) : todo[i].op = "restore" => todo[i].arg = LoLimit[todo[i].joint]
  /\ \A j \in Joint : axis[j].lo = LoLimit[j] \/ \E i \in 1 .. Len(todo) : todo[i].op = "restore" /\ todo[i].joint = j
  /\ At("extend") => \E i \in 1 .. Len(todo) : todo[i].op = "restore" /\ todo[i].joint = j0

\* The reference check is still to come, or it is done and nothing left to do
\* can move a zero.
Done ==
  /\ \A j \in Required : Referenced(j)
  /\ \A i \in 1 .. Len(todo) : todo[i].op \in AfterOps
  /\ \A j \in Joint : axis[j].start => InPosition(axis[j])
RefInv == ~Standalone /\ Validated /\ raised = "no" =>
  Ends(todo) \/ Done

\* A joint that may move has the one it needs parked at its boundary.
ClearInv == ~Standalone /\ ClearanceConfig =>
  /\ \A j \in Joint : AtRest(j) \/ \A k \in NeedsParked[j] : AtBoundary(k, axis[k].pos)
  /\ raised = "no" /\ todo # <<>> /\ Covered(Now) => \A k \in NeedsParked[j0] : AtBoundary(k, axis[k].pos)

\* A controller that gave up has taken the power off.
PowerInv ==
  "link" \notin Hazards /\ (result = "failed" \/ (result = "interrupted" /\ Standalone)) =>
    \A j \in Joint : ~axis[j].power
HomingInv ==
  TypeOK /\ StackInv /\ RestInv /\ LimitsInv /\ RefInv /\ ClearInv /\ PowerInv

-----------------------------------------------------------------------------
(***************************************************************************)
(* Well-formed stacks: taking the top off, and putting a body in its       *)
(* place.                                                                  *)
(***************************************************************************)
\* What is below the top of a stack.
LEMMA TailOf ==
  ASSUME NEW s \in Seq(Operation), s # <<>>
  PROVE  /\ Tail(s) \in Seq(Operation) /\ Len(Tail(s)) = Len(s) - 1 /\ Head(s) = s[1]
         /\ \A i \in 1 .. Len(s) - 1 : Tail(s)[i] = s[i + 1]
         /\ Len(s) \in Nat /\ Len(s) >= 1 /\ \A i \in 1 .. Len(s) : s[i] \in Operation
OBVIOUS

\* A well-formed stack is one without its top, too.
LEMMA TailOK ==
  ASSUME NEW s, StackOK(s), s # <<>>
  PROVE  /\ StackOK(Tail(s))
         /\ Tail(s) = <<>> => ~Opens(s[1])
         /\ Tail(s) # <<>> => /\ Head(Tail(s)) = s[2] /\ Follows(s[1], s[2]) /\ s[2] \in Operation
                              /\ Len(s) >= 2
<1>. DEFINE t == Tail(s)
<1>1. /\ s \in Seq(Operation) /\ t \in Seq(Operation) /\ Len(t) = Len(s) - 1 /\ Len(s) \in Nat /\ Len(s) >= 1
      /\ \A i \in 1 .. Len(s) - 1 : t[i] = s[i + 1]
      /\ \A i \in 1 .. Len(s) : s[i] \in Operation
  BY TailOf DEF StackOK, Linked
<1>. HIDE DEF t
<1>2. \A i \in 1 .. Len(t) - 1 : Follows(t[i], t[i + 1])
  BY <1>1 DEF StackOK, Linked
<1>3. \A i, k \in 1 .. Len(t) : i < k => Above(t[i], t[k])
  BY <1>1 DEF StackOK, Linked
<1>4. \A i \in 1 .. Len(t) : Opens(t[i]) => i # Len(t)
  BY <1>1 DEF StackOK, Linked
<1>5. t = <<>> => ~Opens(s[1])
  BY <1>1 DEF StackOK, Linked
<1>6. t # <<>> => Head(t) = s[2] /\ Follows(s[1], s[2]) /\ s[2] \in Operation /\ Len(s) >= 2
  <2>. SUFFICES ASSUME t # <<>> PROVE Head(t) = s[2] /\ Follows(s[1], s[2]) /\ s[2] \in Operation /\ Len(s) >= 2
    OBVIOUS
  <2>1. Len(t) >= 1 /\ Head(t) = t[1]
    BY <1>1
  <2>2. QED BY <1>1, <2>1 DEF StackOK, Linked
<1>7. QED BY <1>1, <1>2, <1>3, <1>4, <1>5, <1>6 DEF StackOK, Linked, t

\* The elements of a concatenation.
LEMMA Joined ==
  ASSUME NEW s \in Seq(Operation), NEW t \in Seq(Operation)
  PROVE  /\ s \o t \in Seq(Operation) /\ Len(s \o t) = Len(s) + Len(t)
         /\ \A i \in 1 .. Len(s) : (s \o t)[i] = s[i]
         /\ \A i \in 1 .. Len(t) : (s \o t)[Len(s) + i] = t[i]
         /\ \A i \in 1 .. Len(s \o t) : i \in 1 .. Len(s) \/ i - Len(s) \in 1 .. Len(t)
OBVIOUS

\* A body may take the place of the operation that calls it.
LEMMA JoinOK ==
  ASSUME NEW v, StackOK(v), v # <<>>, NEW s, Body(v[1], s)
  PROVE  StackOK(s \o Tail(v)) /\ s \o Tail(v) # <<>> /\ Head(s \o Tail(v)) = s[1]
<1>. DEFINE a == v[1]   t == Tail(v)   u == s \o t   b == s[Len(s)]
<1>1. /\ t \in Seq(Operation) /\ Len(v) = Len(t) + 1 /\ \A i \in 1 .. Len(t) : v[i + 1] = t[i]
      /\ Len(v) \in Nat /\ Body(a, s)
  BY TailOf DEF StackOK, Linked
<1>. HIDE DEF t, a
<1>2. /\ s \in Seq(Operation) /\ u \in Seq(Operation) /\ Len(u) = Len(s) + Len(t) /\ Len(s) \in Nat /\ Len(t) \in Nat
      /\ Len(s) >= 1
      /\ \A i \in 1 .. Len(s) : u[i] = s[i]
      /\ \A i \in 1 .. Len(t) : u[Len(s) + i] = t[i]
  BY <1>1, Joined DEF Body, Line, Linked
<1>3. /\ \A i \in 1 .. Len(t) - 1 : Follows(t[i], t[i + 1])
      /\ \A i, k \in 1 .. Len(t) : i < k => Above(t[i], t[k])
      /\ \A i \in 1 .. Len(t) : Opens(t[i]) => i # Len(t)
      /\ \A k \in 1 .. Len(t) : Above(a, t[k])
      /\ t # <<>> => Follows(a, t[1]) /\ Len(t) >= 1
      /\ t = <<>> => ~Opens(a) /\ Len(t) = 0
  <2>1. /\ Len(v) = Len(t) + 1 /\ v[1] = a /\ \A i \in 1 .. Len(t) : v[i + 1] = t[i]
    BY <1>1 DEF a
  <2>2. /\ \A i \in 1 .. Len(v) - 1 : Follows(v[i], v[i + 1])
        /\ \A i, k \in 1 .. Len(v) : i < k => Above(v[i], v[k])
        /\ \A i \in 1 .. Len(v) : Opens(v[i]) => i # Len(v)
    BY DEF StackOK, Linked
  <2>3. \A i \in 1 .. Len(t) - 1 : Follows(t[i], t[i + 1])
    <3>. TAKE i \in 1 .. Len(t) - 1
    <3>1. i + 1 \in 1 .. Len(v) - 1 /\ v[i + 1] = t[i] /\ v[i + 1 + 1] = t[i + 1]
      BY <1>2, <2>1
    <3>2. QED BY <2>2, <3>1
  <2>4. \A i, k \in 1 .. Len(t) : i < k => Above(t[i], t[k])
    <3>. TAKE i, k \in 1 .. Len(t)
    <3>1. i + 1 \in 1 .. Len(v) /\ k + 1 \in 1 .. Len(v) /\ v[i + 1] = t[i] /\ v[k + 1] = t[k]
      BY <1>2, <2>1
    <3>2. i < k => i + 1 < k + 1
      OBVIOUS
    <3>3. QED BY <2>2, <3>1, <3>2
  <2>5. \A i \in 1 .. Len(t) : Opens(t[i]) => i # Len(t)
    <3>. TAKE i \in 1 .. Len(t)
    <3>1. i + 1 \in 1 .. Len(v) /\ v[i + 1] = t[i] /\ (i = Len(t) => i + 1 = Len(v))
      BY <1>2, <2>1
    <3>2. QED BY <2>2, <3>1
  <2>6. \A k \in 1 .. Len(t) : Above(a, t[k])
    <3>. TAKE k \in 1 .. Len(t)
    <3>1. 1 \in 1 .. Len(v) /\ k + 1 \in 1 .. Len(v) /\ 1 < k + 1 /\ v[k + 1] = t[k]
      BY <1>2, <2>1
    <3>2. QED BY <2>1, <2>2, <3>1
  <2>7. t # <<>> => Follows(a, t[1]) /\ Len(t) >= 1
    <3>. HAVE t # <<>>
    <3>1. Len(t) >= 1 BY <1>1
    <3>2. 1 \in 1 .. Len(v) - 1 /\ v[1 + 1] = t[1]
      BY <1>2, <2>1, <3>1
    <3>3. QED BY <2>1, <2>2, <3>1, <3>2
  <2>8. t = <<>> => ~Opens(a) /\ Len(t) = 0
    <3>. HAVE t = <<>>
    <3>1. Len(t) = 0 OBVIOUS
    <3>2. 1 \in 1 .. Len(v) /\ 1 = Len(v)
      BY <2>1, <3>1
    <3>3. QED BY <2>1, <2>2, <3>1, <3>2
  <2>9. QED BY <2>3, <2>4, <2>5, <2>6, <2>7, <2>8
<1>. HIDE DEF u
<1>4. t # <<>> => Follows(b, t[1])
  <2>. HAVE t # <<>>
  <2>. DEFINE c == t[1]
  <2>1. Follows(a, c) /\ b.joint = a.joint
    BY <1>1, <1>3 DEF Body
  <2>2. c.op \notin {"latched", "released", "reach", "verify", "ready", "extend"}
    BY <1>1, <2>1 DEF Follows, Body
  <2>3. c.op = "goto_rest" => b.op = "give_up"
    BY <1>1, <2>1 DEF Follows, Body
  <2>4. /\ b.op \in Active => c.op \in Moving /\ c.joint = b.joint
        /\ ~Starter(b) /\ ~DirectedSeek(b)
    BY <1>1, <2>1 DEF Follows, Body, Opens, Starter, DirectedSeek, Moving
  <2>5. ClearanceConfig => Covers(b, c)
    BY <1>1, <2>1 DEF Follows, Body, Covers, Covered
  <2>6. QED BY <2>1, <2>2, <2>3, <2>4, <2>5 DEF Follows
<1>5. \A i \in 1 .. Len(s), k \in 1 .. Len(t) : Above(s[i], t[k])
  BY <1>1, <1>3 DEF Above, Body, Inner, UnderRest
<1>6. \A i \in 1 .. Len(u) - 1 : Follows(u[i], u[i + 1])
  <2>. TAKE i \in 1 .. Len(u) - 1
  <2>1. CASE i < Len(s)
    <3>1. i \in 1 .. Len(s) - 1 /\ i \in 1 .. Len(s) /\ i + 1 \in 1 .. Len(s)
      BY <1>2, <2>1
    <3>. u[i] = s[i] /\ u[i + 1] = s[i + 1]
      BY <1>2, <3>1
    <3>2. QED BY <1>1, <3>1 DEF Body, Line, Linked
  <2>2. CASE i = Len(s)
    <3>1. Len(t) >= 1 /\ t # <<>> /\ u[i] = b /\ u[i + 1] = t[1]
      BY <1>2, <2>2
    <3>2. QED BY <1>4, <3>1
  <2>3. CASE i > Len(s)
    <3>. DEFINE m == i - Len(s)
    <3>1. m \in 1 .. Len(t) - 1 /\ u[i] = t[m] /\ u[i + 1] = t[m + 1]
      <4>1. m \in 1 .. Len(t) - 1 /\ m + 1 \in 1 .. Len(t) /\ i = Len(s) + m /\ i + 1 = Len(s) + (m + 1)
        BY <1>2, <2>3
      <4>. HIDE DEF m
      <4>2. QED BY <1>2, <4>1
    <3>2. QED BY <1>3, <3>1
  <2>4. QED BY <1>2, <2>1, <2>2, <2>3
<1>7. \A i, k \in 1 .. Len(u) : i < k => Above(u[i], u[k])
  <2>. SUFFICES ASSUME NEW i \in 1 .. Len(u), NEW k \in 1 .. Len(u), i < k PROVE Above(u[i], u[k])
    OBVIOUS
  <2>1. CASE k <= Len(s)
    <3>1. i \in 1 .. Len(s) /\ k \in 1 .. Len(s) /\ u[i] = s[i] /\ u[k] = s[k]
      BY <1>2, <2>1
    <3>2. QED BY <1>1, <3>1 DEF Body, Line, Linked
  <2>2. CASE k > Len(s)
    <3>. DEFINE m == k - Len(s)   n == i - Len(s)
    <3>1. m \in 1 .. Len(t) /\ u[k] = t[m]
      <4>1. m \in 1 .. Len(t) /\ k = Len(s) + m
        BY <1>2, <2>2
      <4>. HIDE DEF m
      <4>2. QED BY <1>2, <4>1
    <3>2. CASE i <= Len(s)
      <4>1. i \in 1 .. Len(s) /\ u[i] = s[i]
        BY <1>2, <3>2
      <4>2. QED BY <1>5, <3>1, <4>1
    <3>3. CASE i > Len(s)
      <4>1. n \in 1 .. Len(t) /\ i = Len(s) + n /\ n < m
        <5>1. Len(u) = Len(s) + Len(t) /\ Len(s) \in Nat /\ Len(t) \in Nat
          BY <1>2
        <5>2. QED BY <3>3, <5>1
      <4>. HIDE DEF n, m
      <4>2. u[i] = t[n]
        BY <1>2, <4>1
      <4>3. QED BY <1>3, <3>1, <4>1, <4>2
    <3>4. QED BY <1>2, <3>2, <3>3
  <2>3. QED BY <1>2, <2>1, <2>2
<1>8. \A i \in 1 .. Len(u) : Opens(u[i]) => i # Len(u)
  <2>1. CASE t = <<>>
    <3>1. Len(t) = 0 /\ ~Opens(a)
      BY <1>3, <2>1
    <3>2. ~Starter(a)
      BY <3>1 DEF Opens
    <3>3. u[Len(u)] = b /\ ~Opens(b)
      BY <1>1, <1>2, <3>1, <3>2 DEF Body
    <3>4. QED BY <3>3
  <2>2. CASE t # <<>>
    <3>1. Len(t) \in 1 .. Len(t) /\ u[Len(u)] = t[Len(t)]
      BY <1>2, <1>3, <2>2
    <3>2. ~Opens(t[Len(t)])
      BY <1>3, <3>1
    <3>3. QED BY <3>1, <3>2
  <2>3. QED BY <2>1, <2>2
<1>9. u # <<>> /\ Head(u) = s[1]
  BY <1>2
<1>10. QED BY <1>2, <1>6, <1>7, <1>8, <1>9 DEF StackOK, Linked, u, t

-----------------------------------------------------------------------------
(***************************************************************************)
(* Short tuples put together: the solver does not compute a concatenation, *)
(* so each shape the bodies have is stated once.                           *)
(***************************************************************************)
\* Tuples put together.
LEMMA Glue2and2 ==
  ASSUME NEW a, NEW b, NEW c, NEW d
  PROVE  <<a, b>> \o <<c, d>> = <<a, b, c, d>>
<1>. DEFINE S == {a, b, c, d}
            x == <<a, b>> \o <<c, d>>
            y == <<a, b, c, d>>
<1>1. x \in Seq(S) /\ y \in Seq(S) /\ Len(x) = 4 /\ Len(y) = 4
  OBVIOUS
<1>2. \A z \in 1 .. 4 : x[z] = y[z]
  OBVIOUS
<1>. HIDE DEF S, x, y
<1>3. x = y
  BY <1>1, <1>2, SeqEqual
<1>4. QED BY <1>3 DEF x, y

LEMMA Glue1and1 ==
  ASSUME NEW a, NEW b
  PROVE  <<a>> \o <<b>> = <<a, b>>
<1>. DEFINE S == {a, b}
            x == <<a>> \o <<b>>
            y == <<a, b>>
<1>1. x \in Seq(S) /\ y \in Seq(S) /\ Len(x) = 2 /\ Len(y) = 2
  OBVIOUS
<1>2. \A z \in 1 .. 2 : x[z] = y[z]
  OBVIOUS
<1>. HIDE DEF S, x, y
<1>3. x = y
  BY <1>1, <1>2, SeqEqual
<1>4. QED BY <1>3 DEF x, y

LEMMA Glue1and2 ==
  ASSUME NEW a, NEW b, NEW c
  PROVE  <<a>> \o <<b, c>> = <<a, b, c>>
<1>. DEFINE S == {a, b, c}
            x == <<a>> \o <<b, c>>
            y == <<a, b, c>>
<1>1. x \in Seq(S) /\ y \in Seq(S) /\ Len(x) = 3 /\ Len(y) = 3
  OBVIOUS
<1>2. \A z \in 1 .. 3 : x[z] = y[z]
  OBVIOUS
<1>. HIDE DEF S, x, y
<1>3. x = y
  BY <1>1, <1>2, SeqEqual
<1>4. QED BY <1>3 DEF x, y

LEMMA Glue2and1 ==
  ASSUME NEW a, NEW b, NEW c
  PROVE  <<a, b>> \o <<c>> = <<a, b, c>>
<1>. DEFINE S == {a, b, c}
            x == <<a, b>> \o <<c>>
            y == <<a, b, c>>
<1>1. x \in Seq(S) /\ y \in Seq(S) /\ Len(x) = 3 /\ Len(y) = 3
  OBVIOUS
<1>2. \A z \in 1 .. 3 : x[z] = y[z]
  OBVIOUS
<1>. HIDE DEF S, x, y
<1>3. x = y
  BY <1>1, <1>2, SeqEqual
<1>4. QED BY <1>3 DEF x, y

LEMMA Glue3and1 ==
  ASSUME NEW a, NEW b, NEW c, NEW d
  PROVE  <<a, b, c>> \o <<d>> = <<a, b, c, d>>
<1>. DEFINE S == {a, b, c, d}
            x == <<a, b, c>> \o <<d>>
            y == <<a, b, c, d>>
<1>1. x \in Seq(S) /\ y \in Seq(S) /\ Len(x) = 4 /\ Len(y) = 4
  OBVIOUS
<1>2. \A z \in 1 .. 4 : x[z] = y[z]
  OBVIOUS
<1>. HIDE DEF S, x, y
<1>3. x = y
  BY <1>1, <1>2, SeqEqual
<1>4. QED BY <1>3 DEF x, y

LEMMA Glue3and2 ==
  ASSUME NEW a, NEW b, NEW c, NEW d, NEW e
  PROVE  <<a, b, c>> \o <<d, e>> = <<a, b, c, d, e>>
<1>. DEFINE S == {a, b, c, d, e}
            x == <<a, b, c>> \o <<d, e>>
            y == <<a, b, c, d, e>>
<1>1. x \in Seq(S) /\ y \in Seq(S) /\ Len(x) = 5 /\ Len(y) = 5
  OBVIOUS
<1>2. \A z \in 1 .. 5 : x[z] = y[z]
  OBVIOUS
<1>. HIDE DEF S, x, y
<1>3. x = y
  BY <1>1, <1>2, SeqEqual
<1>4. QED BY <1>3 DEF x, y

LEMMA Glue4and1 ==
  ASSUME NEW a, NEW b, NEW c, NEW d, NEW e
  PROVE  <<a, b, c, d>> \o <<e>> = <<a, b, c, d, e>>
<1>. DEFINE S == {a, b, c, d, e}
            x == <<a, b, c, d>> \o <<e>>
            y == <<a, b, c, d, e>>
<1>1. x \in Seq(S) /\ y \in Seq(S) /\ Len(x) = 5 /\ Len(y) = 5
  OBVIOUS
<1>2. \A z \in 1 .. 5 : x[z] = y[z]
  OBVIOUS
<1>. HIDE DEF S, x, y
<1>3. x = y
  BY <1>1, <1>2, SeqEqual
<1>4. QED BY <1>3 DEF x, y

LEMMA Glue5and1 ==
  ASSUME NEW a, NEW b, NEW c, NEW d, NEW e, NEW f
  PROVE  <<a, b, c, d, e>> \o <<f>> = <<a, b, c, d, e, f>>
<1>. DEFINE S == {a, b, c, d, e, f}
            x == <<a, b, c, d, e>> \o <<f>>
            y == <<a, b, c, d, e, f>>
<1>1. x \in Seq(S) /\ y \in Seq(S) /\ Len(x) = 6 /\ Len(y) = 6
  OBVIOUS
<1>2. \A z \in 1 .. 6 : x[z] = y[z]
  OBVIOUS
<1>. HIDE DEF S, x, y
<1>3. x = y
  BY <1>1, <1>2, SeqEqual
<1>4. QED BY <1>3 DEF x, y

LEMMA Glue6and2 ==
  ASSUME NEW a, NEW b, NEW c, NEW d, NEW e, NEW f, NEW g, NEW h
  PROVE  <<a, b, c, d, e, f>> \o <<g, h>> = <<a, b, c, d, e, f, g, h>>
<1>. DEFINE S == {a, b, c, d, e, f, g, h}
            x == <<a, b, c, d, e, f>> \o <<g, h>>
            y == <<a, b, c, d, e, f, g, h>>
<1>1. x \in Seq(S) /\ y \in Seq(S) /\ Len(x) = 8 /\ Len(y) = 8
  OBVIOUS
<1>2. \A z \in 1 .. 8 : x[z] = y[z]
  OBVIOUS
<1>. HIDE DEF S, x, y
<1>3. x = y
  BY <1>1, <1>2, SeqEqual
<1>4. QED BY <1>3 DEF x, y

LEMMA Glue1and8 ==
  ASSUME NEW a, NEW b, NEW c, NEW d, NEW e, NEW f, NEW g, NEW h, NEW i
  PROVE  <<a>> \o <<b, c, d, e, f, g, h, i>> = <<a, b, c, d, e, f, g, h, i>>
<1>. DEFINE S == {a, b, c, d, e, f, g, h, i}
            x == <<a>> \o <<b, c, d, e, f, g, h, i>>
            y == <<a, b, c, d, e, f, g, h, i>>
<1>1. x \in Seq(S) /\ y \in Seq(S) /\ Len(x) = 9 /\ Len(y) = 9
  OBVIOUS
<1>2. \A z \in 1 .. 9 : x[z] = y[z]
  OBVIOUS
<1>. HIDE DEF S, x, y
<1>3. x = y
  BY <1>1, <1>2, SeqEqual
<1>4. QED BY <1>3 DEF x, y

LEMMA Glue3and8 ==
  ASSUME NEW a, NEW b, NEW c, NEW d, NEW e, NEW f, NEW g, NEW h, NEW i, NEW j, NEW k
  PROVE  <<a, b, c>> \o <<d, e, f, g, h, i, j, k>> = <<a, b, c, d, e, f, g, h, i, j, k>>
<1>. DEFINE S == {a, b, c, d, e, f, g, h, i, j, k}
            x == <<a, b, c>> \o <<d, e, f, g, h, i, j, k>>
            y == <<a, b, c, d, e, f, g, h, i, j, k>>
<1>1. x \in Seq(S) /\ y \in Seq(S) /\ Len(x) = 11 /\ Len(y) = 11
  OBVIOUS
<1>2. \A z \in 1 .. 11 : x[z] = y[z]
  OBVIOUS
<1>. HIDE DEF S, x, y
<1>3. x = y
  BY <1>1, <1>2, SeqEqual
<1>4. QED BY <1>3 DEF x, y

LEMMA Glue1and11 ==
  ASSUME NEW a, NEW b, NEW c, NEW d, NEW e, NEW f, NEW g, NEW h, NEW i, NEW j, NEW k, NEW l
  PROVE  <<a>> \o <<b, c, d, e, f, g, h, i, j, k, l>> = <<a, b, c, d, e, f, g, h, i, j, k, l>>
<1>. DEFINE S == {a, b, c, d, e, f, g, h, i, j, k, l}
            x == <<a>> \o <<b, c, d, e, f, g, h, i, j, k, l>>
            y == <<a, b, c, d, e, f, g, h, i, j, k, l>>
<1>1. x \in Seq(S) /\ y \in Seq(S) /\ Len(x) = 12 /\ Len(y) = 12
  OBVIOUS
<1>2. \A z \in 1 .. 12 : x[z] = y[z]
  OBVIOUS
<1>. HIDE DEF S, x, y
<1>3. x = y
  BY <1>1, <1>2, SeqEqual
<1>4. QED BY <1>3 DEF x, y

LEMMA Glue12and1 ==
  ASSUME NEW a, NEW b, NEW c, NEW d, NEW e, NEW f, NEW g, NEW h, NEW i, NEW j, NEW k, NEW l, NEW m
  PROVE  <<a, b, c, d, e, f, g, h, i, j, k, l>> \o <<m>> = <<a, b, c, d, e, f, g, h, i, j, k, l, m>>
<1>. DEFINE S == {a, b, c, d, e, f, g, h, i, j, k, l, m}
            x == <<a, b, c, d, e, f, g, h, i, j, k, l>> \o <<m>>
            y == <<a, b, c, d, e, f, g, h, i, j, k, l, m>>
<1>1. x \in Seq(S) /\ y \in Seq(S) /\ Len(x) = 13 /\ Len(y) = 13
  OBVIOUS
<1>2. \A z \in 1 .. 13 : x[z] = y[z]
  OBVIOUS
<1>. HIDE DEF S, x, y
<1>3. x = y
  BY <1>1, <1>2, SeqEqual
<1>4. QED BY <1>3 DEF x, y

LEMMA Glue1and5 ==
  ASSUME NEW a, NEW b, NEW c, NEW d, NEW e, NEW f
  PROVE  <<a>> \o <<b, c, d, e, f>> = <<a, b, c, d, e, f>>
<1>. DEFINE S == {a, b, c, d, e, f}
            x == <<a>> \o <<b, c, d, e, f>>
            y == <<a, b, c, d, e, f>>
<1>1. x \in Seq(S) /\ y \in Seq(S) /\ Len(x) = 6 /\ Len(y) = 6
  OBVIOUS
<1>2. \A z \in 1 .. 6 : x[z] = y[z]
  OBVIOUS
<1>. HIDE DEF S, x, y
<1>3. x = y
  BY <1>1, <1>2, SeqEqual
<1>4. QED BY <1>3 DEF x, y

LEMMA Glue2and5 ==
  ASSUME NEW a, NEW b, NEW c, NEW d, NEW e, NEW f, NEW g
  PROVE  <<a, b>> \o <<c, d, e, f, g>> = <<a, b, c, d, e, f, g>>
<1>. DEFINE S == {a, b, c, d, e, f, g}
            x == <<a, b>> \o <<c, d, e, f, g>>
            y == <<a, b, c, d, e, f, g>>
<1>1. x \in Seq(S) /\ y \in Seq(S) /\ Len(x) = 7 /\ Len(y) = 7
  OBVIOUS
<1>2. \A z \in 1 .. 7 : x[z] = y[z]
  OBVIOUS
<1>. HIDE DEF S, x, y
<1>3. x = y
  BY <1>1, <1>2, SeqEqual
<1>4. QED BY <1>3 DEF x, y

-----------------------------------------------------------------------------
(***************************************************************************)
(* Operations and the pieces that bodies are made of.                      *)
(***************************************************************************)
\* The operations the model writes down.
LEMMA OpIs ==
  ASSUME NEW j \in Joint, NEW n \in Names
  PROVE  Is(Op(n, j), n, j, "-")
BY DEF Op, Operation, Kinds, Is

LEMMA KindIs ==
  ASSUME NEW j \in Joint, NEW n \in Names, NEW k \in Kinds
  PROVE  Is(Kind(n, j, k), n, j, k)
<1>1. Is(Op(n, j), n, j, "-")
  BY OpIs
<1>2. QED BY <1>1 DEF Is, Operation, Kind

\* What an operation is, whatever its argument and its escape flag.
LEMMA Updated ==
  ASSUME NEW o, NEW n, NEW j, NEW k, Is(o, n, j, k)
  PROVE  /\ \A c \in Int : Is([o EXCEPT !.arg = c], n, j, k)
         /\ \A e \in BOOLEAN : Is([o EXCEPT !.escape = e], n, j, k)
         /\ \A c \in Int, e \in BOOLEAN : Is([o EXCEPT !.arg = c, !.escape = e], n, j, k)
         /\ \A m \in Names : Is([o EXCEPT !.op = m], m, j, k)
BY DEF Operation, Is

LEMMA HandshakeIs ==
  ASSUME j0 \in Joint, NEW e \in BOOLEAN, NEW k \in Kinds
  PROVE  \E r, l, d : /\ Handshake(k, e) = <<r, l, d>>
                      /\ Is(r, "ready", j0, k) /\ Is(l, "latched", j0, "-") /\ Is(d, "released", j0, "-")
<1>1. Is(Kind("ready", j0, k), "ready", j0, k) /\ Is(Op("latched", j0), "latched", j0, "-")
      /\ Is(Op("released", j0), "released", j0, "-")
  BY OpIs, KindIs DEF Names
<1>2. /\ Is([Kind("ready", j0, k) EXCEPT !.escape = e], "ready", j0, k)
      /\ Is([Op("latched", j0) EXCEPT !.escape = e], "latched", j0, "-")
      /\ Is([Op("released", j0) EXCEPT !.escape = e], "released", j0, "-")
  BY <1>1, Updated
<1>3. QED BY <1>2 DEF Handshake

LEMMA ReachIs ==
  ASSUME j0 \in Joint, NEW e \in BOOLEAN, NEW c \in Int
  PROVE  Is(Reach(c, e), "reach", j0, "-")
<1>1. Is(Op("reach", j0), "reach", j0, "-")
  BY OpIs DEF Names
<1>2. QED BY <1>1, Updated DEF Reach

LEMMA MotionIs ==
  ASSUME NEW j \in Joint, NEW by \in Int
  PROVE  /\ \E m : Motion(j, by) = <<m>> /\ Is(m, "move", j, "-")
         /\ \E m : MotionToEnd(j, by) = <<m>> /\ Is(m, "move", j, "wait")
<1>1. Is(Op("move", j), "move", j, "-") /\ Is(Kind("move", j, "wait"), "move", j, "wait")
  BY OpIs, KindIs DEF Names, Kinds
<1>2. Is([Op("move", j) EXCEPT !.arg = by], "move", j, "-") /\ Is([Kind("move", j, "wait") EXCEPT !.arg = by], "move", j, "wait")
  BY <1>1, Updated
<1>3. QED BY <1>2 DEF Motion, MotionToEnd

\* A line without restore or goto_rest needs no check of what is above what.
LEMMA LineFrom ==
  ASSUME NEW s \in Seq(Operation), Len(s) >= 1, Plain(s), Linked(s)
  PROVE  Line(s)
BY DEF Line, Plain, Above

LEMMA LineAlso ==
  ASSUME NEW s \in Seq(Operation), Len(s) >= 1, Linked(s),
         \A i, k \in 1 .. Len(s) : i < k => Above(s[i], s[k])
  PROVE  Line(s)
BY DEF Line

\* The body of a method that is itself no part of a motion.
LEMMA BodyFrom ==
  ASSUME NEW a \in Operation,
         a.op \in
                 {"home", "park_a", "from_a", "park_boundary", "direct", "park_c", "hold",
                  "c_to_b",
                   "single", "search_a", "search_b", "direct_b", "reverse"},
         NEW s, Line(s), s[Len(s)].joint = a.joint,
         ~Opens(s[Len(s)]), a.op \notin {"home", "direct"} => s[Len(s)].op \notin Exempt,
         a.op = "hold" => s[Len(s)].op = "check" /\ s[Len(s)].kind = "boundary",
         a.op # "c_to_b" => \A i \in 1 .. Len(s) : s[i].op # "restore"
  PROVE  Body(a, s)
BY DEF Body, Exempt, Inner, UnderRest, AfterOps

LEMMA SetHomeIs ==
  ASSUME NEW j \in Joint
  PROVE  \E n, e, r, q, b, c, f, v :
           /\ SetHome(j) = <<n, e, r, q, b, c, f, v>>
           /\ Is(n, "neutral", j, "-") /\ Is(e, "edge", j, "-") /\ Is(r, "replaced", j, "-")
           /\ Is(q, "request", j, "-") /\ Is(b, "begin", j, "-") /\ Is(c, "confirm", j, "-")
           /\ Is(f, "finish", j, "-") /\ Is(v, "verify", j, "-")
<1>1. /\ Is(Op("neutral", j), "neutral", j, "-") /\ Is(Op("edge", j), "edge", j, "-")
      /\ Is(Op("replaced", j), "replaced", j, "-") /\ Is(Op("request", j), "request", j, "-")
      /\ Is(Op("begin", j), "begin", j, "-") /\ Is(Op("confirm", j), "confirm", j, "-")
      /\ Is(Op("finish", j), "finish", j, "-") /\ Is(Op("verify", j), "verify", j, "-")
  BY OpIs DEF Names
<1>. DEFINE n == Op("neutral", j)  e == Op("edge", j)  r == Op("replaced", j)  q == Op("request", j)
            b == Op("begin", j)  c == Op("confirm", j)  f == Op("finish", j)  v == Op("verify", j)
<1>2. SetHome(j) = <<n, e, r>> \o <<q, b>> \o <<c>> \o <<f, v>>
  BY DEF SetHome, Zeroing, Finishing
<1>. HIDE DEF n, e, r, q, b, c, f, v
<1>3. <<n, e, r>> \o <<q, b>> = <<n, e, r, q, b>>
  BY Glue3and2
<1>4. <<n, e, r, q, b>> \o <<c>> = <<n, e, r, q, b, c>>
  BY Glue5and1
<1>5. <<n, e, r, q, b, c>> \o <<f, v>> = <<n, e, r, q, b, c, f, v>>
  BY Glue6and2
<1>6. SetHome(j) = <<n, e, r, q, b, c, f, v>>
  BY <1>2, <1>3, <1>4, <1>5
<1>7. QED BY <1>1, <1>6 DEF n, e, r, q, b, c, f, v

LEMMA SetSingleZeroIs ==
  ASSUME NEW j \in Joint
  PROVE  \E n, q, b, f, v :
           /\ SetSingleZero(j) = <<n, q, b, f, v>>
           /\ Is(n, "neutral", j, "-") /\ Is(q, "request", j, "-") /\ Is(b, "begin", j, "-")
           /\ Is(f, "finish", j, "-") /\ Is(v, "verify", j, "-")
<1>1. /\ Is(Op("neutral", j), "neutral", j, "-") /\ Is(Op("request", j), "request", j, "-")
      /\ Is(Op("begin", j), "begin", j, "-")
      /\ Is(Op("finish", j), "finish", j, "-") /\ Is(Op("verify", j), "verify", j, "-")
  BY OpIs DEF Names
<1>. DEFINE n == Op("neutral", j)  q == Op("request", j)  b == Op("begin", j)
            f == Op("finish", j)  v == Op("verify", j)
<1>2. SetSingleZero(j) = <<n>> \o <<q, b>> \o <<f, v>>
  BY DEF SetSingleZero, Zeroing, Finishing
<1>. HIDE DEF n, q, b, f, v
<1>3. <<n>> \o <<q, b>> = <<n, q, b>>
  BY Glue1and2
<1>4. <<n, q, b>> \o <<f, v>> = <<n, q, b, f, v>>
  BY Glue3and2
<1>5. SetSingleZero(j) = <<n, q, b, f, v>>
  BY <1>2, <1>3, <1>4
<1>6. QED BY <1>1, <1>5 DEF n, q, b, f, v

-----------------------------------------------------------------------------
(***************************************************************************)
(* The bodies of the motions and of a search.                              *)
(***************************************************************************)
\* move_joint_relative_radians calls the handshake, and the wait if there is one.
LEMMA MoveBody ==
  ASSUME Now \in Operation, Now.op = "move", NEW e \in BOOLEAN, NEW c \in Int
  PROVE  LET s == Handshake("relative", e) \o (IF Now.kind = "wait" THEN <<Reach(c, e)>> ELSE <<>>)
         IN  Body(Now, s) /\ s[1].op = "ready" /\ s[1].joint = j0
<1>. DEFINE s == Handshake("relative", e) \o (IF Now.kind = "wait" THEN <<Reach(c, e)>> ELSE <<>>)
            y == Reach(c, e)
<1>1. j0 \in Joint
  BY DEF Operation, j0
<1>2. PICK r, l, d : /\ Handshake("relative", e) = <<r, l, d>>
                     /\ Is(r, "ready", j0, "relative") /\ Is(l, "latched", j0, "-")
                     /\ Is(d, "released", j0, "-")
  BY <1>1, HandshakeIs DEF Kinds
<1>3. Is(y, "reach", j0, "-")
  BY <1>1, ReachIs
<1>. HIDE DEF s, y
<1>4. CASE Now.kind = "wait"
  <2>1. s = <<r, l, d, y>>
    BY <1>2, <1>4, Glue3and1 DEF s, y
  <2>2. s \in Seq(Operation) /\ Len(s) = 4 /\ Len(s) >= 1
    BY <1>2, <1>3, <2>1 DEF Is
  <2>3. s[1] = r /\ s[2] = l /\ s[3] = d /\ s[4] = y
    BY <1>2, <1>3, <2>1 DEF Is
  <2>4. \A i \in 1 .. 4 : s[i].op \in {"ready", "latched", "released", "reach"} /\ s[i].joint = j0
    BY <1>2, <1>3, <2>2, <2>3 DEF Is
  <2>5. Plain(s)
    BY <2>2, <2>3, <2>4 DEF Plain
  <2>6. Linked(s)
    BY <1>2, <1>3, <2>2, <2>3
       DEF Linked, Is, Follows, Covers, Covered, Exempt, Starter, DirectedSeek, Active, Moving
  <2>7. Line(s)
    BY <2>2, <2>5, <2>6, LineFrom
  <2>8. Body(Now, s)
    BY <1>2, <1>3, <2>2, <2>3, <2>4, <2>7
       DEF Is, Body, Opens, Starter, DirectedSeek, Active, Exempt, Inner, UnderRest, AfterOps,
       j0
  <2>9. QED BY <1>2, <1>3, <2>2, <2>3, <2>8 DEF s, Is
<1>5. CASE Now.kind # "wait"
  <2>1. s = <<r, l, d>>
    BY <1>2, <1>5, <<r, l, d>> \o <<>> = <<r, l, d>> DEF s, y
  <2>2. s \in Seq(Operation) /\ Len(s) = 3 /\ Len(s) >= 1
    BY <1>2, <1>5, <2>1 DEF Is
  <2>3. s[1] = r /\ s[2] = l /\ s[3] = d
    BY <1>2, <1>5, <2>1 DEF Is
  <2>4. \A i \in 1 .. 3 : s[i].op \in {"ready", "latched", "released"} /\ s[i].joint = j0
    BY <1>2, <1>5, <2>2, <2>3 DEF Is
  <2>5. Plain(s)
    BY <2>2, <2>3, <2>4 DEF Plain
  <2>6. Linked(s)
    BY <1>2, <1>5, <2>2, <2>3
       DEF Linked, Is, Follows, Covers, Covered, Exempt, Starter, DirectedSeek, Active, Moving
  <2>7. Line(s)
    BY <2>2, <2>5, <2>6, LineFrom
  <2>8. Body(Now, s)
    BY <1>2, <1>5, <2>2, <2>3, <2>4, <2>7
       DEF Is, Body, Opens, Starter, DirectedSeek, Active, Exempt, Inner, UnderRest, AfterOps,
       j0
  <2>9. QED BY <1>2, <1>5, <2>2, <2>3, <2>8 DEF s, Is
<1>6. QED BY <1>4, <1>5

\* A joint that does not leave its limit is halted softly.
LEMMA AwaitBody ==
  ASSUME Now \in Operation, Now.op = "reach"
  PROVE  LET s == <<Op("soft_halt", j0), Op("resume", j0)>> \o GiveUp
         IN  Body(Now, s) /\ s[1].op = "soft_halt" /\ s[1].joint = j0
<1>. DEFINE s == <<Op("soft_halt", j0), Op("resume", j0)>> \o GiveUp
            h == Op("soft_halt", j0)
            r == Op("resume", j0)
            g == Op("give_up", j0)
<1>1. j0 \in Joint
  BY DEF Operation, j0
<1>2. Is(h, "soft_halt", j0, "-") /\ Is(r, "resume", j0, "-") /\ Is(g, "give_up", j0, "-")
  BY <1>1, OpIs DEF Names
<1>3. s = <<h, r, g>>
  BY Glue2and1 DEF GiveUp
<1>. HIDE DEF s, h, r, g
<1>4. Body(Now, s) /\ s[1].op = "soft_halt" /\ s[1].joint = j0
  <2>1. s \in Seq(Operation) /\ Len(s) = 3 /\ Len(s) >= 1
    BY <1>2, <1>3 DEF Is
  <2>2. s[1] = h /\ s[2] = r /\ s[3] = g
    BY <1>2, <1>3 DEF Is
  <2>3. \A i \in 1 .. 3 : s[i].op \in {"soft_halt", "resume", "give_up"} /\ s[i].joint = j0
    BY <1>2, <1>3, <2>1, <2>2 DEF Is
  <2>4. Plain(s)
    BY <2>1, <2>2, <2>3 DEF Plain
  <2>5. Linked(s)
    BY <1>2, <1>3, <2>1, <2>2
       DEF Linked, Is, Follows, Covers, Covered, Exempt, Starter, DirectedSeek, Active, Moving
  <2>6. Line(s)
    BY <2>1, <2>4, <2>5, LineFrom
  <2>7. Body(Now, s)
    BY <1>2, <1>3, <2>1, <2>2, <2>3, <2>6
       DEF Is, Body, Opens, Starter, DirectedSeek, Active, Exempt, Inner, UnderRest, AfterOps,
       j0
  <2>8. QED BY <1>2, <1>3, <2>1, <2>2, <2>7 DEF Is
<1>5. QED BY <1>4 DEF s

LEMMA GotoBody ==
  ASSUME Now \in Operation, Now.op = "goto", NEW e \in BOOLEAN, NEW c \in Int
  PROVE  LET s == Handshake("absolute", e) \o <<Reach(c, e)>>
                   \o (IF e THEN <<[Now EXCEPT !.op = "goto_rest"]>> ELSE <<>>)
         IN  Body(Now, s) /\ s[1].op = "ready" /\ s[1].joint = j0
<1>. DEFINE s == Handshake("absolute", e) \o <<Reach(c, e)>>
                   \o (IF e THEN <<[Now EXCEPT !.op = "goto_rest"]>> ELSE <<>>)
            y == Reach(c, e)
            g == [Now EXCEPT !.op = "goto_rest"]
<1>1. j0 \in Joint
  BY DEF Operation, j0
<1>2. PICK r, l, d : /\ Handshake("absolute", e) = <<r, l, d>>
                     /\ Is(r, "ready", j0, "absolute") /\ Is(l, "latched", j0, "-")
                     /\ Is(d, "released", j0, "-")
  BY <1>1, HandshakeIs DEF Kinds
<1>3. Is(y, "reach", j0, "-")
  BY <1>1, ReachIs
<1>4. Is(Now, "goto", j0, Now.kind)
  BY DEF Is, j0
<1>5. Is(g, "goto_rest", j0, Now.kind)
  BY <1>4, Updated DEF Names
<1>. HIDE DEF s, y, g
<1>6. CASE e = TRUE
  <2>1. s = <<r, l, d, y, g>>
    <3>1. s = <<r, l, d>> \o <<y>> \o <<g>>
      BY <1>2, <1>6 DEF s, y, g
    <3>2. <<r, l, d>> \o <<y>> = <<r, l, d, y>>
      BY Glue3and1
    <3>3. <<r, l, d, y>> \o <<g>> = <<r, l, d, y, g>>
      BY Glue4and1
    <3>4. QED BY <3>1, <3>2, <3>3
  <2>2. s \in Seq(Operation) /\ Len(s) = 5 /\ Len(s) >= 1
    BY <1>2, <1>3, <1>5, <2>1 DEF Is
  <2>3. s[1] = r /\ s[2] = l /\ s[3] = d /\ s[4] = y /\ s[5] = g
    BY <1>2, <1>3, <1>5, <2>1 DEF Is
  <2>4. \A i \in 1 .. 5 : s[i].op \in
          {"ready", "latched", "released", "reach", "goto_rest"} /\ s[i].joint = j0
    BY <1>2, <1>3, <1>5, <2>2, <2>3 DEF Is
  <2>5. \A i, k \in 1 .. Len(s) : i < k => Above(s[i], s[k])
    BY <1>2, <1>3, <1>5, <2>2, <2>3 DEF Above, UnderRest, Is
  <2>6. Linked(s)
    BY <1>2, <1>3, <1>5, <2>2, <2>3
       DEF Linked, Is, Follows, Covers, Covered, Exempt, Starter, DirectedSeek, Active, Moving
  <2>7. Line(s)
    BY <2>2, <2>5, <2>6, LineAlso
  <2>8. Body(Now, s)
    BY <1>2, <1>3, <1>5, <2>2, <2>3, <2>4, <2>7
       DEF Is, Body, Opens, Starter, DirectedSeek, Active, Exempt, Inner, UnderRest, AfterOps,
       j0
  <2>9. QED BY <1>2, <1>3, <1>5, <2>2, <2>3, <2>8 DEF s, Is
<1>7. CASE e = FALSE
  <2>1. s = <<r, l, d, y>>
    BY <1>2, <1>7, Glue3and1, <<r, l, d, y>> \o <<>> = <<r, l, d, y>> DEF s, y
  <2>2. s \in Seq(Operation) /\ Len(s) = 4 /\ Len(s) >= 1
    BY <1>2, <1>3, <2>1 DEF Is
  <2>3. s[1] = r /\ s[2] = l /\ s[3] = d /\ s[4] = y
    BY <1>2, <1>3, <2>1 DEF Is
  <2>4. \A i \in 1 .. 4 : s[i].op \in {"ready", "latched", "released", "reach"} /\ s[i].joint = j0
    BY <1>2, <1>3, <2>2, <2>3 DEF Is
  <2>5. Plain(s)
    BY <2>2, <2>3, <2>4 DEF Plain
  <2>6. Linked(s)
    BY <1>2, <1>3, <2>2, <2>3
       DEF Linked, Is, Follows, Covers, Covered, Exempt, Starter, DirectedSeek, Active, Moving
  <2>7. Line(s)
    BY <2>2, <2>5, <2>6, LineFrom
  <2>8. Body(Now, s)
    BY <1>2, <1>3, <2>2, <2>3, <2>4, <2>7
       DEF Is, Body, Opens, Starter, DirectedSeek, Active, Exempt, Inner, UnderRest, AfterOps,
       j0
  <2>9. QED BY <1>2, <1>3, <2>2, <2>3, <2>8 DEF s, Is
<1>8. QED BY <1>6, <1>7

LEMMA GotoRestBody ==
  ASSUME Now \in Operation, Now.op = "goto_rest", NEW e \in BOOLEAN, NEW c \in Int
  PROVE  LET s == Handshake("absolute", e) \o <<Reach(c, e)>>
         IN  Body(Now, s) /\ s[1].op = "ready" /\ s[1].joint = j0
<1>. DEFINE s == Handshake("absolute", e) \o <<Reach(c, e)>>
            y == Reach(c, e)
<1>1. j0 \in Joint
  BY DEF Operation, j0
<1>2. PICK r, l, d : /\ Handshake("absolute", e) = <<r, l, d>>
                     /\ Is(r, "ready", j0, "absolute") /\ Is(l, "latched", j0, "-")
                     /\ Is(d, "released", j0, "-")
  BY <1>1, HandshakeIs DEF Kinds
<1>3. Is(y, "reach", j0, "-")
  BY <1>1, ReachIs
<1>. HIDE DEF s, y
<1>4. Body(Now, s) /\ s[1].op = "ready" /\ s[1].joint = j0
  <2>1. s = <<r, l, d, y>>
    BY <1>2, Glue3and1 DEF s, y
  <2>2. s \in Seq(Operation) /\ Len(s) = 4 /\ Len(s) >= 1
    BY <1>2, <1>3, <2>1 DEF Is
  <2>3. s[1] = r /\ s[2] = l /\ s[3] = d /\ s[4] = y
    BY <1>2, <1>3, <2>1 DEF Is
  <2>4. \A i \in 1 .. 4 : s[i].op \in {"ready", "latched", "released", "reach"} /\ s[i].joint = j0
    BY <1>2, <1>3, <2>2, <2>3 DEF Is
  <2>5. Plain(s)
    BY <2>2, <2>3, <2>4 DEF Plain
  <2>6. Linked(s)
    BY <1>2, <1>3, <2>2, <2>3
       DEF Linked, Is, Follows, Covers, Covered, Exempt, Starter, DirectedSeek, Active, Moving
  <2>7. Line(s)
    BY <2>2, <2>5, <2>6, LineFrom
  <2>8. Body(Now, s)
    BY <1>2, <1>3, <2>2, <2>3, <2>4, <2>7
       DEF Is, Body, Opens, Starter, DirectedSeek, Active, Exempt, Inner, UnderRest, AfterOps,
       j0
  <2>9. QED BY <1>2, <1>3, <2>2, <2>3, <2>8 DEF Is
<1>5. QED BY <1>4 DEF s

\* A search that is over halts its joint, and may give up.
LEMMA HaltBody ==
  ASSUME Now \in Operation, Now.op = "seek", NEW rest \in {<<>>, GiveUp}
  PROVE  LET s == <<Op("halt", j0)>> \o rest
         IN  Body(Now, s) /\ s[1].op = "halt" /\ s[1].joint = j0
<1>. DEFINE s == <<Op("halt", j0)>> \o rest
            h == Op("halt", j0)
            g == Op("give_up", j0)
<1>1. j0 \in Joint
  BY DEF Operation, j0
<1>2. Is(h, "halt", j0, "-") /\ Is(g, "give_up", j0, "-")
  BY <1>1, OpIs DEF Names
<1>3. rest \in {<<>>, <<g>>} /\ s = <<h>> \o rest
  BY DEF GiveUp
<1>. HIDE DEF s, h, g
<1>4. CASE rest = <<>>
  <2>1. s = <<h>>
    BY <1>3, <1>4, <<h>> \o <<>> = <<h>>
  <2>2. s \in Seq(Operation) /\ Len(s) = 1 /\ Len(s) >= 1
    BY <1>2, <2>1 DEF Is
  <2>3. s[1] = h
    BY <1>2, <2>1 DEF Is
  <2>4. \A i \in 1 .. 1 : s[i].op \in {"halt"} /\ s[i].joint = j0
    BY <1>2, <2>2, <2>3 DEF Is
  <2>5. Plain(s)
    BY <2>2, <2>3, <2>4 DEF Plain
  <2>6. Linked(s)
    BY <1>2, <2>2, <2>3
       DEF Linked, Is, Follows, Covers, Covered, Exempt, Starter, DirectedSeek, Active, Moving
  <2>7. Line(s)
    BY <2>2, <2>5, <2>6, LineFrom
  <2>8. Body(Now, s)
    BY <1>2, <2>2, <2>3, <2>4, <2>7
       DEF Is, Body, Opens, Starter, DirectedSeek, Active, Exempt, Inner, UnderRest, AfterOps,
       j0
  <2>9. QED BY <1>2, <2>2, <2>3, <2>8 DEF s, Is
<1>5. CASE rest = <<g>>
  <2>1. s = <<h, g>>
    BY <1>3, <1>5, Glue1and1
  <2>2. s \in Seq(Operation) /\ Len(s) = 2 /\ Len(s) >= 1
    BY <1>2, <2>1 DEF Is
  <2>3. s[1] = h /\ s[2] = g
    BY <1>2, <2>1 DEF Is
  <2>4. \A i \in 1 .. 2 : s[i].op \in {"halt", "give_up"} /\ s[i].joint = j0
    BY <1>2, <2>2, <2>3 DEF Is
  <2>5. Plain(s)
    BY <2>2, <2>3, <2>4 DEF Plain
  <2>6. Linked(s)
    BY <1>2, <2>2, <2>3
       DEF Linked, Is, Follows, Covers, Covered, Exempt, Starter, DirectedSeek, Active, Moving
  <2>7. Line(s)
    BY <2>2, <2>5, <2>6, LineFrom
  <2>8. Body(Now, s)
    BY <1>2, <2>2, <2>3, <2>4, <2>7
       DEF Is, Body, Opens, Starter, DirectedSeek, Active, Exempt, Inner, UnderRest, AfterOps,
       j0
  <2>9. QED BY <1>2, <2>2, <2>3, <2>8 DEF s, Is
<1>6. QED BY <1>3, <1>4, <1>5

-----------------------------------------------------------------------------
(***************************************************************************)
(* The bodies of the strategies.                                           *)
(***************************************************************************)
LEMMA ParkAtABody ==
  ASSUME Now \in Operation, Now.op \in {"park_a", "search_a"}
  PROVE  LET s == SearchA \o OntoA
         IN  Body(Now, s) /\ s[1].op \in {"move", "halt"} /\ s[1].joint = j0
<1>. DEFINE s == SearchA \o OntoA
            k == Kind("seek", j0, "A")
            h == Op("halt", j0)
            a == Kind("check", j0, "A")
<1>1. j0 \in Joint
  BY DEF Operation, j0
<1>2. PICK m : Motion(j0, -ParkDistance) = <<m>> /\ Is(m, "move", j0, "-")
  BY <1>1, MotionIs, HomingAssumption DEF HomingConfigOK
<1>3. Is(k, "seek", j0, "A") /\ Is(h, "halt", j0, "-") /\ Is(a, "check", j0, "A")
  BY <1>1, OpIs, KindIs DEF Names, Kinds
<1>4. s = (IF On(j0, "A", Here) THEN <<>> ELSE <<m>> \o <<k>>) \o <<h, a>>
  BY <1>2 DEF SearchA, OntoA
<1>. HIDE DEF s, k, h, a
<1>5. CASE On(j0, "A", Here)
  <2>1. s = <<h, a>>
    <3>1. s = <<>> \o <<h, a>>
      BY <1>4, <1>5
    <3>2. <<>> \o <<h, a>> = <<h, a>>
      OBVIOUS
    <3>3. QED BY <3>1, <3>2
  <2>2. s \in Seq(Operation) /\ Len(s) = 2 /\ Len(s) >= 1
    BY <1>3, <2>1 DEF Is
  <2>3. s[1] = h /\ s[2] = a
    BY <1>3, <2>1 DEF Is
  <2>4. \A i \in 1 .. 2 : s[i].op \in {"halt", "check"} /\ s[i].joint = j0
    BY <1>3, <2>2, <2>3 DEF Is
  <2>5. Plain(s)
    BY <2>2, <2>3, <2>4 DEF Plain
  <2>6. Linked(s)
    BY <1>3, <2>2, <2>3
       DEF Linked, Is, Follows, Covers, Covered, Exempt, Starter, DirectedSeek, Active, Moving
  <2>7. Line(s)
    BY <2>2, <2>5, <2>6, LineFrom
  <2>8. Body(Now, s)
    <3>1. s[2].joint = j0 /\ ~Opens(s[2]) /\ s[2].op \notin Exempt
      BY <1>3, <2>2, <2>3 DEF Is, Opens, Starter, DirectedSeek, Active, Exempt
    <3>2. \A i \in 1 .. Len(s) : s[i].op # "restore"
      BY <2>5 DEF Plain
    <3>3. QED BY <1>3, <2>2, <2>3, <2>7, <3>1, <3>2, BodyFrom DEF j0, Is
  <2>9. QED BY <1>3, <2>2, <2>3, <2>8 DEF s, Is
<1>6. CASE ~On(j0, "A", Here)
  <2>1. s = <<m, k, h, a>>
    <3>1. s = <<m>> \o <<k>> \o <<h, a>>
      BY <1>4, <1>6
    <3>2. <<m>> \o <<k>> = <<m, k>>
      BY Glue1and1
    <3>3. <<m, k>> \o <<h, a>> = <<m, k, h, a>>
      BY Glue2and2
    <3>4. QED BY <3>1, <3>2, <3>3
  <2>2. s \in Seq(Operation) /\ Len(s) = 4 /\ Len(s) >= 1
    BY <1>2, <1>3, <2>1 DEF Is
  <2>3. s[1] = m /\ s[2] = k /\ s[3] = h /\ s[4] = a
    BY <1>2, <1>3, <2>1 DEF Is
  <2>4. \A i \in 1 .. 4 : s[i].op \in {"move", "seek", "halt", "check"} /\ s[i].joint = j0
    BY <1>2, <1>3, <2>2, <2>3 DEF Is
  <2>5. Plain(s)
    BY <2>2, <2>3, <2>4 DEF Plain
  <2>6. Linked(s)
    BY <1>2, <1>3, <2>2, <2>3
       DEF Linked, Is, Follows, Covers, Covered, Exempt, Starter, DirectedSeek, Active, Moving
  <2>7. Line(s)
    BY <2>2, <2>5, <2>6, LineFrom
  <2>8. Body(Now, s)
    <3>1. s[4].joint = j0 /\ ~Opens(s[4]) /\ s[4].op \notin Exempt
      BY <1>2, <1>3, <2>2, <2>3 DEF Is, Opens, Starter, DirectedSeek, Active, Exempt
    <3>2. \A i \in 1 .. Len(s) : s[i].op # "restore"
      BY <2>5 DEF Plain
    <3>3. QED BY <1>2, <1>3, <2>2, <2>3, <2>7, <3>1, <3>2, BodyFrom DEF j0, Is
  <2>9. QED BY <1>2, <1>3, <2>2, <2>3, <2>8 DEF s, Is
<1>7. QED BY <1>5, <1>6

LEMMA LeaveLimitBody ==
  ASSUME Now \in Operation, Now.op = "park_a"
  PROVE  LET s == MotionToEnd(j0, EscapeDistance)
                 \o <<Kind("check", j0, "free"), Op("search_a", j0)>>
         IN  Body(Now, s) /\ s[1].op = "move" /\ s[1].joint = j0
<1>. DEFINE s == MotionToEnd(j0, EscapeDistance)
                 \o <<Kind("check", j0, "free"), Op("search_a", j0)>>
            a == Kind("check", j0, "free")
            k == Op("search_a", j0)
<1>1. j0 \in Joint
  BY DEF Operation, j0
<1>2. PICK m : MotionToEnd(j0, EscapeDistance) = <<m>> /\ Is(m, "move", j0, "wait")
  BY <1>1, MotionIs, HomingAssumption DEF HomingConfigOK
<1>3. Is(a, "check", j0, "free") /\ Is(k, "search_a", j0, "-")
  BY <1>1, OpIs, KindIs DEF Names, Kinds
<1>4. s = <<m>> \o <<a, k>>
  BY <1>2
<1>. HIDE DEF s, k, a
<1>5. Body(Now, s) /\ s[1].op = "move" /\ s[1].joint = j0
  <2>1. s = <<m, a, k>>
    BY <1>4, Glue1and2
  <2>2. s \in Seq(Operation) /\ Len(s) = 3 /\ Len(s) >= 1
    BY <1>2, <1>3, <2>1 DEF Is
  <2>3. s[1] = m /\ s[2] = a /\ s[3] = k
    BY <1>2, <1>3, <2>1 DEF Is
  <2>4. \A i \in 1 .. 3 : s[i].op \in {"move", "check", "search_a"} /\ s[i].joint = j0
    BY <1>2, <1>3, <2>2, <2>3 DEF Is
  <2>5. Plain(s)
    BY <2>2, <2>3, <2>4 DEF Plain
  <2>6. Linked(s)
    BY <1>2, <1>3, <2>2, <2>3
       DEF Linked, Is, Follows, Covers, Covered, Exempt, Starter, DirectedSeek, Active, Moving
  <2>7. Line(s)
    BY <2>2, <2>5, <2>6, LineFrom
  <2>8. Body(Now, s)
    <3>1. s[3].joint = j0 /\ ~Opens(s[3]) /\ s[3].op \notin Exempt
      BY <1>2, <1>3, <2>2, <2>3 DEF Is, Opens, Starter, DirectedSeek, Active, Exempt
    <3>2. \A i \in 1 .. Len(s) : s[i].op # "restore"
      BY <2>5 DEF Plain
    <3>3. QED BY <1>2, <1>3, <2>2, <2>3, <2>7, <3>1, <3>2, BodyFrom DEF j0, Is
  <2>9. QED BY <1>2, <1>3, <2>2, <2>3, <2>8 DEF Is
<1>6. QED BY <1>5 DEF s

LEMMA FromABody ==
  ASSUME Now \in Operation, Now.op = "from_a"
  PROVE  LET s == MotionToEnd(j0, BackOff) \o <<Op("leave", j0), Op("search_b", j0)>>
         IN  Body(Now, s) /\ s[1].op = "move" /\ s[1].joint = j0
<1>. DEFINE s == MotionToEnd(j0, BackOff) \o <<Op("leave", j0), Op("search_b", j0)>>
            a == Op("leave", j0)
            k == Op("search_b", j0)
<1>1. j0 \in Joint
  BY DEF Operation, j0
<1>2. PICK m : MotionToEnd(j0, BackOff) = <<m>> /\ Is(m, "move", j0, "wait")
  BY <1>1, MotionIs, HomingAssumption DEF HomingConfigOK
<1>3. Is(a, "leave", j0, "-") /\ Is(k, "search_b", j0, "-")
  BY <1>1, OpIs DEF Names
<1>4. s = <<m>> \o <<a, k>>
  BY <1>2
<1>. HIDE DEF s, k, a
<1>5. Body(Now, s) /\ s[1].op = "move" /\ s[1].joint = j0
  <2>1. s = <<m, a, k>>
    BY <1>4, Glue1and2
  <2>2. s \in Seq(Operation) /\ Len(s) = 3 /\ Len(s) >= 1
    BY <1>2, <1>3, <2>1 DEF Is
  <2>3. s[1] = m /\ s[2] = a /\ s[3] = k
    BY <1>2, <1>3, <2>1 DEF Is
  <2>4. \A i \in 1 .. 3 : s[i].op \in {"move", "leave", "search_b"} /\ s[i].joint = j0
    BY <1>2, <1>3, <2>2, <2>3 DEF Is
  <2>5. Plain(s)
    BY <2>2, <2>3, <2>4 DEF Plain
  <2>6. Linked(s)
    BY <1>2, <1>3, <2>2, <2>3
       DEF Linked, Is, Follows, Covers, Covered, Exempt, Starter, DirectedSeek, Active, Moving
  <2>7. Line(s)
    BY <2>2, <2>5, <2>6, LineFrom
  <2>8. Body(Now, s)
    <3>1. s[3].joint = j0 /\ ~Opens(s[3]) /\ s[3].op \notin Exempt
      BY <1>2, <1>3, <2>2, <2>3 DEF Is, Opens, Starter, DirectedSeek, Active, Exempt
    <3>2. \A i \in 1 .. Len(s) : s[i].op # "restore"
      BY <2>5 DEF Plain
    <3>3. QED BY <1>2, <1>3, <2>2, <2>3, <2>7, <3>1, <3>2, BodyFrom DEF j0, Is
  <2>9. QED BY <1>2, <1>3, <2>2, <2>3, <2>8 DEF Is
<1>6. QED BY <1>5 DEF s

LEMMA SearchBBody ==
  ASSUME Now \in Operation, Now.op = "search_b"
  PROVE  LET s == (IF On(j0, "B", Here) THEN <<>>
                    ELSE Motion(j0, SearchDistance) \o <<Kind("seek", j0, "B")>>)
                   \o <<Op("halt", j0)>> \o SetHome(j0)
         IN  Body(Now, s) /\ s[1].op \in {"move", "halt"} /\ s[1].joint = j0
<1>. DEFINE s == (IF On(j0, "B", Here) THEN <<>>
                    ELSE Motion(j0, SearchDistance) \o <<Kind("seek", j0, "B")>>)
                   \o <<Op("halt", j0)>> \o SetHome(j0)
            k == Kind("seek", j0, "B")
            h == Op("halt", j0)
<1>1. j0 \in Joint
  BY DEF Operation, j0
<1>2. PICK m : Motion(j0, SearchDistance) = <<m>> /\ Is(m, "move", j0, "-")
  BY <1>1, MotionIs, HomingAssumption DEF HomingConfigOK
<1>3. Is(k, "seek", j0, "B") /\ Is(h, "halt", j0, "-")
  BY <1>1, OpIs, KindIs DEF Names, Kinds
<1>4. PICK n, e, r, q, b, c, f, v :
             /\ SetHome(j0) = <<n, e, r, q, b, c, f, v>>
             /\ Is(n, "neutral", j0, "-") /\ Is(e, "edge", j0, "-") /\ Is(r, "replaced", j0, "-")
             /\ Is(q, "request", j0, "-") /\ Is(b, "begin", j0, "-") /\ Is(c, "confirm", j0, "-")
             /\ Is(f, "finish", j0, "-") /\ Is(v, "verify", j0, "-")
  BY <1>1, SetHomeIs
<1>5. s = (IF On(j0, "B", Here) THEN <<>> ELSE <<m>> \o <<k>>) \o <<h>> \o <<n, e, r, q, b, c, f, v>>
  BY <1>2, <1>4
<1>. HIDE DEF s, k, h
<1>6. CASE On(j0, "B", Here)
  <2>1. s = <<h, n, e, r, q, b, c, f, v>>
    <3>1. s = <<>> \o <<h>> \o <<n, e, r, q, b, c, f, v>>
      BY <1>5, <1>6
    <3>2. <<>> \o <<h>> = <<h>>
      OBVIOUS
    <3>3. <<h>> \o <<n, e, r, q, b, c, f, v>> = <<h, n, e, r, q, b, c, f, v>>
      BY Glue1and8
    <3>4. QED BY <3>1, <3>2, <3>3
  <2>2. s \in Seq(Operation) /\ Len(s) = 9 /\ Len(s) >= 1
    BY <1>3, <1>4, <2>1 DEF Is
  <2>3. /\ s[1] = h /\ s[2] = n /\ s[3] = e /\ s[4] = r /\ s[5] = q
         /\ s[6] = b /\ s[7] = c /\ s[8] = f /\ s[9] = v
    BY <1>3, <1>4, <2>1 DEF Is
  <2>4. \A i \in 1 .. 9 : s[i].op \in
          {"halt", "neutral", "edge", "replaced", "request", "begin", "confirm", "finish",
           "verify"} /\ s[i].joint = j0
    BY <1>3, <1>4, <2>2, <2>3 DEF Is
  <2>5. Plain(s)
    BY <2>2, <2>3, <2>4 DEF Plain
  <2>6. Linked(s)
    BY <1>3, <1>4, <2>2, <2>3
       DEF Linked, Is, Follows, Covers, Covered, Exempt, Starter, DirectedSeek, Active, Moving
  <2>7. Line(s)
    BY <2>2, <2>5, <2>6, LineFrom
  <2>8. Body(Now, s)
    <3>1. s[9].joint = j0 /\ ~Opens(s[9]) /\ s[9].op \notin Exempt
      BY <1>3, <1>4, <2>2, <2>3 DEF Is, Opens, Starter, DirectedSeek, Active, Exempt
    <3>2. \A i \in 1 .. Len(s) : s[i].op # "restore"
      BY <2>5 DEF Plain
    <3>3. QED BY <1>3, <1>4, <2>2, <2>3, <2>7, <3>1, <3>2, BodyFrom DEF j0, Is
  <2>9. QED BY <1>3, <1>4, <2>2, <2>3, <2>8 DEF s, Is
<1>7. CASE ~On(j0, "B", Here)
  <2>1. s = <<m, k, h, n, e, r, q, b, c, f, v>>
    <3>1. s = <<m>> \o <<k>> \o <<h>> \o <<n, e, r, q, b, c, f, v>>
      BY <1>5, <1>7
    <3>2. <<m>> \o <<k>> = <<m, k>>
      BY Glue1and1
    <3>3. <<m, k>> \o <<h>> = <<m, k, h>>
      BY Glue2and1
    <3>4. <<m, k, h>> \o <<n, e, r, q, b, c, f, v>> = <<m, k, h, n, e, r, q, b, c, f, v>>
      BY Glue3and8
    <3>5. QED BY <3>1, <3>2, <3>3, <3>4
  <2>2. s \in Seq(Operation) /\ Len(s) = 11 /\ Len(s) >= 1
    BY <1>2, <1>3, <1>4, <2>1 DEF Is
  <2>3. /\ s[1] = m /\ s[2] = k /\ s[3] = h /\ s[4] = n /\ s[5] = e /\ s[6] = r
         /\ s[7] = q /\ s[8] = b /\ s[9] = c /\ s[10] = f /\ s[11] = v
    BY <1>2, <1>3, <1>4, <2>1 DEF Is
  <2>4. \A i \in 1 .. 11 : s[i].op \in
          {"move", "seek", "halt", "neutral", "edge", "replaced", "request", "begin", "confirm",
           "finish", "verify"} /\ s[i].joint = j0
    BY <1>2, <1>3, <1>4, <2>2, <2>3 DEF Is
  <2>5. Plain(s)
    BY <2>2, <2>3, <2>4 DEF Plain
  <2>6. Linked(s)
    BY <1>2, <1>3, <1>4, <2>2, <2>3
       DEF Linked, Is, Follows, Covers, Covered, Exempt, Starter, DirectedSeek, Active, Moving
  <2>7. Line(s)
    BY <2>2, <2>5, <2>6, LineFrom
  <2>8. Body(Now, s)
    <3>1. s[11].joint = j0 /\ ~Opens(s[11]) /\ s[11].op \notin Exempt
      BY <1>2, <1>3, <1>4, <2>2, <2>3 DEF Is, Opens, Starter, DirectedSeek, Active, Exempt
    <3>2. \A i \in 1 .. Len(s) : s[i].op # "restore"
      BY <2>5 DEF Plain
    <3>3. QED BY <1>2, <1>3, <1>4, <2>2, <2>3, <2>7, <3>1, <3>2, BodyFrom DEF j0, Is
  <2>9. QED BY <1>2, <1>3, <1>4, <2>2, <2>3, <2>8 DEF s, Is
<1>8. QED BY <1>6, <1>7

LEMMA ParkAtCBody ==
  ASSUME Now \in Operation, Now.op = "park_c"
  PROVE  LET s == (IF On(j0, "C", Here) THEN <<Op("halt", j0)>>
                    ELSE Motion(j0, ParkDistance) \o <<Kind("seek", j0, "C")>>)
                   \o <<Kind("check", j0, "C")>>
         IN  Body(Now, s) /\ s[1].op \in {"move", "halt"} /\ s[1].joint = j0
<1>. DEFINE s == (IF On(j0, "C", Here) THEN <<Op("halt", j0)>>
                    ELSE Motion(j0, ParkDistance) \o <<Kind("seek", j0, "C")>>)
                   \o <<Kind("check", j0, "C")>>
            k == Kind("seek", j0, "C")
            h == Op("halt", j0)
            a == Kind("check", j0, "C")
<1>1. j0 \in Joint
  BY DEF Operation, j0
<1>2. PICK m : Motion(j0, ParkDistance) = <<m>> /\ Is(m, "move", j0, "-")
  BY <1>1, MotionIs, HomingAssumption DEF HomingConfigOK
<1>3. Is(k, "seek", j0, "C") /\ Is(h, "halt", j0, "-") /\ Is(a, "check", j0, "C")
  BY <1>1, OpIs, KindIs DEF Names, Kinds
<1>4. s = (IF On(j0, "C", Here) THEN <<h>> ELSE <<m>> \o <<k>>) \o <<a>>
  BY <1>2
<1>. HIDE DEF s, k, h, a
<1>5. CASE On(j0, "C", Here)
  <2>1. s = <<h, a>>
    <3>1. s = <<h>> \o <<a>>
      BY <1>4, <1>5
    <3>2. <<h>> \o <<a>> = <<h, a>>
      BY Glue1and1
    <3>3. QED BY <3>1, <3>2
  <2>2. s \in Seq(Operation) /\ Len(s) = 2 /\ Len(s) >= 1
    BY <1>3, <2>1 DEF Is
  <2>3. s[1] = h /\ s[2] = a
    BY <1>3, <2>1 DEF Is
  <2>4. \A i \in 1 .. 2 : s[i].op \in {"halt", "check"} /\ s[i].joint = j0
    BY <1>3, <2>2, <2>3 DEF Is
  <2>5. Plain(s)
    BY <2>2, <2>3, <2>4 DEF Plain
  <2>6. Linked(s)
    BY <1>3, <2>2, <2>3
       DEF Linked, Is, Follows, Covers, Covered, Exempt, Starter, DirectedSeek, Active, Moving
  <2>7. Line(s)
    BY <2>2, <2>5, <2>6, LineFrom
  <2>8. Body(Now, s)
    <3>1. s[2].joint = j0 /\ ~Opens(s[2]) /\ s[2].op \notin Exempt
      BY <1>3, <2>2, <2>3 DEF Is, Opens, Starter, DirectedSeek, Active, Exempt
    <3>2. \A i \in 1 .. Len(s) : s[i].op # "restore"
      BY <2>5 DEF Plain
    <3>3. QED BY <1>3, <2>2, <2>3, <2>7, <3>1, <3>2, BodyFrom DEF j0, Is
  <2>9. QED BY <1>3, <2>2, <2>3, <2>8 DEF s, Is
<1>6. CASE ~On(j0, "C", Here)
  <2>1. s = <<m, k, a>>
    <3>1. s = <<m>> \o <<k>> \o <<a>>
      BY <1>4, <1>6
    <3>2. <<m>> \o <<k>> = <<m, k>>
      BY Glue1and1
    <3>3. <<m, k>> \o <<a>> = <<m, k, a>>
      BY Glue2and1
    <3>4. QED BY <3>1, <3>2, <3>3
  <2>2. s \in Seq(Operation) /\ Len(s) = 3 /\ Len(s) >= 1
    BY <1>2, <1>3, <2>1 DEF Is
  <2>3. s[1] = m /\ s[2] = k /\ s[3] = a
    BY <1>2, <1>3, <2>1 DEF Is
  <2>4. \A i \in 1 .. 3 : s[i].op \in {"move", "seek", "check"} /\ s[i].joint = j0
    BY <1>2, <1>3, <2>2, <2>3 DEF Is
  <2>5. Plain(s)
    BY <2>2, <2>3, <2>4 DEF Plain
  <2>6. Linked(s)
    BY <1>2, <1>3, <2>2, <2>3
       DEF Linked, Is, Follows, Covers, Covered, Exempt, Starter, DirectedSeek, Active, Moving
  <2>7. Line(s)
    BY <2>2, <2>5, <2>6, LineFrom
  <2>8. Body(Now, s)
    <3>1. s[3].joint = j0 /\ ~Opens(s[3]) /\ s[3].op \notin Exempt
      BY <1>2, <1>3, <2>2, <2>3 DEF Is, Opens, Starter, DirectedSeek, Active, Exempt
    <3>2. \A i \in 1 .. Len(s) : s[i].op # "restore"
      BY <2>5 DEF Plain
    <3>3. QED BY <1>2, <1>3, <2>2, <2>3, <2>7, <3>1, <3>2, BodyFrom DEF j0, Is
  <2>9. QED BY <1>2, <1>3, <2>2, <2>3, <2>8 DEF s, Is
<1>7. QED BY <1>5, <1>6

LEMMA HoldBody ==
  ASSUME Now \in Operation, Now.op = "hold"
  PROVE  LET s == <<Op("halt", j0)>> \o <<Kind("check", j0, "boundary")>>
         IN  Body(Now, s) /\ s[1].op = "halt" /\ s[1].joint = j0
<1>. DEFINE s == <<Op("halt", j0)>> \o <<Kind("check", j0, "boundary")>>
            h == Op("halt", j0)
            a == Kind("check", j0, "boundary")
<1>1. j0 \in Joint
  BY DEF Operation, j0
<1>2. Is(h, "halt", j0, "-") /\ Is(a, "check", j0, "boundary")
  BY <1>1, OpIs, KindIs DEF Names, Kinds
<1>3. s = <<h>> \o <<a>>
  OBVIOUS
<1>. HIDE DEF s, h, a
<1>4. Body(Now, s) /\ s[1].op = "halt" /\ s[1].joint = j0
  <2>1. s = <<h, a>>
    BY <1>3, Glue1and1
  <2>2. s \in Seq(Operation) /\ Len(s) = 2 /\ Len(s) >= 1
    BY <1>2, <2>1 DEF Is
  <2>3. s[1] = h /\ s[2] = a
    BY <1>2, <2>1 DEF Is
  <2>4. \A i \in 1 .. 2 : s[i].op \in {"halt", "check"} /\ s[i].joint = j0
    BY <1>2, <2>2, <2>3 DEF Is
  <2>5. Plain(s)
    BY <2>2, <2>3, <2>4 DEF Plain
  <2>6. Linked(s)
    BY <1>2, <2>2, <2>3
       DEF Linked, Is, Follows, Covers, Covered, Exempt, Starter, DirectedSeek, Active, Moving
  <2>7. Line(s)
    BY <2>2, <2>5, <2>6, LineFrom
  <2>8. Body(Now, s)
    <3>1. s[2].joint = j0 /\ ~Opens(s[2]) /\ s[2].op \notin Exempt
      BY <1>2, <2>2, <2>3 DEF Is, Opens, Starter, DirectedSeek, Active, Exempt
    <3>2. \A i \in 1 .. Len(s) : s[i].op # "restore"
      BY <2>5 DEF Plain
    <3>3. QED BY <1>2, <2>2, <2>3, <2>7, <3>1, <3>2, BodyFrom DEF j0, Is
  <2>9. QED BY <1>2, <2>2, <2>3, <2>8 DEF Is
<1>5. QED BY <1>4 DEF s

LEMMA ParkAtBoundaryBody ==
  ASSUME Now \in Operation, Now.op = "park_boundary"
  PROVE  LET s == (IF AtBoundary(j0, Here) THEN <<>>
                    ELSE Motion(j0, -ParkDistance) \o <<Kind("seek", j0, "boundary")>>)
                   \o <<Op("hold", j0)>>
         IN  Body(Now, s) /\ s[1].op \in {"move", "hold"} /\ s[1].joint = j0
<1>. DEFINE s == (IF AtBoundary(j0, Here) THEN <<>>
                    ELSE Motion(j0, -ParkDistance) \o <<Kind("seek", j0, "boundary")>>)
                   \o <<Op("hold", j0)>>
            k == Kind("seek", j0, "boundary")
            h == Op("hold", j0)
<1>1. j0 \in Joint
  BY DEF Operation, j0
<1>2. PICK m : Motion(j0, -ParkDistance) = <<m>> /\ Is(m, "move", j0, "-")
  BY <1>1, MotionIs, HomingAssumption DEF HomingConfigOK
<1>3. Is(k, "seek", j0, "boundary") /\ Is(h, "hold", j0, "-")
  BY <1>1, OpIs, KindIs DEF Names, Kinds
<1>4. s = (IF AtBoundary(j0, Here) THEN <<>> ELSE <<m>> \o <<k>>) \o <<h>>
  BY <1>2
<1>. HIDE DEF s, k, h
<1>5. CASE AtBoundary(j0, Here)
  <2>1. s = <<h>>
    <3>1. s = <<>> \o <<h>>
      BY <1>4, <1>5
    <3>2. <<>> \o <<h>> = <<h>>
      OBVIOUS
    <3>3. QED BY <3>1, <3>2
  <2>2. s \in Seq(Operation) /\ Len(s) = 1 /\ Len(s) >= 1
    BY <1>3, <2>1 DEF Is
  <2>3. s[1] = h
    BY <1>3, <2>1 DEF Is
  <2>4. \A i \in 1 .. 1 : s[i].op \in {"hold"} /\ s[i].joint = j0
    BY <1>3, <2>2, <2>3 DEF Is
  <2>5. Plain(s)
    BY <2>2, <2>3, <2>4 DEF Plain
  <2>6. Linked(s)
    BY <1>3, <2>2, <2>3
       DEF Linked, Is, Follows, Covers, Covered, Exempt, Starter, DirectedSeek, Active, Moving
  <2>7. Line(s)
    BY <2>2, <2>5, <2>6, LineFrom
  <2>8. Body(Now, s)
    <3>1. s[1].joint = j0 /\ ~Opens(s[1]) /\ s[1].op \notin Exempt
      BY <1>3, <2>2, <2>3 DEF Is, Opens, Starter, DirectedSeek, Active, Exempt
    <3>2. \A i \in 1 .. Len(s) : s[i].op # "restore"
      BY <2>5 DEF Plain
    <3>3. QED BY <1>3, <2>2, <2>3, <2>7, <3>1, <3>2, BodyFrom DEF j0, Is
  <2>9. QED BY <1>3, <2>2, <2>3, <2>8 DEF s, Is
<1>6. CASE ~AtBoundary(j0, Here)
  <2>1. s = <<m, k, h>>
    <3>1. s = <<m>> \o <<k>> \o <<h>>
      BY <1>4, <1>6
    <3>2. <<m>> \o <<k>> = <<m, k>>
      BY Glue1and1
    <3>3. <<m, k>> \o <<h>> = <<m, k, h>>
      BY Glue2and1
    <3>4. QED BY <3>1, <3>2, <3>3
  <2>2. s \in Seq(Operation) /\ Len(s) = 3 /\ Len(s) >= 1
    BY <1>2, <1>3, <2>1 DEF Is
  <2>3. s[1] = m /\ s[2] = k /\ s[3] = h
    BY <1>2, <1>3, <2>1 DEF Is
  <2>4. \A i \in 1 .. 3 : s[i].op \in {"move", "seek", "hold"} /\ s[i].joint = j0
    BY <1>2, <1>3, <2>2, <2>3 DEF Is
  <2>5. Plain(s)
    BY <2>2, <2>3, <2>4 DEF Plain
  <2>6. Linked(s)
    BY <1>2, <1>3, <2>2, <2>3
       DEF Linked, Is, Follows, Covers, Covered, Exempt, Starter, DirectedSeek, Active, Moving
  <2>7. Line(s)
    BY <2>2, <2>5, <2>6, LineFrom
  <2>8. Body(Now, s)
    <3>1. s[3].joint = j0 /\ ~Opens(s[3]) /\ s[3].op \notin Exempt
      BY <1>2, <1>3, <2>2, <2>3 DEF Is, Opens, Starter, DirectedSeek, Active, Exempt
    <3>2. \A i \in 1 .. Len(s) : s[i].op # "restore"
      BY <2>5 DEF Plain
    <3>3. QED BY <1>2, <1>3, <2>2, <2>3, <2>7, <3>1, <3>2, BodyFrom DEF j0, Is
  <2>9. QED BY <1>2, <1>3, <2>2, <2>3, <2>8 DEF s, Is
<1>7. QED BY <1>5, <1>6

LEMMA OnBBody ==
  ASSUME Now \in Operation, Now.op = "direct_b"
  PROVE  LET s == <<Op("halt", j0)>> \o SetHome(j0)
         IN  Body(Now, s) /\ s[1].op = "halt" /\ s[1].joint = j0
<1>. DEFINE s == <<Op("halt", j0)>> \o SetHome(j0)
            h == Op("halt", j0)
<1>1. j0 \in Joint
  BY DEF Operation, j0
<1>2. Is(h, "halt", j0, "-")
  BY <1>1, OpIs DEF Names
<1>3. PICK n, e, r, q, b, c, f, v :
             /\ SetHome(j0) = <<n, e, r, q, b, c, f, v>>
             /\ Is(n, "neutral", j0, "-") /\ Is(e, "edge", j0, "-") /\ Is(r, "replaced", j0, "-")
             /\ Is(q, "request", j0, "-") /\ Is(b, "begin", j0, "-") /\ Is(c, "confirm", j0, "-")
             /\ Is(f, "finish", j0, "-") /\ Is(v, "verify", j0, "-")
  BY <1>1, SetHomeIs
<1>4. s = <<h>> \o <<n, e, r, q, b, c, f, v>>
  BY <1>3
<1>. HIDE DEF s, h
<1>5. Body(Now, s) /\ s[1].op = "halt" /\ s[1].joint = j0
  <2>1. s = <<h, n, e, r, q, b, c, f, v>>
    BY <1>4, Glue1and8
  <2>2. s \in Seq(Operation) /\ Len(s) = 9 /\ Len(s) >= 1
    BY <1>2, <1>3, <2>1 DEF Is
  <2>3. /\ s[1] = h /\ s[2] = n /\ s[3] = e /\ s[4] = r /\ s[5] = q
         /\ s[6] = b /\ s[7] = c /\ s[8] = f /\ s[9] = v
    BY <1>2, <1>3, <2>1 DEF Is
  <2>4. \A i \in 1 .. 9 : s[i].op \in
          {"halt", "neutral", "edge", "replaced", "request", "begin", "confirm", "finish",
           "verify"} /\ s[i].joint = j0
    BY <1>2, <1>3, <2>2, <2>3 DEF Is
  <2>5. Plain(s)
    BY <2>2, <2>3, <2>4 DEF Plain
  <2>6. Linked(s)
    BY <1>2, <1>3, <2>2, <2>3
       DEF Linked, Is, Follows, Covers, Covered, Exempt, Starter, DirectedSeek, Active, Moving
  <2>7. Line(s)
    BY <2>2, <2>5, <2>6, LineFrom
  <2>8. Body(Now, s)
    <3>1. s[9].joint = j0 /\ ~Opens(s[9]) /\ s[9].op \notin Exempt
      BY <1>2, <1>3, <2>2, <2>3 DEF Is, Opens, Starter, DirectedSeek, Active, Exempt
    <3>2. \A i \in 1 .. Len(s) : s[i].op # "restore"
      BY <2>5 DEF Plain
    <3>3. QED BY <1>2, <1>3, <2>2, <2>3, <2>7, <3>1, <3>2, BodyFrom DEF j0, Is
  <2>9. QED BY <1>2, <1>3, <2>2, <2>3, <2>8 DEF Is
<1>6. QED BY <1>5 DEF s

\* A directed search: a move, a search and what to do otherwise.
LEMMA DirectlyIs ==
  ASSUME j0 \in Joint, NEW d \in Int, NEW x
  PROVE  \E m, k : /\ Directly(d, <<x>>) = <<m, k, x>> /\ Is(m, "move", j0, "-")
                   /\ \/ Is(k, "seek", j0, "plus")
                      \/ Is(k, "seek", j0, "minus")
<1>1. PICK m : Motion(j0, d * SearchDistance) = <<m>> /\ Is(m, "move", j0, "-")
  <2>1. SearchDistance \in Nat
    BY HomingAssumption DEF HomingConfigOK
  <2>2. d * SearchDistance \in Int
    BY <2>1
  <2>3. QED BY <2>2, MotionIs
<1>. DEFINE k == Kind("seek", j0, Side(d))
<1>2. Is(k, "seek", j0, "plus") \/ Is(k, "seek", j0, "minus")
  BY KindIs DEF Side, Names, Kinds
<1>3. Directly(d, <<x>>) = <<m>> \o <<k>> \o <<x>>
  BY <1>1 DEF Directly
<1>. HIDE DEF k
<1>4. <<m>> \o <<k>> = <<m, k>> /\ <<m, k>> \o <<x>> = <<m, k, x>>
  BY Glue1and1, Glue2and1
<1>5. QED BY <1>1, <1>2, <1>3, <1>4

LEMMA DirectBBody ==
  ASSUME Now \in Operation, Now.op = "direct_b", NEW d \in Int, NEW x, Is(x, "reverse", j0, "-")
  PROVE  LET s == Directly(d, <<x>>) \o SetHome(j0)
         IN  Body(Now, s) /\ s[1].op = "move" /\ s[1].joint = j0
<1>. DEFINE s == Directly(d, <<x>>) \o SetHome(j0)
<1>1. j0 \in Joint
  BY DEF Operation, j0
<1>2. PICK m, k : /\ Directly(d, <<x>>) = <<m, k, x>> /\ Is(m, "move", j0, "-")
                 /\ \/ Is(k, "seek", j0, "plus")
                    \/ Is(k, "seek", j0, "minus")
  BY <1>1, DirectlyIs
<1>3. PICK n, e, r, q, b, c, f, v :
             /\ SetHome(j0) = <<n, e, r, q, b, c, f, v>>
             /\ Is(n, "neutral", j0, "-") /\ Is(e, "edge", j0, "-") /\ Is(r, "replaced", j0, "-")
             /\ Is(q, "request", j0, "-") /\ Is(b, "begin", j0, "-") /\ Is(c, "confirm", j0, "-")
             /\ Is(f, "finish", j0, "-") /\ Is(v, "verify", j0, "-")
  BY <1>1, SetHomeIs
<1>4. s = <<m, k, x>> \o <<n, e, r, q, b, c, f, v>>
  BY <1>2, <1>3
<1>. HIDE DEF s
<1>5. Body(Now, s) /\ s[1].op = "move" /\ s[1].joint = j0
  <2>1. s = <<m, k, x, n, e, r, q, b, c, f, v>>
    BY <1>4, Glue3and8
  <2>2. s \in Seq(Operation) /\ Len(s) = 11 /\ Len(s) >= 1
    BY <1>2, <1>3, <2>1 DEF Is
  <2>3. /\ s[1] = m /\ s[2] = k /\ s[3] = x /\ s[4] = n /\ s[5] = e /\ s[6] = r
         /\ s[7] = q /\ s[8] = b /\ s[9] = c /\ s[10] = f /\ s[11] = v
    BY <1>2, <1>3, <2>1 DEF Is
  <2>4. \A i \in 1 .. 11 : s[i].op \in
          {"move", "seek", "reverse", "neutral", "edge", "replaced", "request", "begin",
           "confirm", "finish", "verify"} /\ s[i].joint = j0
    BY <1>2, <1>3, <2>2, <2>3 DEF Is
  <2>5. Plain(s)
    BY <2>2, <2>3, <2>4 DEF Plain
  <2>6. Linked(s)
    BY <1>2, <1>3, <2>2, <2>3
       DEF Linked, Is, Follows, Covers, Covered, Exempt, Starter, DirectedSeek, Active, Moving
  <2>7. Line(s)
    BY <2>2, <2>5, <2>6, LineFrom
  <2>8. Body(Now, s)
    <3>1. s[11].joint = j0 /\ ~Opens(s[11]) /\ s[11].op \notin Exempt
      BY <1>2, <1>3, <2>2, <2>3 DEF Is, Opens, Starter, DirectedSeek, Active, Exempt
    <3>2. \A i \in 1 .. Len(s) : s[i].op # "restore"
      BY <2>5 DEF Plain
    <3>3. QED BY <1>2, <1>3, <2>2, <2>3, <2>7, <3>1, <3>2, BodyFrom DEF j0, Is
  <2>9. QED BY <1>2, <1>3, <2>2, <2>3, <2>8 DEF Is
<1>6. QED BY <1>5 DEF s

LEMMA ReverseBody ==
  ASSUME Now \in Operation, Now.op = "reverse", NEW d \in Int
  PROVE  LET s == Directly(d, GiveUp)
         IN  Body(Now, s) /\ s[1].op = "move" /\ s[1].joint = j0
<1>. DEFINE s == Directly(d, GiveUp)
            x == Op("give_up", j0)
<1>1. j0 \in Joint
  BY DEF Operation, j0
<1>2. Is(x, "give_up", j0, "-")
  BY <1>1, OpIs DEF Names
<1>. HIDE DEF x
<1>3. PICK m, k : /\ Directly(d, <<x>>) = <<m, k, x>> /\ Is(m, "move", j0, "-")
                 /\ \/ Is(k, "seek", j0, "plus")
                    \/ Is(k, "seek", j0, "minus")
  BY <1>1, DirectlyIs
<1>4. s = <<m, k, x>>
  BY <1>3 DEF GiveUp, x
<1>. HIDE DEF s
<1>5. Body(Now, s) /\ s[1].op = "move" /\ s[1].joint = j0
  <2>1. s = <<m, k, x>>
    BY <1>4
  <2>2. s \in Seq(Operation) /\ Len(s) = 3 /\ Len(s) >= 1
    BY <1>2, <1>3, <2>1 DEF Is
  <2>3. s[1] = m /\ s[2] = k /\ s[3] = x
    BY <1>2, <1>3, <2>1 DEF Is
  <2>4. \A i \in 1 .. 3 : s[i].op \in {"move", "seek", "give_up"} /\ s[i].joint = j0
    BY <1>2, <1>3, <2>2, <2>3 DEF Is
  <2>5. Plain(s)
    BY <2>2, <2>3, <2>4 DEF Plain
  <2>6. Linked(s)
    BY <1>2, <1>3, <2>2, <2>3
       DEF Linked, Is, Follows, Covers, Covered, Exempt, Starter, DirectedSeek, Active, Moving
  <2>7. Line(s)
    BY <2>2, <2>5, <2>6, LineFrom
  <2>8. Body(Now, s)
    <3>1. s[3].joint = j0 /\ ~Opens(s[3]) /\ s[3].op \notin Exempt
      BY <1>2, <1>3, <2>2, <2>3 DEF Is, Opens, Starter, DirectedSeek, Active, Exempt
    <3>2. \A i \in 1 .. Len(s) : s[i].op # "restore"
      BY <2>5 DEF Plain
    <3>3. QED BY <1>2, <1>3, <2>2, <2>3, <2>7, <3>1, <3>2, BodyFrom DEF j0, Is
  <2>9. QED BY <1>2, <1>3, <2>2, <2>3, <2>8 DEF Is
<1>6. QED BY <1>5 DEF s

LEMMA SingleBody ==
  ASSUME Now \in Operation, Now.op = "single"
  PROVE  LET s == (IF On(j0, "B", Here) THEN <<Op("halt", j0)>>
                    ELSE Motion(j0, SingleSide * SearchDistance) \o <<Kind("seek", j0, "single")>>)
                   \o SetSingleZero(j0)
         IN  Body(Now, s) /\ s[1].op \in {"move", "halt"} /\ s[1].joint = j0
<1>. DEFINE s == (IF On(j0, "B", Here) THEN <<Op("halt", j0)>>
                    ELSE Motion(j0, SingleSide * SearchDistance) \o <<Kind("seek", j0, "single")>>)
                   \o SetSingleZero(j0)
            k == Kind("seek", j0, "single")
            h == Op("halt", j0)
<1>1. j0 \in Joint
  BY DEF Operation, j0
<1>2. SingleSide * SearchDistance \in Int
  <2>1. SingleSide \in {-1, 1} /\ SearchDistance \in Nat
    BY HomingAssumption DEF HomingConfigOK
  <2>2. QED BY <2>1
<1>3. PICK m : Motion(j0, SingleSide * SearchDistance) = <<m>> /\ Is(m, "move", j0, "-")
  BY <1>1, <1>2, MotionIs
<1>4. Is(k, "seek", j0, "single") /\ Is(h, "halt", j0, "-")
  BY <1>1, OpIs, KindIs DEF Names, Kinds
<1>5. PICK n, q, b, f, v :
             /\ SetSingleZero(j0) = <<n, q, b, f, v>>
             /\ Is(n, "neutral", j0, "-") /\ Is(q, "request", j0, "-") /\ Is(b, "begin", j0, "-")
             /\ Is(f, "finish", j0, "-") /\ Is(v, "verify", j0, "-")
  BY <1>1, SetSingleZeroIs
<1>6. s = (IF On(j0, "B", Here) THEN <<h>> ELSE <<m>> \o <<k>>) \o <<n, q, b, f, v>>
  BY <1>3, <1>5
<1>. HIDE DEF s, k, h
<1>7. CASE On(j0, "B", Here)
  <2>1. s = <<h, n, q, b, f, v>>
    <3>1. s = <<h>> \o <<n, q, b, f, v>>
      BY <1>6, <1>7
    <3>2. <<h>> \o <<n, q, b, f, v>> = <<h, n, q, b, f, v>>
      BY Glue1and5
    <3>3. QED BY <3>1, <3>2
  <2>2. s \in Seq(Operation) /\ Len(s) = 6 /\ Len(s) >= 1
    BY <1>4, <1>5, <2>1 DEF Is
  <2>3. s[1] = h /\ s[2] = n /\ s[3] = q /\ s[4] = b /\ s[5] = f /\ s[6] = v
    BY <1>4, <1>5, <2>1 DEF Is
  <2>4. \A i \in 1 .. 6 : s[i].op \in
          {"halt", "neutral", "request", "begin", "finish", "verify"} /\ s[i].joint = j0
    BY <1>4, <1>5, <2>2, <2>3 DEF Is
  <2>5. Plain(s)
    BY <2>2, <2>3, <2>4 DEF Plain
  <2>6. Linked(s)
    BY <1>4, <1>5, <2>2, <2>3
       DEF Linked, Is, Follows, Covers, Covered, Exempt, Starter, DirectedSeek, Active, Moving
  <2>7. Line(s)
    BY <2>2, <2>5, <2>6, LineFrom
  <2>8. Body(Now, s)
    <3>1. s[6].joint = j0 /\ ~Opens(s[6]) /\ s[6].op \notin Exempt
      BY <1>4, <1>5, <2>2, <2>3 DEF Is, Opens, Starter, DirectedSeek, Active, Exempt
    <3>2. \A i \in 1 .. Len(s) : s[i].op # "restore"
      BY <2>5 DEF Plain
    <3>3. QED BY <1>4, <1>5, <2>2, <2>3, <2>7, <3>1, <3>2, BodyFrom DEF j0, Is
  <2>9. QED BY <1>4, <1>5, <2>2, <2>3, <2>8 DEF s, Is
<1>8. CASE ~On(j0, "B", Here)
  <2>1. s = <<m, k, n, q, b, f, v>>
    <3>1. s = <<m>> \o <<k>> \o <<n, q, b, f, v>>
      BY <1>6, <1>8
    <3>2. <<m>> \o <<k>> = <<m, k>>
      BY Glue1and1
    <3>3. <<m, k>> \o <<n, q, b, f, v>> = <<m, k, n, q, b, f, v>>
      BY Glue2and5
    <3>4. QED BY <3>1, <3>2, <3>3
  <2>2. s \in Seq(Operation) /\ Len(s) = 7 /\ Len(s) >= 1
    BY <1>3, <1>4, <1>5, <2>1 DEF Is
  <2>3. /\ s[1] = m /\ s[2] = k /\ s[3] = n /\ s[4] = q
         /\ s[5] = b /\ s[6] = f /\ s[7] = v
    BY <1>3, <1>4, <1>5, <2>1 DEF Is
  <2>4. \A i \in 1 .. 7 : s[i].op \in
          {"move", "seek", "neutral", "request", "begin", "finish", "verify"} /\ s[i].joint = j0
    BY <1>3, <1>4, <1>5, <2>2, <2>3 DEF Is
  <2>5. Plain(s)
    BY <2>2, <2>3, <2>4 DEF Plain
  <2>6. Linked(s)
    BY <1>3, <1>4, <1>5, <2>2, <2>3
       DEF Linked, Is, Follows, Covers, Covered, Exempt, Starter, DirectedSeek, Active, Moving
  <2>7. Line(s)
    BY <2>2, <2>5, <2>6, LineFrom
  <2>8. Body(Now, s)
    <3>1. s[7].joint = j0 /\ ~Opens(s[7]) /\ s[7].op \notin Exempt
      BY <1>3, <1>4, <1>5, <2>2, <2>3 DEF Is, Opens, Starter, DirectedSeek, Active, Exempt
    <3>2. \A i \in 1 .. Len(s) : s[i].op # "restore"
      BY <2>5 DEF Plain
    <3>3. QED BY <1>3, <1>4, <1>5, <2>2, <2>3, <2>7, <3>1, <3>2, BodyFrom DEF j0, Is
  <2>9. QED BY <1>3, <1>4, <1>5, <2>2, <2>3, <2>8 DEF s, Is
<1>9. QED BY <1>7, <1>8

\* The extension is at the top of its body and the restore at its end.
LEMMA CToBBody ==
  ASSUME Now \in Operation, Now.op = "c_to_b", axis[j0].lo \in Int
  PROVE  LET s == IF Extension = 0 THEN Directly(-1, GiveUp) \o SetHome(j0)
                   ELSE LimitOp("extend", axis[j0].lo - Extension)
                          \o (Directly(-1, GiveUp) \o SetHome(j0)) \o Restore
         IN  /\ Body(Now, s)
             /\ s[1].joint = j0
             /\ s[1].op = "move" \/ (s[1].op = "extend" /\ \E i \in 1 .. Len(s) : s[i].op = "restore")
             /\ \A i \in 1 .. Len(s) : s[i].op = "restore" => s[i].arg = axis[j0].lo /\ s[i].joint = j0
<1>. DEFINE s == IF Extension = 0 THEN Directly(-1, GiveUp) \o SetHome(j0)
                   ELSE LimitOp("extend", axis[j0].lo - Extension)
                          \o (Directly(-1, GiveUp) \o SetHome(j0)) \o Restore
            w == [Op("extend", j0) EXCEPT !.arg = axis[j0].lo - Extension]
            z == [Op("restore", j0) EXCEPT !.arg = axis[j0].lo]
            g == Op("give_up", j0)
            u == Directly(-1, GiveUp) \o SetHome(j0)
<1>1. j0 \in Joint
  BY DEF Operation, j0
<1>2. Is(w, "extend", j0, "-") /\ Is(z, "restore", j0, "-") /\ Is(g, "give_up", j0, "-") /\ z.arg = axis[j0].lo
  <2>1. Is(Op("extend", j0), "extend", j0, "-") /\ Is(Op("restore", j0), "restore", j0, "-") /\ Is(g, "give_up", j0, "-")
    BY <1>1, OpIs DEF Names
  <2>2. axis[j0].lo - Extension \in Int
    BY HomingAssumption DEF HomingConfigOK
  <2>3. z.arg = axis[j0].lo
    BY <2>1 DEF Is, Operation
  <2>4. QED BY <2>1, <2>2, <2>3, Updated
<1>3. PICK m, k : /\ Directly(-1, <<g>>) = <<m, k, g>> /\ Is(m, "move", j0, "-")
                  /\ (Is(k, "seek", j0, "plus") \/ Is(k, "seek", j0, "minus"))
  BY <1>1, DirectlyIs
<1>4. PICK n, e, r, q, b, c, f, v :
             /\ SetHome(j0) = <<n, e, r, q, b, c, f, v>>
             /\ Is(n, "neutral", j0, "-") /\ Is(e, "edge", j0, "-") /\ Is(r, "replaced", j0, "-")
             /\ Is(q, "request", j0, "-") /\ Is(b, "begin", j0, "-") /\ Is(c, "confirm", j0, "-")
             /\ Is(f, "finish", j0, "-") /\ Is(v, "verify", j0, "-")
  BY <1>1, SetHomeIs
<1>5. u = <<m, k, g>> \o <<n, e, r, q, b, c, f, v>>
  BY <1>3, <1>4 DEF GiveUp
<1>6. s = IF Extension = 0 THEN u ELSE <<w>> \o u \o <<z>>
  BY DEF LimitOp, Restore
<1>. HIDE DEF s, w, z, g, u
<1>7. u = <<m, k, g, n, e, r, q, b, c, f, v>>
  BY <1>5, Glue3and8
<1>8. CASE Extension = 0
  <2>1. s = <<m, k, g, n, e, r, q, b, c, f, v>>
    BY <1>6, <1>7, <1>8
  <2>2. s \in Seq(Operation) /\ Len(s) = 11 /\ Len(s) >= 1
    BY <1>2, <1>3, <1>4, <2>1 DEF Is
  <2>3. /\ s[1] = m /\ s[2] = k /\ s[3] = g /\ s[4] = n /\ s[5] = e /\ s[6] = r
         /\ s[7] = q /\ s[8] = b /\ s[9] = c /\ s[10] = f /\ s[11] = v
    BY <1>2, <1>3, <1>4, <2>1 DEF Is
  <2>4. \A i \in 1 .. 11 : s[i].op \in
          {"move", "seek", "give_up", "neutral", "edge", "replaced", "request", "begin",
           "confirm", "finish", "verify"} /\ s[i].joint = j0
    BY <1>2, <1>3, <1>4, <2>2, <2>3 DEF Is
  <2>5. Plain(s)
    BY <2>2, <2>3, <2>4 DEF Plain
  <2>6. Linked(s)
    BY <1>2, <1>3, <1>4, <2>2, <2>3
       DEF Linked, Is, Follows, Covers, Covered, Exempt, Starter, DirectedSeek, Active, Moving
  <2>7. Line(s)
    BY <2>2, <2>5, <2>6, LineFrom
  <2>8. Body(Now, s)
    <3>1. s[11].joint = j0 /\ ~Opens(s[11]) /\ s[11].op \notin Exempt
      BY <1>2, <1>3, <1>4, <2>2, <2>3 DEF Is, Opens, Starter, DirectedSeek, Active, Exempt
    <3>2. \A i \in 1 .. Len(s) : s[i].op # "restore"
      BY <2>5 DEF Plain
    <3>3. QED BY <1>2, <1>3, <1>4, <2>2, <2>3, <2>7, <3>1, <3>2, BodyFrom DEF j0, Is
  <2>9. \A i \in 1 .. Len(s) : s[i].op # "restore"
    BY <2>5 DEF Plain
  <2>10. s[1].op = "move" /\ s[1].joint = j0
    BY <1>3, <2>3 DEF Is
  <2>11. QED BY <2>8, <2>9, <2>10 DEF s
<1>9. CASE Extension # 0
  <2>1. s = <<w, m, k, g, n, e, r, q, b, c, f, v, z>>
    <3>1. s = <<w>> \o <<m, k, g, n, e, r, q, b, c, f, v>> \o <<z>>
      BY <1>6, <1>7, <1>9
    <3>2. <<w>> \o <<m, k, g, n, e, r, q, b, c, f, v>> = <<w, m, k, g, n, e, r, q, b, c, f, v>>
      BY Glue1and11
    <3>3. <<w, m, k, g, n, e, r, q, b, c, f, v>> \o <<z>> = <<w, m, k, g, n, e, r, q, b, c, f, v, z>>
      BY Glue12and1
    <3>4. QED BY <3>1, <3>2, <3>3
  <2>2. s \in Seq(Operation) /\ Len(s) = 13 /\ Len(s) >= 1
    BY <1>2, <1>3, <1>4, <2>1 DEF Is
  <2>3. /\ s[1] = w /\ s[2] = m /\ s[3] = k /\ s[4] = g /\ s[5] = n /\ s[6] = e /\ s[7] = r
         /\ s[8] = q /\ s[9] = b /\ s[10] = c /\ s[11] = f /\ s[12] = v /\ s[13] = z
    BY <1>2, <1>3, <1>4, <2>1 DEF Is
  <2>4. \A i \in 1 .. 13 : s[i].op \in
          {"extend", "move", "seek", "give_up", "neutral", "edge", "replaced", "request",
           "begin", "confirm", "finish", "verify", "restore"} /\ s[i].joint = j0
    BY <1>2, <1>3, <1>4, <2>2, <2>3 DEF Is
  <2>5. \A i, p \in 1 .. Len(s) : i < p => Above(s[i], s[p])
    <3>1. \A i \in 1 .. 12 : s[i].op \in Inner /\ s[i].op # "restore"
      BY <1>2, <1>3, <1>4, <2>2, <2>3 DEF Is, Inner, UnderRest
    <3>2. \A i \in 1 .. 13 : s[i].op # "goto_rest"
      BY <2>4
    <3>3. QED BY <2>2, <2>4, <3>1, <3>2 DEF Above
  <2>6. Linked(s)
    <3>1. Follows(w, m) /\ Follows(m, k) /\ Follows(k, g)
      BY <1>2, <1>3, <1>4
         DEF Is, Follows, Covers, Covered, Exempt, Starter, DirectedSeek, Active, Moving
    <3>2. Follows(g, n) /\ Follows(n, e) /\ Follows(e, r)
      BY <1>2, <1>3, <1>4
         DEF Is, Follows, Covers, Covered, Exempt, Starter, DirectedSeek, Active, Moving
    <3>3. Follows(r, q) /\ Follows(q, b) /\ Follows(b, c)
      BY <1>2, <1>3, <1>4
         DEF Is, Follows, Covers, Covered, Exempt, Starter, DirectedSeek, Active, Moving
    <3>4. Follows(c, f) /\ Follows(f, v) /\ Follows(v, z)
      BY <1>2, <1>3, <1>4
         DEF Is, Follows, Covers, Covered, Exempt, Starter, DirectedSeek, Active, Moving
    <3>5. QED BY <2>2, <2>3, <3>1, <3>2, <3>3, <3>4 DEF Linked
  <2>7. Line(s)
    BY <2>2, <2>5, <2>6, LineAlso
  <2>8. Body(Now, s)
    <3>1. s[13].joint = j0 /\ ~Opens(s[13]) /\ s[13].op \notin Exempt
      BY <1>2, <1>3, <1>4, <2>2, <2>3 DEF Is, Opens, Starter, DirectedSeek, Active, Exempt
    <3>2. QED BY <1>2, <1>3, <1>4, <2>2, <2>3, <2>7, <3>1, BodyFrom DEF j0, Is
  <2>9. s[1].op = "extend" /\ s[1].joint = j0
    BY <1>2, <2>3 DEF Is
  <2>10. s[13].op = "restore" /\ s[13].arg = axis[j0].lo /\ s[13].joint = j0
    BY <1>2, <2>3 DEF Is
  <2>11. \A i \in 1 .. 13 : s[i].op = "restore" => i = 13
    BY <1>2, <1>3, <1>4, <2>2, <2>3 DEF Is
  <2>12. /\ \E i \in 1 .. Len(s) : s[i].op = "restore"
         /\ \A i \in 1 .. Len(s) : s[i].op = "restore" => s[i].arg = axis[j0].lo /\ s[i].joint = j0
    BY <2>2, <2>10, <2>11
  <2>13. QED BY <2>8, <2>9, <2>12 DEF s
<1>10. QED BY <1>8, <1>9

\* The hold of the parked joint, if one is needed, is no covered operation.
LEMMA ParkedIs ==
  ASSUME j0 \in Joint
  PROVE  \/ NeedsParked[j0] = {} /\ Parked(j0) = <<>>
         \/ \E h, k : /\ Parked(j0) = <<h>> /\ Is(h, "hold", k, "-")
                      /\ k \in NeedsParked[j0] /\ NeedsParked[j0] # {}
<1>1. CASE NeedsParked[j0] = {}
  BY <1>1 DEF Parked
<1>2. CASE NeedsParked[j0] # {}
  <2>. DEFINE k == CHOOSE k \in NeedsParked[j0] : TRUE
  <2>1. k \in NeedsParked[j0]
    BY <1>2
  <2>2. k \in Joint
    BY <2>1, HomingAssumption DEF HomingConfigOK
  <2>3. Is(Op("hold", k), "hold", k, "-")
    BY <2>2, OpIs DEF Names
  <2>4. Parked(j0) = <<Op("hold", k)>>
    BY <1>2 DEF Parked
  <2>5. QED BY <1>2, <2>1, <2>3, <2>4
<1>3. QED BY <1>1, <1>2

LEMMA HoldUncovered ==
  ASSUME j0 \in Joint, NEW h, NEW k \in NeedsParked[j0], Is(h, "hold", k, "-")
  PROVE  ClearanceConfig => ~Covered(h)
BY DEF ClearanceConfig, Covered, Is

LEMMA PlanBody ==
  ASSUME Now \in Operation, Now.op = "home"
  PROVE  LET s == Plan(j0)
         IN  /\ Body(Now, s) /\ s[1].op \in {"park_a", "hold", "park_c", "direct", "single"}
             /\ ClearanceConfig => ~Covered(s[1])
<1>. DEFINE s == Plan(j0)
            a == Op("park_a", j0)
            b == Op("from_a", j0)
            c == Op("park_c", j0)
            d == Op("c_to_b", j0)
            e == Op("direct", j0)
            f == Op("single", j0)
<1>1. j0 \in Joint
  BY DEF Operation, j0
<1>2. /\ Is(a, "park_a", j0, "-") /\ Is(b, "from_a", j0, "-") /\ Is(c, "park_c", j0, "-")
      /\ Is(d, "c_to_b", j0, "-") /\ Is(e, "direct", j0, "-") /\ Is(f, "single", j0, "-")
  BY <1>1, OpIs DEF Names
<1>3. /\ Strategy[j0] \in {"negative", "positive", "direct", "single"}
      /\ Strategy[j0] = "negative" => s = <<a, b>>
      /\ Strategy[j0] = "positive" => s = Parked(j0) \o <<c, d>>
      /\ Strategy[j0] = "direct" => s = <<e>>
      /\ Strategy[j0] = "single" => s = <<f>>
  BY <1>1, HomingAssumption DEF HomingConfigOK, Plan
<1>. HIDE DEF s, a, b, c, d, e, f
<1>4. CASE Strategy[j0] = "negative"
  <2>1. s = <<a, b>>
    BY <1>3, <1>4
  <2>2. s \in Seq(Operation) /\ Len(s) = 2 /\ Len(s) >= 1
    BY <1>1, <1>2, <1>4, <2>1 DEF Is
  <2>3. s[1] = a /\ s[2] = b
    BY <1>1, <1>2, <1>4, <2>1 DEF Is
  <2>4. \A i \in 1 .. 2 : s[i].op \in {"park_a", "from_a"}
    BY <1>1, <1>2, <1>4, <2>2, <2>3 DEF Is
  <2>5. Plain(s)
    BY <2>2, <2>3, <2>4 DEF Plain
  <2>6. Linked(s)
    <3>1. Follows(a, b)
      BY <1>1, <1>2, <1>4
         DEF Is, Follows, Covers, Covered, Exempt, Starter, DirectedSeek, Active, Moving
    <3>2. QED BY <2>2, <2>3, <3>1 DEF Linked
  <2>7. Line(s)
    BY <2>2, <2>5, <2>6, LineFrom
  <2>8. s[2].joint = j0 /\ ~Opens(s[2])
    BY <1>1, <1>2, <1>4, <2>3 DEF Is, Opens, Starter, DirectedSeek, Active
  <2>9. \A i \in 1 .. Len(s) : s[i].op # "restore"
    BY <2>5 DEF Plain
  <2>10. Body(Now, s)
    BY <2>2, <2>7, <2>8, <2>9, BodyFrom DEF j0
  <2>11. ClearanceConfig => ~Covered(s[1])
    BY <1>1, <1>2, <1>4, <2>3, HoldUncovered, HomingAssumption
       DEF HomingConfigOK, ClearanceConfig, Covered, Is, Exempt
  <2>12. QED BY <1>1, <1>2, <1>4, <2>3, <2>10, <2>11 DEF s, Is
<1>5. CASE Strategy[j0] = "direct"
  <2>1. s = <<e>>
    BY <1>3, <1>5
  <2>2. s \in Seq(Operation) /\ Len(s) = 1 /\ Len(s) >= 1
    BY <1>1, <1>2, <1>5, <2>1 DEF Is
  <2>3. s[1] = e
    BY <1>1, <1>2, <1>5, <2>1 DEF Is
  <2>4. \A i \in 1 .. 1 : s[i].op \in {"direct"}
    BY <1>1, <1>2, <1>5, <2>2, <2>3 DEF Is
  <2>5. Plain(s)
    BY <2>2, <2>3, <2>4 DEF Plain
  <2>6. Linked(s)
    <3>1. QED BY <2>2, <2>3 DEF Linked
  <2>7. Line(s)
    BY <2>2, <2>5, <2>6, LineFrom
  <2>8. s[1].joint = j0 /\ ~Opens(s[1])
    BY <1>1, <1>2, <1>5, <2>3 DEF Is, Opens, Starter, DirectedSeek, Active
  <2>9. \A i \in 1 .. Len(s) : s[i].op # "restore"
    BY <2>5 DEF Plain
  <2>10. Body(Now, s)
    BY <2>2, <2>7, <2>8, <2>9, BodyFrom DEF j0
  <2>11. ClearanceConfig => ~Covered(s[1])
    BY <1>1, <1>2, <1>5, <2>3, HoldUncovered, HomingAssumption
       DEF HomingConfigOK, ClearanceConfig, Covered, Is, Exempt
  <2>12. QED BY <1>1, <1>2, <1>5, <2>3, <2>10, <2>11 DEF s, Is
<1>6. CASE Strategy[j0] = "single"
  <2>1. s = <<f>>
    BY <1>3, <1>6
  <2>2. s \in Seq(Operation) /\ Len(s) = 1 /\ Len(s) >= 1
    BY <1>1, <1>2, <1>6, <2>1 DEF Is
  <2>3. s[1] = f
    BY <1>1, <1>2, <1>6, <2>1 DEF Is
  <2>4. \A i \in 1 .. 1 : s[i].op \in {"single"}
    BY <1>1, <1>2, <1>6, <2>2, <2>3 DEF Is
  <2>5. Plain(s)
    BY <2>2, <2>3, <2>4 DEF Plain
  <2>6. Linked(s)
    <3>1. QED BY <2>2, <2>3 DEF Linked
  <2>7. Line(s)
    BY <2>2, <2>5, <2>6, LineFrom
  <2>8. s[1].joint = j0 /\ ~Opens(s[1])
    BY <1>1, <1>2, <1>6, <2>3 DEF Is, Opens, Starter, DirectedSeek, Active
  <2>9. \A i \in 1 .. Len(s) : s[i].op # "restore"
    BY <2>5 DEF Plain
  <2>10. Body(Now, s)
    BY <2>2, <2>7, <2>8, <2>9, BodyFrom DEF j0
  <2>11. ClearanceConfig => ~Covered(s[1])
    BY <1>1, <1>2, <1>6, <2>3, HoldUncovered, HomingAssumption
       DEF HomingConfigOK, ClearanceConfig, Covered, Is, Exempt
  <2>12. QED BY <1>1, <1>2, <1>6, <2>3, <2>10, <2>11 DEF s, Is
<1>7. CASE Strategy[j0] = "positive" /\ NeedsParked[j0] = {}
  <2>1. s = <<c, d>>
    <3>1. s = Parked(j0) \o <<c, d>>
      BY <1>3, <1>7
    <3>2. Parked(j0) = <<>>
      BY <1>1, <1>7, ParkedIs
    <3>3. <<>> \o <<c, d>> = <<c, d>>
      OBVIOUS
    <3>4. QED BY <3>1, <3>2, <3>3
  <2>2. s \in Seq(Operation) /\ Len(s) = 2 /\ Len(s) >= 1
    BY <1>1, <1>2, <1>7, <2>1 DEF Is
  <2>3. s[1] = c /\ s[2] = d
    BY <1>1, <1>2, <1>7, <2>1 DEF Is
  <2>4. \A i \in 1 .. 2 : s[i].op \in {"park_c", "c_to_b"}
    BY <1>1, <1>2, <1>7, <2>2, <2>3 DEF Is
  <2>5. Plain(s)
    BY <2>2, <2>3, <2>4 DEF Plain
  <2>6. Linked(s)
    <3>1. Follows(c, d)
      BY <1>1, <1>2, <1>7
         DEF Is, Follows, Covers, Covered, Exempt, Starter, DirectedSeek, Active, Moving
    <3>2. QED BY <2>2, <2>3, <3>1 DEF Linked
  <2>7. Line(s)
    BY <2>2, <2>5, <2>6, LineFrom
  <2>8. s[2].joint = j0 /\ ~Opens(s[2])
    BY <1>1, <1>2, <1>7, <2>3 DEF Is, Opens, Starter, DirectedSeek, Active
  <2>9. \A i \in 1 .. Len(s) : s[i].op # "restore"
    BY <2>5 DEF Plain
  <2>10. Body(Now, s)
    BY <2>2, <2>7, <2>8, <2>9, BodyFrom DEF j0
  <2>11. ClearanceConfig => ~Covered(s[1])
    BY <1>1, <1>2, <1>7, <2>3, HoldUncovered, HomingAssumption
       DEF HomingConfigOK, ClearanceConfig, Covered, Is, Exempt
  <2>12. QED BY <1>1, <1>2, <1>7, <2>3, <2>10, <2>11 DEF s, Is
<1>8. CASE Strategy[j0] = "positive" /\ NeedsParked[j0] # {}
  <2>1. PICK h, k : Parked(j0) = <<h>> /\ Is(h, "hold", k, "-") /\ k \in NeedsParked[j0]
    BY <1>1, <1>8, ParkedIs
  <2>2. s = <<h, c, d>>
    <3>1. s = <<h>> \o <<c, d>>
      BY <1>3, <1>8, <2>1
    <3>2. <<h>> \o <<c, d>> = <<h, c, d>>
      BY Glue1and2
    <3>3. QED BY <3>1, <3>2
  <2>3. s \in Seq(Operation) /\ Len(s) = 3 /\ Len(s) >= 1
    BY <1>1, <1>2, <1>8, <2>1, <2>2 DEF Is
  <2>4. s[1] = h /\ s[2] = c /\ s[3] = d
    BY <1>1, <1>2, <1>8, <2>1, <2>2 DEF Is
  <2>5. \A i \in 1 .. 3 : s[i].op \in {"hold", "park_c", "c_to_b"}
    BY <1>1, <1>2, <1>8, <2>1, <2>3, <2>4 DEF Is
  <2>6. Plain(s)
    BY <2>3, <2>4, <2>5 DEF Plain
  <2>7. Linked(s)
    <3>1. Follows(h, c)
      BY <1>1, <1>2, <1>8, <2>1
         DEF Is, Follows, Covers, Covered, Exempt, Starter, DirectedSeek, Active, Moving
    <3>2. Follows(c, d)
      BY <1>1, <1>2, <1>8, <2>1
         DEF Is, Follows, Covers, Covered, Exempt, Starter, DirectedSeek, Active, Moving
    <3>3. QED BY <2>3, <2>4, <3>1, <3>2 DEF Linked
  <2>8. Line(s)
    BY <2>3, <2>6, <2>7, LineFrom
  <2>9. s[3].joint = j0 /\ ~Opens(s[3])
    BY <1>1, <1>2, <1>8, <2>1, <2>4 DEF Is, Opens, Starter, DirectedSeek, Active
  <2>10. \A i \in 1 .. Len(s) : s[i].op # "restore"
    BY <2>6 DEF Plain
  <2>11. Body(Now, s)
    BY <2>3, <2>8, <2>9, <2>10, BodyFrom DEF j0
  <2>12. ClearanceConfig => ~Covered(s[1])
    BY <1>1, <1>2, <1>8, <2>1, <2>4, HoldUncovered, HomingAssumption
       DEF HomingConfigOK, ClearanceConfig, Covered, Is, Exempt
  <2>13. QED BY <1>1, <1>2, <1>8, <2>1, <2>4, <2>11, <2>12 DEF s, Is
<1>9. QED BY <1>3, <1>4, <1>5, <1>6, <1>7, <1>8

LEMMA DirectBody ==
  ASSUME Now \in Operation, Now.op = "direct"
  PROVE  LET s == Parked(j0) \o <<Op("direct_b", j0)>>
         IN  /\ Body(Now, s) /\ s[1].op \in {"hold", "direct_b"}
             /\ ClearanceConfig => ~Covered(s[1])
<1>. DEFINE s == Parked(j0) \o <<Op("direct_b", j0)>>
            d == Op("direct_b", j0)
<1>1. j0 \in Joint
  BY DEF Operation, j0
<1>2. Is(d, "direct_b", j0, "-")
  BY <1>1, OpIs DEF Names
<1>3. s = Parked(j0) \o <<d>>
  OBVIOUS
<1>. HIDE DEF s, d
<1>4. CASE NeedsParked[j0] = {}
  <2>1. s = <<d>>
    <3>1. s = Parked(j0) \o <<d>>
      BY <1>3
    <3>2. Parked(j0) = <<>>
      BY <1>1, <1>4, ParkedIs
    <3>3. <<>> \o <<d>> = <<d>>
      OBVIOUS
    <3>4. QED BY <3>1, <3>2, <3>3
  <2>2. s \in Seq(Operation) /\ Len(s) = 1 /\ Len(s) >= 1
    BY <1>1, <1>2, <1>4, <2>1 DEF Is
  <2>3. s[1] = d
    BY <1>1, <1>2, <1>4, <2>1 DEF Is
  <2>4. \A i \in 1 .. 1 : s[i].op \in {"direct_b"}
    BY <1>1, <1>2, <1>4, <2>2, <2>3 DEF Is
  <2>5. Plain(s)
    BY <2>2, <2>3, <2>4 DEF Plain
  <2>6. Linked(s)
    <3>1. QED BY <2>2, <2>3 DEF Linked
  <2>7. Line(s)
    BY <2>2, <2>5, <2>6, LineFrom
  <2>8. s[1].joint = j0 /\ ~Opens(s[1])
    BY <1>1, <1>2, <1>4, <2>3 DEF Is, Opens, Starter, DirectedSeek, Active
  <2>9. \A i \in 1 .. Len(s) : s[i].op # "restore"
    BY <2>5 DEF Plain
  <2>10. Body(Now, s)
    BY <2>2, <2>7, <2>8, <2>9, BodyFrom DEF j0
  <2>11. ClearanceConfig => ~Covered(s[1])
    BY <1>1, <1>2, <1>4, <2>3, HoldUncovered, HomingAssumption
       DEF HomingConfigOK, ClearanceConfig, Covered, Is, Exempt
  <2>12. QED BY <1>1, <1>2, <1>4, <2>3, <2>10, <2>11 DEF s, Is
<1>5. CASE NeedsParked[j0] # {}
  <2>1. PICK h, k : Parked(j0) = <<h>> /\ Is(h, "hold", k, "-") /\ k \in NeedsParked[j0]
    BY <1>1, <1>5, ParkedIs
  <2>2. s = <<h, d>>
    <3>1. s = <<h>> \o <<d>>
      BY <1>3, <2>1
    <3>2. <<h>> \o <<d>> = <<h, d>>
      BY Glue1and1
    <3>3. QED BY <3>1, <3>2
  <2>3. s \in Seq(Operation) /\ Len(s) = 2 /\ Len(s) >= 1
    BY <1>1, <1>2, <1>5, <2>1, <2>2 DEF Is
  <2>4. s[1] = h /\ s[2] = d
    BY <1>1, <1>2, <1>5, <2>1, <2>2 DEF Is
  <2>5. \A i \in 1 .. 2 : s[i].op \in {"hold", "direct_b"}
    BY <1>1, <1>2, <1>5, <2>1, <2>3, <2>4 DEF Is
  <2>6. Plain(s)
    BY <2>3, <2>4, <2>5 DEF Plain
  <2>7. Linked(s)
    <3>1. Follows(h, d)
      BY <1>1, <1>2, <1>5, <2>1
         DEF Is, Follows, Covers, Covered, Exempt, Starter, DirectedSeek, Active, Moving
    <3>2. QED BY <2>3, <2>4, <3>1 DEF Linked
  <2>8. Line(s)
    BY <2>3, <2>6, <2>7, LineFrom
  <2>9. s[2].joint = j0 /\ ~Opens(s[2])
    BY <1>1, <1>2, <1>5, <2>1, <2>4 DEF Is, Opens, Starter, DirectedSeek, Active
  <2>10. \A i \in 1 .. Len(s) : s[i].op # "restore"
    BY <2>6 DEF Plain
  <2>11. Body(Now, s)
    BY <2>3, <2>8, <2>9, <2>10, BodyFrom DEF j0
  <2>12. ClearanceConfig => ~Covered(s[1])
    BY <1>1, <1>2, <1>5, <2>1, <2>4, HoldUncovered, HomingAssumption
       DEF HomingConfigOK, ClearanceConfig, Covered, Is, Exempt
  <2>13. QED BY <1>1, <1>2, <1>5, <2>1, <2>4, <2>11, <2>12 DEF s, Is
<1>6. QED BY <1>4, <1>5

-----------------------------------------------------------------------------
(***************************************************************************)
(* The stack after a return, a call and an exception.                      *)
(***************************************************************************)
\* The operation in hand.
LEMMA HeadIs ==
  ASSUME TypeOK, StackInv, todo # <<>>
  PROVE  /\ todo \in Seq(Operation) /\ Len(todo) \in Nat /\ Len(todo) >= 1
         /\ Now = todo[1] /\ Now \in Operation /\ j0 \in Joint
         /\ axis[j0] \in Axes /\ result = "running"
         /\ raised # "no" => Now.op = "restore" /\ Len(todo) = 1
<1>1. todo \in Seq(Operation) /\ Len(todo) \in Nat /\ Len(todo) >= 1
  BY DEF StackInv, StackOK
<1>2. Now = todo[1] /\ Now \in Operation
  BY <1>1 DEF Now
<1>3. j0 \in Joint
  BY <1>2 DEF j0, Operation
<1>4. QED BY <1>1, <1>2, <1>3 DEF TypeOK, StackInv

\* Where the operation after the one in hand comes from.
LEMMA NextIs ==
  ASSUME TypeOK, StackInv, todo # <<>>, todo' = Tail(todo)
  PROVE  /\ todo' \in Seq(Operation) /\ Len(todo') = Len(todo) - 1
         /\ \A i \in 1 .. Len(todo') : todo'[i] = todo[i + 1]
         /\ todo' = <<>> => ~Opens(Now)
         /\ todo' # <<>> => Now' = todo[2] /\ Follows(Now, Now') /\ Now' \in Operation /\ Len(todo) >= 2
<1>1. StackOK(todo) /\ Now = todo[1] /\ todo \in Seq(Operation)
  BY HeadIs DEF StackInv
<1>2. /\ Tail(todo) = <<>> => ~Opens(todo[1])
      /\ Tail(todo) # <<>> => /\ Head(Tail(todo)) = todo[2] /\ Follows(todo[1], todo[2])
                              /\ todo[2] \in Operation /\ Len(todo) >= 2
  BY <1>1, TailOK
<1>3. /\ Tail(todo) \in Seq(Operation) /\ Len(Tail(todo)) = Len(todo) - 1
      /\ \A i \in 1 .. Len(todo) - 1 : Tail(todo)[i] = todo[i + 1]
  BY <1>1, TailOf
<1>4. Now' = Head(todo')
  BY DEF Now
<1>5. QED BY <1>1, <1>2, <1>3, <1>4

\* Returning leaves the stack well-formed.
LEMMA ReturnStack ==
  ASSUME TypeOK, StackInv, todo # <<>>, todo' = Tail(todo), raised' = raised, result' = result
  PROVE  StackInv'
<1>1. StackOK(Tail(todo))
  BY TailOK DEF StackInv
<1>2. raised # "no" => Tail(todo) = <<>>
  <2>1. raised # "no" => Len(todo) = 1 /\ todo \in Seq(Operation)
    BY HeadIs
  <2>2. QED BY <2>1
<1>3. result = "running"
  BY HeadIs
<1>4. QED BY <1>1, <1>2, <1>3 DEF StackInv

\* So does calling a body, which is then on top.
LEMMA CallStack ==
  ASSUME TypeOK, StackInv, todo # <<>>, raised = "no", NEW s, Body(Now, s),
         todo' = s \o Tail(todo), raised' = raised, result' = result
  PROVE  /\ StackInv' /\ todo' # <<>> /\ Now' = s[1]
         /\ s \in Seq(Operation) /\ Len(s) \in Nat /\ Len(s) >= 1
         /\ todo' \in Seq(Operation) /\ Len(todo') = Len(s) + Len(todo) - 1
         /\ \A i \in 1 .. Len(s) : todo'[i] = s[i]
         /\ \A i \in 1 .. Len(todo) - 1 : todo'[Len(s) + i] = todo[i + 1]
         /\ \A i \in 1 .. Len(todo') : i \in 1 .. Len(s) \/ i - Len(s) \in 1 .. Len(todo) - 1
<1>1. Now = todo[1] /\ StackOK(todo) /\ todo \in Seq(Operation) /\ result = "running"
  BY HeadIs DEF StackInv
<1>2. StackOK(s \o Tail(todo)) /\ s \o Tail(todo) # <<>> /\ Head(s \o Tail(todo)) = s[1]
  BY <1>1, JoinOK
<1>3. Now' = Head(todo')
  BY DEF Now
<1>4. s \in Seq(Operation) /\ Len(s) \in Nat /\ Len(s) >= 1
  BY DEF Body, Line
<1>5. /\ Tail(todo) \in Seq(Operation) /\ Len(Tail(todo)) = Len(todo) - 1
      /\ \A i \in 1 .. Len(todo) - 1 : Tail(todo)[i] = todo[i + 1]
  BY <1>1, TailOf
<1>. DEFINE t == Tail(todo)
<1>6. todo' = s \o t /\ t \in Seq(Operation) /\ Len(t) = Len(todo) - 1
      /\ \A i \in 1 .. Len(todo) - 1 : t[i] = todo[i + 1]
  BY <1>5
<1>. HIDE DEF t
<1>7. /\ s \o t \in Seq(Operation) /\ Len(s \o t) = Len(s) + Len(t)
      /\ \A i \in 1 .. Len(s) : (s \o t)[i] = s[i]
      /\ \A i \in 1 .. Len(t) : (s \o t)[Len(s) + i] = t[i]
      /\ \A i \in 1 .. Len(s \o t) : i \in 1 .. Len(s) \/ i - Len(s) \in 1 .. Len(t)
  BY <1>4, <1>6, Joined
<1>8. /\ todo' \in Seq(Operation) /\ Len(todo') = Len(s) + Len(todo) - 1
      /\ \A i \in 1 .. Len(s) : todo'[i] = s[i]
      /\ \A i \in 1 .. Len(todo) - 1 : todo'[Len(s) + i] = todo[i + 1]
      /\ \A i \in 1 .. Len(todo') : i \in 1 .. Len(s) \/ i - Len(s) \in 1 .. Len(todo) - 1
  BY <1>1, <1>4, <1>6, <1>7
<1>9. StackInv'
  BY <1>1, <1>2 DEF StackInv
<1>10. QED BY <1>2, <1>3, <1>4, <1>8, <1>9

\* An exception leaves the finally clause of the joint in hand, or nothing.
LEMMA UnwindIs ==
  ASSUME TypeOK, StackInv, todo # <<>>, NEW x, Unwind(x)
  PROVE  \/ todo' = <<>> /\ \A i \in 1 .. Len(todo) : todo[i].op = "restore" => i = 1
         \/ \E k \in 2 .. Len(todo) : /\ todo' = <<todo[k]>> /\ todo[k] \in Operation
                                      /\ todo[k].op = "restore" /\ todo[k].joint = j0
<1>1. todo \in Seq(Operation) /\ Len(todo) \in Nat /\ Len(todo) >= 1 /\ Now = todo[1]
  BY HeadIs
<1>2. CASE Pending = {}
  <2>1. todo' = <<>>
    BY <1>2 DEF Unwind
  <2>2. \A i \in 1 .. Len(todo) : todo[i].op = "restore" => i = 1
    BY <1>1, <1>2 DEF Pending, IsFinally
  <2>3. QED BY <2>1, <2>2
<1>3. CASE Pending # {}
  <2>1. PICK k \in Pending : todo' = <<todo[k]>>
    BY <1>3 DEF Unwind
  <2>2. k \in 2 .. Len(todo) /\ todo[k].op = "restore"
    BY DEF Pending, IsFinally
  <2>3. Above(todo[1], todo[k])
    BY <1>1, <2>2 DEF StackInv, StackOK
  <2>4. QED BY <1>1, <2>1, <2>2, <2>3 DEF Above, j0
<1>4. QED BY <1>2, <1>3

LEMMA UnwindStack ==
  ASSUME TypeOK, StackInv, todo # <<>>, NEW x \in {"error", "interrupt"}, Unwind(x), result' = result
  PROVE  StackInv' /\ raised' = x /\ (todo' # <<>> => Now'.op = "restore" /\ Now'.joint = j0)
<1>1. raised' = x /\ result' = "running"
  BY HeadIs DEF Unwind
<1>2. CASE todo' = <<>>
  <2>1. StackOK(<<>>)
    BY DEF StackOK, Linked
  <2>2. QED BY <1>1, <1>2, <2>1 DEF StackInv
<1>3. CASE todo' # <<>>
  <2>1. PICK k \in 2 .. Len(todo) : /\ todo' = <<todo[k]>> /\ todo[k] \in Operation
                                   /\ todo[k].op = "restore" /\ todo[k].joint = j0
    BY <1>3, UnwindIs
  <2>. DEFINE o == todo[k]
  <2>2. todo' = <<o>> /\ o \in Operation /\ o.op = "restore" /\ o.joint = j0
    BY <2>1
  <2>. HIDE DEF o
  <2>3. StackOK(<<o>>)
    BY <2>2 DEF StackOK, Linked, Opens, Starter, DirectedSeek, Active
  <2>4. Now' = o /\ Len(todo') = 1 /\ todo'[1] = o
    BY <2>2 DEF Now
  <2>5. QED BY <1>1, <2>2, <2>3, <2>4 DEF StackInv
<1>4. QED BY <1>2, <1>3

-----------------------------------------------------------------------------
(***************************************************************************)
(* What such a step leaves of each part of the invariant: rest, limits,    *)
(* references, clearance.                                                  *)
(***************************************************************************)
\* A step of the controller at the operation in hand: it touches no other
\* joint than that operation's, which becomes r.
Local(r) ==
  /\ todo # <<>> /\ result' = result
  /\ r \in Axes /\ axis' \in [Joint -> Axes] /\ axis'[j0] = r
  /\ \A j \in Joint : j # j0 => axis'[j] = axis[j]

\* Rest, from what is known of the joint in hand before and after the step.
LEMMA RestKept ==
  ASSUME TypeOK, StackInv, RestInv, StackInv', NEW r, Local(r),
         ~Standalone /\ todo' # <<>> => Now'.joint = j0 \/ Still(r),
         ~Standalone /\ raised' = "no" => Still(r) \/ (todo' # <<>> /\ Now'.op \in Moving),
         ~Standalone /\ raised' = "no" /\ todo' # <<>> => HeadOK'
  PROVE  RestInv'
<1>. SUFFICES ASSUME ~Standalone PROVE RestInv'
  BY DEF RestInv
<1>1. j0 \in Joint
  BY HeadIs DEF Local
<1>2. \A j \in Joint : j # j0 => Still(axis'[j])
  BY DEF RestInv, Local, AtRest
<1>3. \A j \in Joint : AtRest(j)' <=> Still(axis'[j])
  BY DEF AtRest
<1>4. \A j \in Joint : j = j0 => axis'[j] = r
  BY DEF Local
<1>5. j0' = Now'.joint
  BY DEF j0
<1>6. (\A j, k \in Joint : AtRest(j) \/ AtRest(k) \/ j = k)'
  BY <1>2, <1>3
<1>7. (todo # <<>> => \A j \in Joint : j = j0 \/ AtRest(j))'
  BY <1>2, <1>3, <1>4, <1>5
<1>8. (raised = "no" /\ todo = <<>> => \A j \in Joint : AtRest(j))'
  BY <1>2, <1>3, <1>4
<1>9. (raised = "no" /\ todo # <<>> => (Now.op \notin Moving => \A j \in Joint : j = j0 => AtRest(j)))'
  BY <1>2, <1>3, <1>4
<1>10. (raised = "no" /\ todo # <<>> => (Now.op \notin Moving => AtRest(j0)))'
  <2>. SUFFICES ASSUME raised' = "no", todo' # <<>>, Now'.op \notin Moving PROVE Still(axis'[j0'])
    BY DEF AtRest
  <2>1. Still(r)
    OBVIOUS
  <2>2. CASE j0' = j0
    BY <2>1, <2>2 DEF Local
  <2>3. CASE j0' # j0
    <3>1. j0' \in Joint
      <4>1. todo' \in Seq(Operation) /\ todo' # <<>>
        BY DEF StackInv, StackOK
      <4>2. Now' \in Operation
        BY <4>1 DEF Now
      <4>3. QED BY <1>5, <4>2 DEF Operation
    <3>2. QED BY <1>2, <2>3, <3>1
  <2>4. QED BY <2>2, <2>3
<1>11. QED BY <1>6, <1>7, <1>8, <1>10 DEF RestInv

LEMMA ReturnRest ==
  ASSUME TypeOK, StackInv, RestInv, NEW r, Local(r), raised' = raised, todo' = Tail(todo),
         ~Starter(Now), ~DirectedSeek(Now), Now.op # "give_up",
         raised = "no" \/ Still(r) \/ Standalone,
         ~Standalone => Still(r) \/ Now.op \in Active,
         Now.op \in {"ready", "latched", "released", "reach"} /\ ~Standalone => InPosition(r),
         Now.op \in {"latched", "released"} /\ ~Standalone => ~r.start,
         Now.op = "finish" => Settled(r)
  PROVE  RestInv'
<1>1. /\ todo' = <<>> => ~Opens(Now)
      /\ todo' # <<>> => Follows(Now, Now') /\ Now' \in Operation
  BY NextIs DEF Local
<1>2. todo' # <<>> /\ Now.op \in Active => Now'.op \in Moving /\ Now'.joint = j0
  BY <1>1 DEF Follows, j0
<1>3. todo' = <<>> => Now.op \notin Active
  BY <1>1 DEF Opens
<1>4. todo' # <<>> /\ ~Standalone => HeadOK'
  <2>. SUFFICES ASSUME todo' # <<>>, ~Standalone PROVE HeadOK'
    OBVIOUS
  <2>1. Now'.op \in
          {"ready", "latched", "released", "reach", "goto_rest", "verify"} => Now'.joint = j0
    <3>1. Now'.op # "ready"
      BY <1>1 DEF Follows
    <3>2. Now'.op \in {"latched", "released", "reach", "verify"} => Now.op \in Active
      BY <1>1 DEF Follows, Active
    <3>3. Now'.op = "goto_rest" => Now'.joint = j0
      <4>. SUFFICES ASSUME Now'.op = "goto_rest" PROVE Now'.joint = j0
        OBVIOUS
      <4>1. /\ todo \in Seq(Operation) /\ Len(todo) >= 2 /\ Now' = todo[2] /\ Now = todo[1] /\ StackOK(todo)
        BY NextIs, HeadIs DEF Local, StackInv
      <4>2. Above(todo[1], todo[2])
        BY <4>1 DEF StackOK
      <4>3. QED BY <4>1, <4>2 DEF Above, j0
    <3>4. QED BY <1>2, <3>1, <3>2, <3>3
  <2>2. Now'.op \in {"latched", "released", "reach", "goto_rest"} => InPosition(r)
    BY <1>1 DEF Follows
  <2>3. Now'.op \in {"released", "reach"} => ~r.start
    BY <1>1 DEF Follows
  <2>4. Now'.op = "verify" => Settled(r)
    BY <1>1 DEF Follows
  <2>5. Now'.op # "ready"
    BY <1>1 DEF Follows
  <2>6. j0' = Now'.joint /\ axis'[j0] = r
    BY DEF j0, Local
  <2>7. (Now'.op \in
          {"ready", "latched", "released", "reach", "goto_rest"} => InPosition(axis'[j0']))
    BY <2>1, <2>2, <2>5, <2>6
  <2>8. Now'.op \in {"released", "reach"} => ~axis'[j0'].start
    BY <2>1, <2>3, <2>6
  <2>9. Now'.op = "verify" => Settled(axis'[j0'])
    BY <2>1, <2>4, <2>6
  <2>10. QED BY <2>7, <2>8, <2>9 DEF HeadOK
<1>5. StackInv'
  BY ReturnStack DEF Local
<1>6. QED BY <1>2, <1>3, <1>4, <1>5, RestKept

LEMMA CallRest ==
  ASSUME TypeOK, StackInv, RestInv, StackInv', NEW r, Local(r), raised = "no", raised' = raised,
         todo' # <<>>,
         ~Standalone => Still(r) \/ (Now'.joint = j0 /\ Now'.op \in Moving),
         Now'.op \notin {"latched", "released", "reach", "goto_rest", "verify"},
         Now'.op = "ready" => Now'.joint = j0 /\ (~Standalone => InPosition(r))
  PROVE  RestInv'
<1>1. j0' = Now'.joint /\ axis'[j0] = r
  BY DEF j0, Local
<1>2. ~Standalone => HeadOK'
  BY <1>1 DEF HeadOK
<1>3. QED BY <1>2, RestKept

LEMMA RaiseRest ==
  ASSUME TypeOK, StackInv, RestInv, NEW r, Local(r), NEW x \in {"error", "interrupt"}, Unwind(x)
  PROVE  RestInv'
<1>1. StackInv' /\ raised' = x /\ (todo' # <<>> => Now'.joint = j0)
  BY UnwindStack DEF Local
<1>2. QED BY <1>1, RestKept

RestoreFor(s, j) == \E i \in 1 .. Len(s) : s[i].op = "restore" /\ s[i].joint = j

\* Limits: the restore of every limit that is not the configured one is kept.
LEMMA ReturnLimits ==
  ASSUME TypeOK, StackInv, LimitsInv, todo # <<>>, todo' = Tail(todo),
         result' = result, unrestored' = unrestored, axis' \in [Joint -> Axes],
         Now.op # "restore", \A j \in Joint : axis'[j].lo = axis[j].lo
  PROVE  LimitsInv'
<1>. SUFFICES ASSUME ~unrestored PROVE LimitsInv'
  BY DEF LimitsInv
<1>1. /\ todo' \in Seq(Operation) /\ Len(todo') = Len(todo) - 1
      /\ \A i \in 1 .. Len(todo') : todo'[i] = todo[i + 1]
      /\ todo' # <<>> => Follows(Now, Now')
  BY NextIs
<1>2. todo \in Seq(Operation) /\ Len(todo) \in Nat /\ Len(todo) >= 1 /\ Now = todo[1]
  BY HeadIs
<1>3. \A i \in 1 .. Len(todo) : todo[i].op = "restore" => i - 1 \in 1 .. Len(todo') /\ todo'[i - 1] = todo[i]
  BY <1>1, <1>2
<1>4. \A i \in 1 .. Len(todo') : todo'[i].op = "restore" => todo'[i].arg = LoLimit[todo'[i].joint]
  BY <1>1, <1>2 DEF LimitsInv
<1>5. \A j \in Joint : axis'[j].lo = LoLimit[j] \/ RestoreFor(todo', j)
  BY <1>3 DEF LimitsInv, RestoreFor
<1>6. ~At("extend")'
  BY <1>1 DEF At, Follows
<1>7. QED BY <1>4, <1>5, <1>6 DEF LimitsInv, RestoreFor

LEMMA CallLimits ==
  ASSUME TypeOK, StackInv, LimitsInv, todo # <<>>, raised = "no", NEW s, Body(Now, s),
         todo' = s \o Tail(todo), raised' = raised, result' = result, unrestored' = unrestored,
         \A j \in Joint : axis'[j].lo = axis[j].lo,
         s[1].op = "extend" => RestoreFor(s, s[1].joint),
         \A i \in 1 .. Len(s) : s[i].op = "restore" =>
            Now.op = "c_to_b" /\ s[i].arg = axis[j0].lo /\ s[i].joint = j0
  PROVE  LimitsInv'
<1>. SUFFICES ASSUME ~unrestored PROVE LimitsInv'
  BY DEF LimitsInv
<1>1. /\ todo' # <<>> /\ Now' = s[1]
      /\ s \in Seq(Operation) /\ Len(s) \in Nat /\ Len(s) >= 1
      /\ todo' \in Seq(Operation) /\ Len(todo') = Len(s) + Len(todo) - 1
      /\ \A i \in 1 .. Len(s) : todo'[i] = s[i]
      /\ \A i \in 1 .. Len(todo) - 1 : todo'[Len(s) + i] = todo[i + 1]
      /\ \A i \in 1 .. Len(todo') : i \in 1 .. Len(s) \/ i - Len(s) \in 1 .. Len(todo) - 1
  BY CallStack
<1>2. todo \in Seq(Operation) /\ Len(todo) \in Nat /\ Len(todo) >= 1 /\ Now = todo[1] /\ j0 \in Joint
  BY HeadIs
<1>3. Now.op # "restore"
  BY DEF Body
<1>4. \A i \in 1 .. Len(todo) : todo[i].op = "restore" =>
         Len(s) + i - 1 \in 1 .. Len(todo') /\ todo'[Len(s) + i - 1] = todo[i]
  <2>. SUFFICES ASSUME NEW i \in 1 .. Len(todo), todo[i].op = "restore"
                PROVE  Len(s) + i - 1 \in 1 .. Len(todo') /\ todo'[Len(s) + i - 1] = todo[i]
    OBVIOUS
  <2>1. i # 1
    BY <1>2, <1>3
  <2>2. i - 1 \in 1 .. Len(todo) - 1 /\ (i - 1) + 1 = i /\ Len(s) + i - 1 = Len(s) + (i - 1)
    BY <1>1, <1>2, <2>1
  <2>3. todo'[Len(s) + (i - 1)] = todo[(i - 1) + 1]
    BY <1>1, <2>2
  <2>4. QED BY <1>1, <1>2, <2>2, <2>3
<1>5. Now.op = "c_to_b" => axis[j0].lo = LoLimit[j0]
  <2>. SUFFICES ASSUME Now.op = "c_to_b", axis[j0].lo # LoLimit[j0] PROVE FALSE
    OBVIOUS
  <2>1. PICK i \in 1 .. Len(todo) : todo[i].op = "restore"
    BY <1>2 DEF LimitsInv
  <2>2. i # 1
    BY <1>2, <1>3, <2>1
  <2>3. Above(todo[1], todo[i])
    BY <1>2, <2>2 DEF StackInv, StackOK
  <2>4. QED BY <1>2, <2>1, <2>3 DEF Above, Inner, UnderRest
<1>6. \A i \in 1 .. Len(todo') : todo'[i].op = "restore" => todo'[i].arg = LoLimit[todo'[i].joint]
  <2>. SUFFICES ASSUME NEW i \in 1 .. Len(todo'), todo'[i].op = "restore"
                PROVE  todo'[i].arg = LoLimit[todo'[i].joint]
    OBVIOUS
  <2>1. CASE i \in 1 .. Len(s)
    BY <1>1, <1>5, <2>1
  <2>2. CASE i - Len(s) \in 1 .. Len(todo) - 1
    <3>1. Len(s) + (i - Len(s)) = i /\ (i - Len(s)) + 1 \in 1 .. Len(todo)
      BY <1>1, <1>2, <2>2
    <3>2. todo'[i] = todo[(i - Len(s)) + 1]
      BY <1>1, <2>2, <3>1
    <3>3. QED BY <3>1, <3>2 DEF LimitsInv
  <2>3. QED BY <1>1, <2>1, <2>2
<1>7. \A j \in Joint : axis'[j].lo = LoLimit[j] \/ RestoreFor(todo', j)
  <2>. SUFFICES ASSUME NEW j \in Joint, axis[j].lo # LoLimit[j] PROVE RestoreFor(todo', j)
    OBVIOUS
  <2>1. PICK i \in 1 .. Len(todo) : todo[i].op = "restore" /\ todo[i].joint = j
    BY DEF LimitsInv
  <2>2. Len(s) + i - 1 \in 1 .. Len(todo') /\ todo'[Len(s) + i - 1] = todo[i]
    BY <1>4, <2>1
  <2>3. QED BY <2>1, <2>2 DEF RestoreFor
<1>8. At("extend")' => RestoreFor(todo', Now'.joint)
  <2>. SUFFICES ASSUME Now'.op = "extend" PROVE RestoreFor(todo', Now'.joint)
    BY DEF At
  <2>1. RestoreFor(s, Now'.joint)
    BY <1>1
  <2>2. \A i \in 1 .. Len(s) : i \in 1 .. Len(todo')
    BY <1>1, <1>2
  <2>3. QED BY <1>1, <2>1, <2>2 DEF RestoreFor
<1>9. QED BY <1>6, <1>7, <1>8 DEF LimitsInv, RestoreFor, j0

LEMMA RaiseLimits ==
  ASSUME TypeOK, StackInv, LimitsInv, todo # <<>>, NEW x, Unwind(x), Now.op # "restore",
         unrestored' = unrestored, \A j \in Joint : axis'[j].lo = axis[j].lo
  PROVE  LimitsInv'
<1>. SUFFICES ASSUME ~unrestored PROVE LimitsInv'
  BY DEF LimitsInv
<1>1. todo \in Seq(Operation) /\ Len(todo) \in Nat /\ Len(todo) >= 1 /\ Now = todo[1]
  BY HeadIs
<1>2. CASE todo' = <<>> /\ \A i \in 1 .. Len(todo) : todo[i].op = "restore" => i = 1
  <2>1. \A i \in 1 .. Len(todo) : todo[i].op # "restore"
    BY <1>1, <1>2
  <2>2. Len(todo') = 0 /\ ~At("extend")'
    BY <1>2 DEF At
  <2>3. QED BY <2>1, <2>2 DEF LimitsInv
<1>3. CASE \E k \in 2 .. Len(todo) : /\ todo' = <<todo[k]>> /\ todo[k] \in Operation
                                     /\ todo[k].op = "restore" /\ todo[k].joint = j0
  <2>1. PICK k \in 2 .. Len(todo) : /\ todo' = <<todo[k]>> /\ todo[k] \in Operation
                                    /\ todo[k].op = "restore" /\ todo[k].joint = j0
    BY <1>3
  <2>. DEFINE o == todo[k]
  <2>2. todo' = <<o>> /\ o.op = "restore" /\ o.joint = j0 /\ o.arg = LoLimit[o.joint]
    BY <1>1, <2>1 DEF LimitsInv
  <2>. HIDE DEF o
  <2>3. Len(todo') = 1 /\ todo'[1] = o /\ Now' = o
    BY <2>2 DEF Now
  <2>4. \A j \in Joint : axis'[j].lo = LoLimit[j] \/ j = j0
    <3>. SUFFICES ASSUME NEW j \in Joint, axis[j].lo # LoLimit[j] PROVE j = j0
      OBVIOUS
    <3>1. PICK i \in 1 .. Len(todo) : todo[i].op = "restore" /\ todo[i].joint = j
      BY DEF LimitsInv
    <3>2. i # 1
      BY <1>1, <3>1
    <3>3. Above(todo[1], todo[i])
      BY <1>1, <3>2 DEF StackInv, StackOK
    <3>4. QED BY <1>1, <3>1, <3>3 DEF Above, j0
  <2>5. ~At("extend")'
    BY <2>2, <2>3 DEF At
  <2>6. \A i \in 1 .. Len(todo') : todo'[i].op = "restore" => todo'[i].arg = LoLimit[todo'[i].joint]
    BY <2>2, <2>3
  <2>7. \A j \in Joint : axis'[j].lo = LoLimit[j] \/ RestoreFor(todo', j)
    BY <2>2, <2>3, <2>4 DEF RestoreFor
  <2>8. QED BY <2>5, <2>6, <2>7 DEF LimitsInv, RestoreFor
<1>4. QED BY <1>2, <1>3, UnwindIs

\* References: a step that zeroes nothing keeps them.
LEMMA ReferencedKept ==
  ASSUME TypeOK, StackInv, NEW r, Local(r), r.zero = axis[j0].zero
  PROVE  \A j \in Required : Referenced(j)' <=> Referenced(j)
<1>1. \A j \in Joint : axis'[j].zero = axis[j].zero
  BY HeadIs DEF Local
<1>2. Required \subseteq Joint
  BY HomingAssumption
<1>3. QED BY <1>1, <1>2 DEF Referenced

LEMMA ReturnRef ==
  ASSUME TypeOK, StackInv, RestInv, RefInv, NEW r, Local(r), raised' = raised, todo' = Tail(todo),
         r.zero = axis[j0].zero,
         Now.op \in AfterOps /\ ~Standalone /\ r.start =>
            InPosition(r) \/ (axis[j0].start /\ (InPosition(axis[j0]) => InPosition(r))),
         Now.op = "validate" => axis' = axis /\ \A j \in Required : Referenced(j)
  PROVE  RefInv'
<1>. SUFFICES ASSUME ~Standalone, Validated, raised = "no" PROVE Ends(todo') \/ Done'
  BY DEF RefInv, Done
<1>1. /\ todo' \in Seq(Operation) /\ Len(todo') = Len(todo) - 1
      /\ \A i \in 1 .. Len(todo') : todo'[i] = todo[i + 1]
  BY NextIs DEF Local
<1>2. todo \in Seq(Operation) /\ Len(todo) \in Nat /\ Len(todo) >= 1 /\ Now = todo[1] /\ j0 \in Joint
  BY HeadIs DEF Local
<1>3. \A j \in Required : Referenced(j)' <=> Referenced(j)
  BY ReferencedKept
<1>4. CASE Ends(todo) /\ Now.op # "validate"
  <2>1. PICK i \in 1 .. Len(todo) : todo[i].op = "validate" /\ \A k \in 1 .. Len(todo) : k > i => todo[k].op = "goto"
    BY <1>4 DEF Ends
  <2>2. i - 1 \in 1 .. Len(todo') /\ todo'[i - 1].op = "validate"
    BY <1>1, <1>2, <1>4, <2>1
  <2>3. \A k \in 1 .. Len(todo') : k > i - 1 => todo'[k].op = "goto"
    BY <1>1, <1>2, <2>1
  <2>4. QED BY <2>2, <2>3 DEF Ends
<1>5. CASE Ends(todo) /\ Now.op = "validate"
  <2>1. PICK i \in 1 .. Len(todo) : todo[i].op = "validate" /\ \A k \in 1 .. Len(todo) : k > i => todo[k].op = "goto"
    BY <1>5 DEF Ends
  <2>2. CASE i = 1
    <3>1. \A k \in 1 .. Len(todo') : todo'[k].op \in AfterOps
      BY <1>1, <1>2, <2>1, <2>2 DEF AfterOps
    <3>2. \A j \in Joint : AtRest(j)
      BY <1>2, <1>5 DEF RestInv, Moving, Local
    <3>3. \A j \in Joint : axis'[j].start => InPosition(axis'[j])
      BY <1>5, <3>2 DEF AtRest, Still
    <3>4. QED BY <1>3, <1>5, <3>1, <3>3 DEF Done
  <2>3. CASE i # 1
    <3>1. i - 1 \in 1 .. Len(todo') /\ todo'[i - 1].op = "validate"
      BY <1>1, <1>2, <2>1, <2>3
    <3>2. \A k \in 1 .. Len(todo') : k > i - 1 => todo'[k].op = "goto"
      BY <1>1, <1>2, <2>1
    <3>3. QED BY <3>1, <3>2 DEF Ends
  <2>4. QED BY <2>2, <2>3
<1>6. CASE Done
  <2>1. Now.op \in AfterOps
    BY <1>2, <1>6 DEF Done
  <2>2. \A j \in Joint : axis'[j].start => InPosition(axis'[j])
    BY <1>2, <1>6, <2>1 DEF Done, Local
  <2>3. \A i \in 1 .. Len(todo') : todo'[i].op \in AfterOps
    BY <1>1, <1>2, <1>6 DEF Done
  <2>4. QED BY <1>3, <1>6, <2>2, <2>3 DEF Done
<1>7. QED BY <1>4, <1>5, <1>6 DEF RefInv, Done

LEMMA CallRef ==
  ASSUME TypeOK, StackInv, RestInv, RefInv, NEW r, Local(r), raised = "no", NEW s, Body(Now, s),
         todo' = s \o Tail(todo), raised' = raised, r.zero = axis[j0].zero,
         Now.op \in AfterOps /\ ~Standalone => (r.start => InPosition(r))
  PROVE  RefInv'
<1>. SUFFICES ASSUME ~Standalone, Validated PROVE Ends(todo') \/ Done'
  BY DEF RefInv, Done
<1>1. /\ s \in Seq(Operation) /\ Len(s) \in Nat /\ Len(s) >= 1
      /\ todo' \in Seq(Operation) /\ Len(todo') = Len(s) + Len(todo) - 1
      /\ \A i \in 1 .. Len(s) : todo'[i] = s[i]
      /\ \A i \in 1 .. Len(todo) - 1 : todo'[Len(s) + i] = todo[i + 1]
      /\ \A i \in 1 .. Len(todo') : i \in 1 .. Len(s) \/ i - Len(s) \in 1 .. Len(todo) - 1
  BY CallStack DEF Local
<1>2. todo \in Seq(Operation) /\ Len(todo) \in Nat /\ Len(todo) >= 1 /\ Now = todo[1] /\ j0 \in Joint
  BY HeadIs DEF Local
<1>3. \A j \in Required : Referenced(j)' <=> Referenced(j)
  BY ReferencedKept
<1>4. Now.op # "validate"
  BY DEF Body
<1>5. CASE Ends(todo)
  <2>1. PICK i \in 1 .. Len(todo) : todo[i].op = "validate" /\ \A k \in 1 .. Len(todo) : k > i => todo[k].op = "goto"
    BY <1>5 DEF Ends
  <2>. DEFINE m == Len(s) + (i - 1)
  <2>2. i - 1 \in 1 .. Len(todo) - 1
    BY <1>2, <1>4, <2>1
  <2>3. m \in 1 .. Len(todo') /\ todo'[m].op = "validate"
    <3>1. todo'[m] = todo[(i - 1) + 1]
      BY <1>1, <2>2
    <3>2. (i - 1) + 1 = i /\ m \in 1 .. Len(todo')
      BY <1>1, <1>2, <2>2
    <3>3. QED BY <2>1, <3>1, <3>2
  <2>4. \A k \in 1 .. Len(todo') : k > m => todo'[k].op = "goto"
    <3>. SUFFICES ASSUME NEW k \in 1 .. Len(todo'), k > m PROVE todo'[k].op = "goto"
      OBVIOUS
    <3>. DEFINE n == k - Len(s)
    <3>1. n \in 1 .. Len(todo) - 1 /\ k = Len(s) + n /\ n + 1 \in 1 .. Len(todo) /\ n + 1 > i
      BY <1>1, <1>2, <2>2
    <3>. HIDE DEF n
    <3>2. todo'[k] = todo[n + 1]
      BY <1>1, <3>1
    <3>3. QED BY <2>1, <3>1, <3>2
  <2>5. QED BY <2>3, <2>4 DEF Ends
<1>6. CASE Done
  <2>1. Now.op \in AfterOps
    BY <1>2, <1>6 DEF Done
  <2>2. \A j \in Joint : axis'[j].start => InPosition(axis'[j])
    BY <1>2, <1>6, <2>1 DEF Done, Local
  <2>3. \A i \in 1 .. Len(s) : s[i].op \in AfterOps
    BY <2>1 DEF Body
  <2>4. \A i \in 1 .. Len(todo') : todo'[i].op \in AfterOps
    <3>. SUFFICES ASSUME NEW i \in 1 .. Len(todo') PROVE todo'[i].op \in AfterOps
      OBVIOUS
    <3>1. CASE i \in 1 .. Len(s)
      BY <1>1, <2>3, <3>1
    <3>2. CASE i - Len(s) \in 1 .. Len(todo) - 1
      <4>. DEFINE n == i - Len(s)
      <4>1. n \in 1 .. Len(todo) - 1 /\ i = Len(s) + n /\ n + 1 \in 1 .. Len(todo)
        BY <1>1, <1>2, <3>2
      <4>. HIDE DEF n
      <4>2. todo'[i] = todo[n + 1]
        BY <1>1, <4>1
      <4>3. QED BY <1>6, <4>1, <4>2 DEF Done
    <3>3. QED BY <1>1, <3>1, <3>2
  <2>5. QED BY <1>3, <1>6, <2>2, <2>4 DEF Done
<1>7. QED BY <1>5, <1>6 DEF RefInv, Done

\* The clearance of the joint in hand, its parked joint having been left alone.
LEMMA ClearKept ==
  ASSUME TypeOK, StackInv, RestInv, ClearInv, StackInv', NEW r, Local(r),
         ~Standalone => Still(r) \/ (raised = "no" /\ Now.op \notin Exempt) \/ ~Still(axis[j0]),
         raised' = "no" /\ todo' # <<>> /\ ClearanceConfig /\ Covered(Now)' =>
            /\ raised = "no"
            /\ \/ Now'.joint = j0 /\ Now.op \notin Exempt
               \/ /\ j0 \in NeedsParked[Now'.joint]
                  /\ axis' = axis /\ AtBoundary(j0, axis[j0].pos)
  PROVE  ClearInv'
<1>. SUFFICES ASSUME ~Standalone, ClearanceConfig PROVE ClearInv'
  BY DEF ClearInv
<1>1. j0 \in Joint
  BY HeadIs DEF Local
<1>2. \A j \in Joint : NeedsParked[j] \subseteq Joint /\ j \notin NeedsParked[j]
  BY HomingAssumption DEF HomingConfigOK, ClearanceConfig
<1>3. \A j \in Joint : j # j0 => AtRest(j) /\ axis'[j] = axis[j]
  BY DEF RestInv, Local
<1>4. \A k \in Joint : k # j0 => (AtBoundary(k, axis[k].pos)' <=> AtBoundary(k, axis[k].pos))
  BY <1>3 DEF AtBoundary, NegLimit, PosLimit, SoftNeg, SoftPos, On
<1>5. AtRest(j0) \/ \A k \in NeedsParked[j0] : AtBoundary(k, axis[k].pos)
  BY <1>1 DEF ClearInv
<1>6. raised = "no" /\ Now.op \notin Exempt => \A k \in NeedsParked[j0] : AtBoundary(k, axis[k].pos)
  BY DEF ClearInv, Covered, Local, j0
<1>7. Still(r) \/ \A k \in NeedsParked[j0] : AtBoundary(k, axis[k].pos)'
  BY <1>1, <1>2, <1>4, <1>5, <1>6 DEF AtRest
<1>8. \A j \in Joint : AtRest(j)' <=> Still(axis'[j])
  BY DEF AtRest
<1>9. \A j \in Joint : AtRest(j)' \/ \A k \in NeedsParked[j] : AtBoundary(k, axis[k].pos)'
  BY <1>3, <1>7, <1>8 DEF AtRest, Local
<1>10. raised' = "no" /\ todo' # <<>> /\ Covered(Now)' => \A k \in NeedsParked[Now'.joint] : AtBoundary(k, axis[k].pos)'
  <2>. SUFFICES ASSUME raised' = "no", todo' # <<>>, Covered(Now)'
                PROVE  \A k \in NeedsParked[Now'.joint] : AtBoundary(k, axis[k].pos)'
    OBVIOUS
  <2>1. CASE Now'.joint = j0 /\ Now.op \notin Exempt
    BY <1>1, <1>2, <1>4, <1>6, <2>1
  <2>2. CASE j0 \in NeedsParked[Now'.joint] /\ axis' = axis /\ AtBoundary(j0, axis[j0].pos)
    <3>1. Now'.joint \in Joint
      <4>1. todo' \in Seq(Operation)
        BY DEF StackInv, StackOK
      <4>2. Now' \in Operation
        BY <4>1 DEF Now
      <4>3. QED BY <4>2 DEF Operation
    <3>2. NeedsParked[Now'.joint] = {j0}
      BY <2>2, <3>1 DEF ClearanceConfig
    <3>3. \A k \in NeedsParked[Now'.joint] : k = j0
      BY <3>2
    <3>4. \A k \in Joint : AtBoundary(k, axis[k].pos)' <=> AtBoundary(k, axis[k].pos)
      BY <2>2 DEF AtBoundary, NegLimit, PosLimit, SoftNeg, SoftPos, On
    <3>5. QED BY <1>1, <2>2, <3>3, <3>4
  <2>3. QED BY <2>1, <2>2
<1>11. QED BY <1>9, <1>10 DEF ClearInv, j0

-----------------------------------------------------------------------------
(***************************************************************************)
(* The invariant after a return, a call and an exception.                  *)
(***************************************************************************)
\* Power: only the end of the controller is about it.
LEMMA PowerKept ==
  ASSUME StackInv, todo # <<>>, result' = result
  PROVE  PowerInv'
BY DEF StackInv, PowerInv

LEMMA LoKept ==
  ASSUME NEW r, Local(r), r.lo = axis[j0].lo
  PROVE  \A j \in Joint : axis'[j].lo = axis[j].lo
BY DEF Local

\* The head of the stack returns.
LEMMA ReturnStep ==
  ASSUME HomingInv, NEW r, Local(r), Return,
         unrestored' = unrestored, sampled' \in 0 .. Last + 1,
         r.zero = axis[j0].zero, r.lo = axis[j0].lo,
         ~Starter(Now), ~DirectedSeek(Now), Now.op \notin {"give_up", "restore", "hold"},
         ~Standalone => Still(r) \/ Now.op \in Active,
         Now.op \in {"ready", "latched", "released", "reach"} /\ ~Standalone => InPosition(r),
         Now.op \in {"latched", "released"} /\ ~Standalone => ~r.start,
         Now.op = "finish" => Settled(r),
         Now.op = "resume" /\ r.start => axis[j0].start /\ (InPosition(axis[j0]) => InPosition(r)),
         Now.op = "check" /\ Now.kind = "boundary" => axis' = axis /\ AtBoundary(j0, axis[j0].pos),
         Now.op = "validate" => axis' = axis /\ \A j \in Required : Referenced(j)
  PROVE  HomingInv'
<1>1. /\ TypeOK /\ StackInv /\ RestInv /\ LimitsInv /\ RefInv /\ ClearInv /\ todo # <<>>
      /\ todo' = Tail(todo) /\ raised' = raised /\ result' = result /\ axis' \in [Joint -> Axes]
  BY DEF HomingInv, Return, Local
<1>2. raised = "no"
  BY <1>1, HeadIs
<1>3. TypeOK'
  BY <1>1 DEF TypeOK
<1>4. StackInv'
  BY <1>1, ReturnStack
<1>5. RestInv'
  BY <1>1, <1>2, ReturnRest
<1>6. LimitsInv'
  BY <1>1, LoKept, ReturnLimits
<1>7. Now.op \in AfterOps /\ ~Standalone /\ r.start =>
         InPosition(r) \/ (axis[j0].start /\ (InPosition(axis[j0]) => InPosition(r)))
  BY DEF AfterOps, UnderRest, Still, Active
<1>8. RefInv'
  BY <1>1, <1>7, ReturnRef
<1>9. todo' # <<>> => Follows(Now, Now')
  BY <1>1, NextIs
<1>10. todo' # <<>> /\ ClearanceConfig /\ Covered(Now)' =>
         \/ Now'.joint = j0 /\ Now.op \notin Exempt
         \/ /\ j0 \in NeedsParked[Now'.joint]
            /\ axis' = axis /\ AtBoundary(j0, axis[j0].pos)
  <2>. SUFFICES ASSUME todo' # <<>>, ClearanceConfig, Covered(Now)'
                PROVE  \/ Now'.joint = j0 /\ Now.op \notin Exempt
                       \/ /\ j0 \in NeedsParked[Now'.joint]
                          /\ axis' = axis /\ AtBoundary(j0, axis[j0].pos)
    OBVIOUS
  <2>1. Covers(Now, Now') /\ Covered(Now')
    BY <1>9 DEF Follows, Covered
  <2>2. QED BY <2>1 DEF Covers, j0
<1>11. ~Standalone => Still(r) \/ (raised = "no" /\ Now.op \notin Exempt) \/ ~Still(axis[j0])
  BY <1>2 DEF Active, Exempt
<1>12. ClearInv'
  BY <1>1, <1>2, <1>4, <1>10, <1>11, ClearKept
<1>13. PowerInv'
  BY <1>1, PowerKept
<1>14. QED BY <1>3, <1>4, <1>5, <1>6, <1>8, <1>12, <1>13 DEF HomingInv

\* The head of the stack calls the operations of its body.
LEMMA CallStep ==
  ASSUME HomingInv, NEW r, Local(r), NEW s, Body(Now, s), Call(s),
         unrestored' = unrestored, sampled' \in 0 .. Last + 1,
         r.zero = axis[j0].zero, r.lo = axis[j0].lo,
         ~Standalone => Still(r) \/ (s[1].joint = j0 /\ s[1].op \in Moving /\ Now.op \notin Exempt),
         s[1].op \notin {"latched", "released", "reach", "goto_rest", "verify"},
         s[1].op = "ready" => s[1].joint = j0 /\ (~Standalone => InPosition(r)),
         Now.op \in AfterOps /\ ~Standalone => (r.start => InPosition(r)),
         s[1].op = "extend" => RestoreFor(s, s[1].joint),
         \A i \in 1 .. Len(s) : s[i].op = "restore" =>
            Now.op = "c_to_b" /\ s[i].arg = axis[j0].lo /\ s[i].joint = j0,
         ClearanceConfig => ~Covered(s[1]) \/ (s[1].joint = j0 /\ Now.op \notin Exempt)
  PROVE  HomingInv'
<1>1. /\ TypeOK /\ StackInv /\ RestInv /\ LimitsInv /\ RefInv /\ ClearInv /\ todo # <<>>
      /\ todo' = s \o Tail(todo) /\ raised' = raised /\ result' = result /\ axis' \in [Joint -> Axes]
  BY DEF HomingInv, Call, Local
<1>2. raised = "no"
  BY <1>1, HeadIs DEF Body
<1>3. TypeOK'
  BY <1>1 DEF TypeOK
<1>4. StackInv' /\ todo' # <<>> /\ Now' = s[1]
  BY <1>1, <1>2, CallStack
<1>5. RestInv'
  <2>1. ~Standalone => Still(r) \/ (Now'.joint = j0 /\ Now'.op \in Moving)
    BY <1>4
  <2>2. Now'.op \notin {"latched", "released", "reach", "goto_rest", "verify"}
    BY <1>4
  <2>3. Now'.op = "ready" => Now'.joint = j0 /\ (~Standalone => InPosition(r))
    BY <1>4
  <2>4. QED BY <1>1, <1>2, <1>4, <2>1, <2>2, <2>3, CallRest
<1>6. LimitsInv'
  BY <1>1, <1>2, LoKept, CallLimits
<1>7. RefInv'
  BY <1>1, <1>2, CallRef
<1>8. ClearInv'
  <2>1. Covered(Now)' <=> Covered(s[1])
    BY <1>4 DEF Covered
  <2>2. raised' = "no" /\ todo' # <<>> /\ ClearanceConfig /\ Covered(Now)' =>
          raised = "no" /\ Now'.joint = j0 /\ Now.op \notin Exempt
    BY <1>2, <1>4, <2>1
  <2>3. ~Standalone => Still(r) \/ (raised = "no" /\ Now.op \notin Exempt) \/ ~Still(axis[j0])
    BY <1>2
  <2>4. QED BY <1>1, <1>4, <2>2, <2>3, ClearKept
<1>9. PowerInv'
  BY <1>1, PowerKept
<1>10. QED BY <1>3, <1>4, <1>5, <1>6, <1>7, <1>8, <1>9 DEF HomingInv

\* The head of the stack raises.
LEMMA RaiseStep ==
  ASSUME HomingInv, NEW r, Local(r), NEW x \in {"error", "interrupt"}, Unwind(x),
         unrestored' = unrestored, sampled' \in 0 .. Last + 1,
         r.zero = axis[j0].zero, r.lo = axis[j0].lo, Now.op # "restore",
         Still(r) \/ Now.op \notin Exempt \/ r = axis[j0]
  PROVE  HomingInv'
<1>1. /\ TypeOK /\ StackInv /\ RestInv /\ LimitsInv /\ RefInv /\ ClearInv /\ todo # <<>>
      /\ result' = result /\ axis' \in [Joint -> Axes]
  BY DEF HomingInv, Local
<1>2. raised = "no"
  BY <1>1, HeadIs
<1>3. StackInv' /\ raised' = x
  BY <1>1, UnwindStack
<1>4. TypeOK'
  BY <1>1, <1>3 DEF TypeOK
<1>5. RestInv'
  BY <1>1, RaiseRest
<1>6. LimitsInv'
  BY <1>1, LoKept, RaiseLimits
<1>7. RefInv'
  BY <1>3 DEF RefInv, Done
<1>8. ClearInv'
  BY <1>1, <1>2, <1>3, ClearKept
<1>9. PowerInv'
  BY <1>1, PowerKept
<1>10. QED BY <1>3, <1>4, <1>5, <1>6, <1>7, <1>8, <1>9 DEF HomingInv

\* What an access leaves of the axis in hand.
LEMMA EnabledIs ==
  ASSUME TypeOK, NEW j \in Joint
  PROVE  LET a == Enabled(j)
         IN  /\ a \in Axes /\ Still(a) /\ InPosition(a) /\ ~a.start
             /\ a.zero = axis[j].zero /\ a.lo = axis[j].lo
             /\ \A t \in Int :
                  LET b == [a EXCEPT !.target = t]
                  IN  /\ b \in Axes /\ Still(b) /\ InPosition(b) /\ ~b.start
                      /\ b.zero = axis[j].zero /\ b.lo = axis[j].lo
<1>1. axis[j] \in Axes /\ Counter(j) = axis[j].pos - axis[j].zero /\ Counter(j) \in Int
  BY AxisAssumption DEF TypeOK, Axes, Counter, Place
<1>. DEFINE a == Enabled(j)
<1>2. /\ a \in Axes /\ a.power = TRUE /\ a.start = FALSE /\ a.wanted = "position" /\ a.mode = "position"
      /\ a.goal = Counter(j) /\ a.pos = axis[j].pos /\ a.zero = axis[j].zero /\ a.lo = axis[j].lo
  BY <1>1 DEF Enabled, Axes, Modes
<1>. HIDE DEF a
<1>3. Still(a) /\ InPosition(a) /\ ~a.start
  BY <1>1, <1>2 DEF Still, InPosition
<1>4. \A t \in Int : LET b == [a EXCEPT !.target = t]
                     IN  /\ b \in Axes /\ b.start = FALSE /\ b.wanted = "position" /\ b.mode = "position"
                         /\ b.goal = Counter(j) /\ b.pos = axis[j].pos /\ b.zero = axis[j].zero /\ b.lo = axis[j].lo
  BY <1>2 DEF Axes
<1>5. \A t \in Int : LET b == [a EXCEPT !.target = t]
                     IN  /\ b \in Axes /\ Still(b) /\ InPosition(b) /\ ~b.start
                         /\ b.zero = axis[j].zero /\ b.lo = axis[j].lo
  BY <1>1, <1>4 DEF Still, InPosition
<1>6. QED BY <1>2, <1>3, <1>5 DEF a

LEMMA UnpoweredIs ==
  ASSUME TypeOK, NEW j \in Joint
  PROVE  LET a == Unpowered(j)
         IN  a \in Axes /\ Still(a) /\ ~a.power /\ a.zero = axis[j].zero /\ a.lo = axis[j].lo
<1>1. axis[j] \in Axes
  BY DEF TypeOK
<1>2. QED BY <1>1 DEF Unpowered, Axes, Still

LEMMA HaltedIs ==
  ASSUME TypeOK, NEW j \in Joint, NEW p \in RestingPlaces(j)
  PROVE  LET a == Halted(j, p)
         IN  a \in Axes /\ Still(a) /\ a.zero = axis[j].zero /\ a.lo = axis[j].lo
<1>1. axis[j] \in Axes
  BY DEF TypeOK
<1>2. p \in Place
  BY <1>1 DEF RestingPlaces, Running, Blocked, Axes
<1>3. QED BY <1>1, <1>2 DEF Halted, Axes, Still

LEMMA LocalTo ==
  ASSUME TypeOK, StackInv, todo # <<>>, result' = result, NEW r \in Axes, axis' = [axis EXCEPT ![j0] = r]
  PROVE  Local(r)
<1>1. j0 \in Joint /\ axis \in [Joint -> Axes]
  BY HeadIs DEF TypeOK
<1>2. QED BY <1>1 DEF Local

LEMMA LocalSame ==
  ASSUME TypeOK, StackInv, todo # <<>>, result' = result, axis' = axis
  PROVE  Local(axis[j0]) /\ j0 \in Joint /\ axis[j0] \in Axes
BY HeadIs DEF Local, TypeOK

\* What the invariant says of the operation in hand.
LEMMA HeadFacts ==
  ASSUME HomingInv, todo # <<>>
  PROVE  /\ TypeOK /\ StackInv /\ RestInv
         /\ Now \in Operation /\ j0 \in Joint /\ axis[j0] \in Axes /\ result = "running"
         /\ raised # "no" => Now.op = "restore"
         /\ Now.op # "restore" /\ ~Standalone => HeadOK /\ (Now.op \notin Moving => Still(axis[j0]))
<1>1. TypeOK /\ StackInv /\ RestInv
  BY DEF HomingInv
<1>2. /\ Now \in Operation /\ j0 \in Joint /\ axis[j0] \in Axes /\ result = "running"
      /\ raised # "no" => Now.op = "restore"
  BY <1>1, HeadIs
<1>3. QED BY <1>1, <1>2 DEF RestInv, AtRest

LEMMA RestIs ==
  ASSUME HomingInv, Rest
  PROVE  result' = result /\ unrestored' = unrestored /\ sampled' \in 0 .. Last + 1
BY DEF Rest, HomingInv, TypeOK

\* A method that only puts its body on the stack, its joint standing still.
LEMMA StrategyStep ==
  ASSUME HomingInv, todo # <<>>, Rest, axis' = axis, NEW s, Body(Now, s), Call(s),
         Now.op \notin Moving, Now.op \notin AfterOps, Now.op # "c_to_b",
         s[1].op \in {"move", "halt", "hold", "park_a", "park_c", "direct", "single", "direct_b"},
         ClearanceConfig => ~Covered(s[1]) \/ (s[1].joint = j0 /\ Now.op \notin Exempt)
  PROVE  HomingInv'
<1>. DEFINE r == axis[j0]
<1>1. Local(r)
  BY HeadFacts, RestIs, LocalSame
<1>2. ~Standalone => Still(r)
  BY HeadFacts DEF Body
<1>3. \A i \in 1 .. Len(s) : s[i].op # "restore"
  BY DEF Body
<1>. HIDE DEF r
<1>4. r = axis[j0]
  BY DEF r
<1>5. QED BY <1>1, <1>2, <1>3, <1>4, RestIs, CallStep

\* A step that raises and touches no drive.
LEMMA QuietRaise ==
  ASSUME HomingInv, todo # <<>>, NEW x \in {"error", "interrupt"}, Unwind(x), axis' = axis,
         result' = result, unrestored' = unrestored, sampled' \in 0 .. Last + 1,
         Now.op # "restore"
  PROVE  HomingInv'
<1>. DEFINE r == axis[j0]
<1>1. Local(r)
  BY HeadFacts, LocalSame
<1>. HIDE DEF r
<1>2. r = axis[j0]
  BY DEF r
<1>3. QED BY <1>1, <1>2, RaiseStep

\* A step that returns and touches no drive.
LEMMA QuietReturn ==
  ASSUME HomingInv, todo # <<>>, Return, axis' = axis, Rest,
         Now.op \in
                 {"released", "reach", "goto_rest", "check", "leave", "confirm", "finish",
                  "validate"},
         Now.op = "reach" => AtGoal(j0, axis[j0].pos),
         Now.op = "finish" => Settled(axis[j0]),
         Now.op = "check" /\ Now.kind = "boundary" => AtBoundary(j0, axis[j0].pos),
         Now.op = "validate" => \A j \in Required : Referenced(j)
  PROVE  HomingInv'
<1>. DEFINE r == axis[j0]
<1>1. Local(r)
  BY HeadFacts, RestIs, LocalSame
<1>. HIDE DEF r
<1>2. r = axis[j0]
  BY DEF r
<1>3. ~Starter(Now) /\ ~DirectedSeek(Now) /\ Now.op \notin {"give_up", "restore", "hold"}
  BY DEF Starter, DirectedSeek
<1>4. ~Standalone => /\ Now.op \in {"released", "reach"} => InPosition(r) /\ ~r.start
                     /\ Now.op \in {"goto_rest", "check", "leave", "validate"} => Still(r)
  BY <1>2, HeadFacts DEF HeadOK, Moving
<1>5. ~Standalone => Still(r) \/ Now.op \in Active
  <2>1. Now.op = "reach" => r.goal = r.pos - r.zero
    BY <1>2 DEF AtGoal
  <2>2. QED BY <1>4, <2>1 DEF Still, Active
<1>6. QED BY <1>1, <1>2, <1>3, <1>4, <1>5, RestIs, ReturnStep

-----------------------------------------------------------------------------
(***************************************************************************)
(* Enabling and moving one joint.                                          *)
(***************************************************************************)
\* Enabling the joint in hand, or taking its power off, and raising.
LEMMA StillRaise ==
  ASSUME HomingInv, todo # <<>>, Raise, Rest, NEW r \in Axes, Still(r),
         r.zero = axis[j0].zero, r.lo = axis[j0].lo,
         axis' = [axis EXCEPT ![j0] = r], Now.op # "restore"
  PROVE  HomingInv'
<1>1. Local(r)
  BY HeadFacts, RestIs, LocalTo
<1>2. QED BY <1>1, RestIs, RaiseStep DEF Raise

LEMMA MoveKeeps ==
  ASSUME HomingInv, Move
  PROVE  HomingInv'
<1>1. todo # <<>> /\ Now.op = "move" /\ Rest
  BY DEF Move, At
<1>2. TypeOK /\ Now \in Operation /\ j0 \in Joint /\ Now.arg \in Int /\ StackInv
  BY <1>1, HeadFacts DEF Operation
<1>. DEFINE e == Limited(j0, Here)
            a == Enabled(j0)
            r == [Enabled(j0) EXCEPT !.target = Now.arg]
            c == Counter(j0) + Now.arg
            s == Handshake("relative", e) \o (IF Now.kind = "wait" THEN <<Reach(c, e)>> ELSE <<>>)
<1>3. /\ a \in Axes /\ Still(a) /\ a.zero = axis[j0].zero /\ a.lo = axis[j0].lo
      /\ r \in Axes /\ Still(r) /\ InPosition(r) /\ r.zero = axis[j0].zero /\ r.lo = axis[j0].lo
  BY <1>2, EnabledIs
<1>4. \/ axis' = [axis EXCEPT ![j0] = a] /\ Raise
      \/ axis' = [axis EXCEPT ![j0] = r] /\ Call(s)
  BY DEF Move
<1>5. e \in BOOLEAN /\ c \in Int
  <2>1. axis[j0] \in Axes
    BY <1>2 DEF TypeOK
  <2>2. Counter(j0) \in Int
    BY <2>1 DEF Counter, Axes, Place
  <2>3. QED BY <1>2, <2>2 DEF Limited, NegLimit, PosLimit, On, SoftNeg, SoftPos
<1>. HIDE DEF a, r, e, c
<1>6. Body(Now, s) /\ s[1].op = "ready" /\ s[1].joint = j0
  BY <1>1, <1>2, <1>5, MoveBody
<1>. HIDE DEF s
<1>7. CASE axis' = [axis EXCEPT ![j0] = a] /\ Raise
  BY <1>1, <1>3, <1>7, StillRaise
<1>8. CASE axis' = [axis EXCEPT ![j0] = r] /\ Call(s)
  <2>1. Local(r)
    BY <1>1, <1>2, <1>3, <1>8, RestIs, LocalTo
  <2>2. \A i \in 1 .. Len(s) : s[i].op # "restore"
    BY <1>1, <1>6 DEF Body
  <2>3. Now.op \notin Exempt /\ Now.op \notin AfterOps
    BY <1>1 DEF Exempt, AfterOps, UnderRest
  <2>4. QED BY <1>1, <1>3, <1>6, <1>8, <2>1, <2>2, <2>3, RestIs, CallStep
<1>9. QED BY <1>4, <1>7, <1>8

LEMMA EnableFailsKeeps ==
  ASSUME HomingInv, EnableFails
  PROVE  HomingInv'
<1>1. /\ todo # <<>> /\ Now.op \in {"move", "goto", "hold"} /\ Rest /\ Raise
      /\ axis' = [axis EXCEPT ![j0] = Unpowered(j0)]
  BY DEF EnableFails, At
<1>2. TypeOK /\ j0 \in Joint
  BY <1>1, HeadFacts
<1>. DEFINE r == Unpowered(j0)
<1>3. r \in Axes /\ Still(r) /\ r.zero = axis[j0].zero /\ r.lo = axis[j0].lo
  BY <1>2, UnpoweredIs
<1>. HIDE DEF r
<1>4. axis' = [axis EXCEPT ![j0] = r]
  BY <1>1 DEF r
<1>5. QED BY <1>1, <1>3, <1>4, StillRaise

LEMMA ReadyKeeps ==
  ASSUME HomingInv, Ready
  PROVE  HomingInv'
<1>1. todo # <<>> /\ Now.op = "ready" /\ Rest
  BY DEF Ready, At
<1>2. CASE Raise /\ axis' = axis
  BY <1>1, <1>2, RestIs, QuietRaise DEF Raise
<1>3. CASE Return /\ axis' = [axis EXCEPT ![j0].start = TRUE, ![j0].relative = (Now.kind = "relative")]
  <2>. DEFINE r == [axis[j0] EXCEPT !.start = TRUE, !.relative = (Now.kind = "relative")]
  <2>1. TypeOK /\ StackInv /\ j0 \in Joint /\ axis[j0] \in Axes /\ (~Standalone => InPosition(axis[j0]))
    BY <1>1, HeadFacts DEF HeadOK
  <2>2. r \in Axes /\ axis' = [axis EXCEPT ![j0] = r]
    BY <1>3, <2>1 DEF Axes, TypeOK
  <2>3. r.zero = axis[j0].zero /\ r.lo = axis[j0].lo /\ (~Standalone => InPosition(r))
    BY <2>1 DEF Axes, InPosition
  <2>. HIDE DEF r
  <2>4. Local(r)
    BY <1>1, <2>1, <2>2, RestIs, LocalTo
  <2>5. ~Starter(Now) /\ ~DirectedSeek(Now) /\ Now.op \in Active
    BY <1>1 DEF Starter, DirectedSeek, Active
  <2>6. QED BY <1>1, <1>3, <2>3, <2>4, <2>5, RestIs, ReturnStep
<1>4. QED BY <1>2, <1>3 DEF Ready

LEMMA LatchedKeeps ==
  ASSUME HomingInv, Latched
  PROVE  HomingInv'
<1>1. todo # <<>> /\ Now.op = "latched" /\ Rest
  BY DEF Latched, At
<1>2. CASE Raise /\ axis' = axis
  BY <1>1, <1>2, RestIs, QuietRaise DEF Raise
<1>3. CASE Return /\ axis' = [axis EXCEPT ![j0].start = FALSE, ![j0].relative = FALSE]
  <2>. DEFINE r == [axis[j0] EXCEPT !.start = FALSE, !.relative = FALSE]
  <2>1. TypeOK /\ StackInv /\ j0 \in Joint /\ axis[j0] \in Axes /\ (~Standalone => InPosition(axis[j0]))
    BY <1>1, HeadFacts DEF HeadOK
  <2>2. r \in Axes /\ axis' = [axis EXCEPT ![j0] = r]
    BY <1>3, <2>1 DEF Axes, TypeOK
  <2>3. r.zero = axis[j0].zero /\ r.lo = axis[j0].lo /\ ~r.start /\ (~Standalone => InPosition(r))
    BY <2>1 DEF Axes, InPosition
  <2>. HIDE DEF r
  <2>4. Local(r)
    BY <1>1, <2>1, <2>2, RestIs, LocalTo
  <2>5. ~Starter(Now) /\ ~DirectedSeek(Now) /\ Now.op \in Active
    BY <1>1 DEF Starter, DirectedSeek, Active
  <2>6. QED BY <1>1, <1>3, <2>3, <2>4, <2>5, RestIs, ReturnStep
<1>4. QED BY <1>2, <1>3 DEF Latched

LEMMA ReleasedKeeps ==
  ASSUME HomingInv, Released
  PROVE  HomingInv'
<1>1. todo # <<>> /\ Now.op = "released" /\ Rest /\ axis' = axis
  BY DEF Released, At
<1>2. CASE Raise
  BY <1>1, <1>2, RestIs, QuietRaise DEF Raise
<1>3. CASE Return
  BY <1>1, <1>3, QuietReturn
<1>4. QED BY <1>2, <1>3 DEF Released

LEMMA HaltKeeps ==
  ASSUME HomingInv, Halt
  PROVE  HomingInv'
<1>1. /\ todo # <<>> /\ Now.op \in {"halt", "soft_halt"} /\ Rest
      /\ \E p \in RestingPlaces(j0) : axis' = [axis EXCEPT ![j0] = Halted(j0, p)]
      /\ Return \/ Raise
  BY DEF Halt, At, Expect
<1>2. TypeOK /\ StackInv /\ j0 \in Joint
  BY <1>1, HeadFacts
<1>3. PICK p \in RestingPlaces(j0) : axis' = [axis EXCEPT ![j0] = Halted(j0, p)]
  BY <1>1
<1>. DEFINE r == Halted(j0, p)
<1>4. r \in Axes /\ Still(r) /\ r.zero = axis[j0].zero /\ r.lo = axis[j0].lo
  BY <1>2, HaltedIs
<1>. HIDE DEF r
<1>5. axis' = [axis EXCEPT ![j0] = r]
  BY <1>3 DEF r
<1>6. CASE Raise
  BY <1>1, <1>4, <1>5, <1>6, StillRaise
<1>7. CASE Return
  <2>1. Local(r)
    BY <1>1, <1>2, <1>4, <1>5, RestIs, LocalTo
  <2>2. ~Starter(Now) /\ ~DirectedSeek(Now)
    BY <1>1 DEF Starter, DirectedSeek
  <2>3. QED BY <1>1, <1>4, <1>7, <2>1, <2>2, RestIs, ReturnStep
<1>8. QED BY <1>1, <1>6, <1>7

LEMMA SoftHaltEndsKeeps ==
  ASSUME HomingInv, SoftHaltEnds
  PROVE  HomingInv'
<1>1. todo # <<>> /\ Now.op = "resume" /\ Rest /\ Return /\ axis' = [axis EXCEPT ![j0].halt = FALSE]
  BY DEF SoftHaltEnds, At
<1>. DEFINE r == [axis[j0] EXCEPT !.halt = FALSE]
<1>2. TypeOK /\ StackInv /\ j0 \in Joint /\ axis[j0] \in Axes
  BY <1>1, HeadFacts
<1>3. r \in Axes /\ axis' = [axis EXCEPT ![j0] = r]
  BY <1>1, <1>2 DEF Axes, TypeOK
<1>4. /\ r.zero = axis[j0].zero /\ r.lo = axis[j0].lo /\ r.start = axis[j0].start
      /\ InPosition(axis[j0]) => InPosition(r)
  BY <1>2 DEF Axes, InPosition
<1>. HIDE DEF r
<1>5. Local(r)
  BY <1>1, <1>2, <1>3, RestIs, LocalTo
<1>6. ~Starter(Now) /\ ~DirectedSeek(Now) /\ Now.op \in Active
  BY <1>1 DEF Starter, DirectedSeek, Active
<1>7. QED BY <1>1, <1>4, <1>5, <1>6, RestIs, ReturnStep

\* A wait forgets that the joint was to leave its limit.
LEMMA EscapeIs ==
  ASSUME TypeOK, StackInv, todo # <<>>, todo' = [todo EXCEPT ![1].escape = FALSE]
  PROVE  /\ todo' \in Seq(Operation) /\ Len(todo') = Len(todo) /\ todo' # <<>>
         /\ Now'.op = Now.op /\ Now'.joint = Now.joint /\ Now'.kind = Now.kind
         /\ Now' = todo'[1]
         /\ \A i \in 1 .. Len(todo) : i # 1 => todo'[i] = todo[i]
         /\ \A i \in 1 .. Len(todo) : /\ todo'[i].op = todo[i].op /\ todo'[i].joint = todo[i].joint
                                      /\ todo'[i].kind = todo[i].kind /\ todo'[i].arg = todo[i].arg
<1>1. todo \in Seq(Operation) /\ Len(todo) \in Nat /\ Len(todo) >= 1 /\ Now = todo[1] /\ todo[1] \in Operation
  BY HeadIs
<1>. DEFINE o == [todo[1] EXCEPT !.escape = FALSE]
<1>2. todo' = [todo EXCEPT ![1] = o]
  BY <1>1
<1>3. /\ o \in Operation /\ o.op = todo[1].op /\ o.joint = todo[1].joint /\ o.kind = todo[1].kind
      /\ o.arg = todo[1].arg
  BY <1>1 DEF Operation
<1>. HIDE DEF o
<1>4. /\ todo' \in Seq(Operation) /\ Len(todo') = Len(todo)
      /\ \A i \in 1 .. Len(todo) : todo'[i] = IF i = 1 THEN o ELSE todo[i]
  <2>1. 1 \in 1 .. Len(todo) /\ o \in Operation
    BY <1>1, <1>3
  <2>. DEFINE s == [todo EXCEPT ![1] = o]
  <2>2. /\ s \in Seq(Operation) /\ Len(s) = Len(todo)
        /\ \A i \in 1 .. Len(todo) : s[i] = IF i = 1 THEN o ELSE todo[i]
    BY <1>1, <2>1, ExceptSeq
  <2>3. QED BY <1>2, <2>2
<1>5. todo' # <<>> /\ Now' = todo'[1]
  BY <1>1, <1>4 DEF Now
<1>6. QED BY <1>1, <1>3, <1>4, <1>5

LEMMA EscapeStack ==
  ASSUME TypeOK, StackInv, todo # <<>>, todo' = [todo EXCEPT ![1].escape = FALSE],
         raised' = raised, result' = result
  PROVE  StackInv'
<1>1. /\ todo' \in Seq(Operation) /\ Len(todo') = Len(todo) /\ todo' # <<>>
      /\ \A i \in 1 .. Len(todo) : i # 1 => todo'[i] = todo[i]
      /\ \A i \in 1 .. Len(todo) : /\ todo'[i].op = todo[i].op /\ todo'[i].joint = todo[i].joint
                                   /\ todo'[i].kind = todo[i].kind
  BY EscapeIs
<1>2. Len(todo) \in Nat /\ Len(todo) >= 1 /\ StackOK(todo) /\ result = "running"
  BY HeadIs DEF StackInv
<1>3. Linked(todo')
  <2>. SUFFICES ASSUME NEW i \in 1 .. Len(todo) - 1 PROVE Follows(todo'[i], todo'[i + 1])
    BY <1>1 DEF Linked
  <2>. DEFINE a == todo[i]   b == todo[i + 1]   c == todo'[i]   d == todo'[i + 1]
  <2>1. Follows(a, b)
    BY <1>2 DEF StackOK, Linked
  <2>2. d = b
    BY <1>1, <1>2
  <2>3. c.op = a.op /\ c.joint = a.joint /\ c.kind = a.kind
    BY <1>1, <1>2
  <2>. HIDE DEF a, b, c, d
  <2>4. Follows(c, b)
    BY <2>1, <2>3 DEF Follows, Starter, DirectedSeek, Covers
  <2>5. QED BY <2>2, <2>4 DEF c, d
<1>4. \A i, k \in 1 .. Len(todo') : i < k => Above(todo'[i], todo'[k])
  BY <1>1, <1>2 DEF StackOK, Above
<1>5. \A i \in 1 .. Len(todo') : Opens(todo'[i]) => i # Len(todo')
  BY <1>1, <1>2 DEF StackOK, Opens, Starter, DirectedSeek
<1>6. StackOK(todo')
  BY <1>1, <1>3, <1>4, <1>5 DEF StackOK
<1>7. QED BY <1>1, <1>2, <1>6 DEF StackInv

LEMMA EscapeStep ==
  ASSUME HomingInv, todo # <<>>, Now.op = "reach", Rest, axis' = axis, raised' = raised,
         todo' = [todo EXCEPT ![1].escape = FALSE]
  PROVE  HomingInv'
<1>1. /\ TypeOK /\ StackInv /\ RestInv /\ LimitsInv /\ RefInv /\ ClearInv
      /\ result' = result /\ unrestored' = unrestored /\ sampled' \in 0 .. Last + 1
  BY RestIs DEF HomingInv
<1>2. /\ Len(todo') = Len(todo) /\ todo' # <<>>
      /\ Now'.op = Now.op /\ Now'.joint = Now.joint
      /\ \A i \in 1 .. Len(todo) : /\ todo'[i].op = todo[i].op /\ todo'[i].joint = todo[i].joint
                                   /\ todo'[i].kind = todo[i].kind /\ todo'[i].arg = todo[i].arg
  BY <1>1, EscapeIs
<1>3. TypeOK'
  BY <1>1 DEF TypeOK
<1>4. StackInv'
  BY <1>1, EscapeStack
<1>5. j0' = j0 /\ Now'.op = "reach"
  BY <1>2 DEF j0
<1>6. RestInv'
  BY <1>1, <1>2, <1>5 DEF RestInv, AtRest, HeadOK
<1>7. LimitsInv'
  <2>1. ~At("extend")'
    BY <1>5 DEF At
  <2>2. QED BY <1>1, <1>2, <2>1 DEF LimitsInv
<1>8. RefInv'
  <2>1. Ends(todo) => Ends(todo')
    BY <1>2 DEF Ends
  <2>2. (\A i \in 1 .. Len(todo) : todo[i].op \in AfterOps) => \A i \in 1 .. Len(todo') : todo'[i].op \in AfterOps
    BY <1>2
  <2>3. QED BY <1>1, <2>1, <2>2 DEF RefInv, Done, Referenced
<1>9. ClearInv'
  BY <1>1, <1>2, <1>5
     DEF ClearInv, AtRest, Covered, AtBoundary, NegLimit, PosLimit, On, SoftNeg, SoftPos
<1>10. PowerInv'
  BY <1>1, PowerKept
<1>11. QED BY <1>3, <1>4, <1>6, <1>7, <1>8, <1>9, <1>10 DEF HomingInv

LEMMA AwaitTargetKeeps ==
  ASSUME HomingInv, AwaitTarget
  PROVE  HomingInv'
<1>1. todo # <<>> /\ Now.op = "reach" /\ Rest /\ axis' = axis
  BY DEF AwaitTarget, At
<1>2. CASE Raise
  BY <1>1, <1>2, RestIs, QuietRaise DEF Raise
<1>3. CASE Reached /\ Return
  BY <1>1, <1>3, QuietReturn DEF Reached, Here
<1>4. CASE Call(<<Op("soft_halt", j0), Op("resume", j0)>> \o GiveUp)
  <2>. DEFINE s == <<Op("soft_halt", j0), Op("resume", j0)>> \o GiveUp
              r == axis[j0]
  <2>1. TypeOK /\ StackInv /\ Now \in Operation /\ RefInv /\ (~Standalone => ~r.start /\ InPosition(r))
    BY <1>1, HeadFacts DEF HeadOK, HomingInv
  <2>2. Body(Now, s) /\ s[1].op = "soft_halt" /\ s[1].joint = j0
    BY <1>1, <2>1, AwaitBody
  <2>. HIDE DEF s
  <2>3. Call(s)
    BY <1>4 DEF s
  <2>4. Local(r)
    BY <1>1, HeadFacts, RestIs, LocalSame
  <2>. HIDE DEF r
  <2>5. r = axis[j0]
    BY DEF r
  <2>6. \A i \in 1 .. Len(s) : s[i].op # "restore"
    BY <1>1, <2>2 DEF Body
  <2>7. Now.op \notin Exempt /\ s[1].op \in Moving
    BY <1>1, <2>2 DEF Exempt, Moving
  <2>8. QED BY <1>1, <2>1, <2>2, <2>3, <2>4, <2>5, <2>6, <2>7, RestIs, CallStep
<1>5. CASE todo' = [todo EXCEPT ![1].escape = FALSE] /\ raised' = raised
  BY <1>1, <1>5, EscapeStep
<1>6. QED BY <1>2, <1>3, <1>4, <1>5 DEF AwaitTarget

LEMMA MoveJointKeeps ==
  ASSUME HomingInv, MoveJoint
  PROVE  HomingInv'
<1>1. todo # <<>> /\ Now.op = "goto" /\ Rest
  BY DEF MoveJoint, At
<1>2. TypeOK /\ Now \in Operation /\ j0 \in Joint /\ Now.arg \in Int /\ StackInv
  BY <1>1, HeadFacts DEF Operation
<1>. DEFINE e == Limited(j0, Here)
            c == IF e THEN Toward(Counter(j0), Now.arg) ELSE Now.arg
            a == Enabled(j0)
            r == [Enabled(j0) EXCEPT !.target = c]
            s == Handshake("absolute", e) \o <<Reach(c, e)>>
                   \o (IF e THEN <<[Now EXCEPT !.op = "goto_rest"]>> ELSE <<>>)
<1>3. e \in BOOLEAN /\ c \in Int
  <2>1. axis[j0] \in Axes
    BY <1>2 DEF TypeOK
  <2>2. Counter(j0) \in Int
    BY <2>1 DEF Counter, Axes, Place
  <2>3. EscapeDistance \in Int
    BY HomingAssumption DEF HomingConfigOK
  <2>4. QED BY <1>2, <2>2, <2>3 DEF Limited, NegLimit, PosLimit, On, SoftNeg, SoftPos, Toward
<1>4. \/ axis' = [axis EXCEPT ![j0] = a] /\ (Raise \/ Return)
      \/ axis' = [axis EXCEPT ![j0] = r] /\ Call(s)
  BY DEF MoveJoint, Expect
<1>5. /\ a \in Axes /\ Still(a) /\ a.zero = axis[j0].zero /\ a.lo = axis[j0].lo
      /\ r \in Axes /\ Still(r) /\ InPosition(r) /\ r.zero = axis[j0].zero /\ r.lo = axis[j0].lo
  BY <1>2, <1>3, EnabledIs
<1>. HIDE DEF a, r, e, c
<1>6. Body(Now, s) /\ s[1].op = "ready" /\ s[1].joint = j0
  BY <1>1, <1>2, <1>3, GotoBody
<1>. HIDE DEF s
<1>7. CASE axis' = [axis EXCEPT ![j0] = a] /\ Raise
  BY <1>1, <1>5, <1>7, StillRaise
<1>8. CASE axis' = [axis EXCEPT ![j0] = a] /\ Return
  <2>1. Local(a)
    BY <1>1, <1>2, <1>5, <1>8, RestIs, LocalTo
  <2>2. ~Starter(Now) /\ ~DirectedSeek(Now)
    BY <1>1 DEF Starter, DirectedSeek
  <2>3. QED BY <1>1, <1>5, <1>8, <2>1, <2>2, RestIs, ReturnStep
<1>9. CASE axis' = [axis EXCEPT ![j0] = r] /\ Call(s)
  <2>1. Local(r)
    BY <1>1, <1>2, <1>5, <1>9, RestIs, LocalTo
  <2>2. \A i \in 1 .. Len(s) : s[i].op # "restore"
    BY <1>1, <1>6 DEF Body
  <2>3. Now.op \notin Exempt
    BY <1>1 DEF Exempt
  <2>4. QED BY <1>1, <1>5, <1>6, <1>9, <2>1, <2>2, <2>3, RestIs, CallStep
<1>10. QED BY <1>4, <1>7, <1>8, <1>9

LEMMA MoveJointRestKeeps ==
  ASSUME HomingInv, MoveJointRest
  PROVE  HomingInv'
<1>1. todo # <<>> /\ Now.op = "goto_rest" /\ Rest
  BY DEF MoveJointRest, At
<1>2. /\ TypeOK /\ Now \in Operation /\ j0 \in Joint /\ Now.arg \in Int /\ StackInv /\ axis[j0] \in Axes
      /\ ~Standalone => Still(axis[j0]) /\ InPosition(axis[j0])
  BY <1>1, HeadFacts DEF Operation, HeadOK, Moving
<1>3. CASE Return /\ axis' = axis
  BY <1>1, <1>3, QuietReturn
<1>. DEFINE r == [axis[j0] EXCEPT !.target = Now.arg]
            s == Handshake("absolute", FALSE) \o <<Reach(Now.arg, FALSE)>>
<1>4. CASE axis' = [axis EXCEPT ![j0].target = Now.arg] /\ Call(s)
  <2>1. r \in Axes /\ axis' = [axis EXCEPT ![j0] = r]
    BY <1>2, <1>4 DEF Axes, TypeOK
  <2>2. r.zero = axis[j0].zero /\ r.lo = axis[j0].lo /\ (~Standalone => Still(r) /\ InPosition(r))
    BY <1>2 DEF Axes, Still, InPosition
  <2>. HIDE DEF r
  <2>3. Body(Now, s) /\ s[1].op = "ready" /\ s[1].joint = j0
    BY <1>1, <1>2, GotoRestBody
  <2>. HIDE DEF s
  <2>4. Local(r)
    BY <1>1, <1>2, <2>1, RestIs, LocalTo
  <2>5. \A i \in 1 .. Len(s) : s[i].op # "restore"
    BY <1>1, <2>3 DEF Body
  <2>6. Now.op \notin Exempt
    BY <1>1 DEF Exempt
  <2>7. QED BY <1>1, <1>4, <2>2, <2>3, <2>4, <2>5, <2>6, RestIs, CallStep
<1>5. QED BY <1>3, <1>4 DEF MoveJointRest

-----------------------------------------------------------------------------
(***************************************************************************)
(* Searching.                                                              *)
(***************************************************************************)
\* A step that changes nothing but the sample.
LEMMA QuietStep ==
  ASSUME HomingInv, axis' = axis, todo' = todo, raised' = raised, result' = result,
         unrestored' = unrestored, sampled' \in 0 .. Last + 1
  PROVE  HomingInv'
<1>1. /\ TypeOK /\ StackInv /\ RestInv /\ LimitsInv /\ RefInv /\ ClearInv /\ PowerInv
      /\ Now' = Now /\ j0' = j0
  BY DEF HomingInv, Now, j0
<1>2. TypeOK'
  BY <1>1 DEF TypeOK
<1>3. StackInv'
  BY <1>1 DEF StackInv
<1>4. RestInv'
  BY <1>1 DEF RestInv, AtRest, HeadOK
<1>5. LimitsInv'
  BY <1>1 DEF LimitsInv, At
<1>6. RefInv'
  BY <1>1 DEF RefInv, Done, Referenced
<1>7. ClearInv'
  BY <1>1 DEF ClearInv, AtRest, AtBoundary, NegLimit, PosLimit, On, SoftNeg, SoftPos
<1>8. PowerInv'
  BY <1>1 DEF PowerInv
<1>9. QED BY <1>2, <1>3, <1>4, <1>5, <1>6, <1>7, <1>8 DEF HomingInv

LEMMA FirstReadKeeps ==
  ASSUME HomingInv, FirstRead
  PROVE  HomingInv'
<1>1. todo # <<>>
  BY DEF FirstRead, At
<1>2. axis[j0].pos \in Place /\ Last \in Nat
  BY <1>1, HeadFacts, AxisAssumption DEF Axes
<1>3. sampled' \in 0 .. Last + 1
  BY <1>2 DEF FirstRead, Here, Place
<1>4. QED BY <1>3, QuietStep DEF FirstRead

\* A search is over and its joint is halted.
LEMMA SeekHalts ==
  ASSUME HomingInv, todo # <<>>, Now.op = "seek", NEW rest \in {<<>>, GiveUp}, Halting(rest),
         axis' = axis, result' = result, unrestored' = unrestored, sampled' = NotRead
  PROVE  HomingInv'
<1>. DEFINE s == <<Op("halt", j0)>> \o rest
            r == axis[j0]
<1>1. /\ TypeOK /\ StackInv /\ Now \in Operation /\ sampled' \in 0 .. Last + 1
  BY HeadFacts, AxisAssumption DEF NotRead
<1>2. Body(Now, s) /\ s[1].op = "halt" /\ s[1].joint = j0
  BY <1>1, HaltBody
<1>. HIDE DEF s
<1>3. Call(s)
  BY DEF Halting, s
<1>4. Local(r)
  BY <1>1, LocalSame
<1>. HIDE DEF r
<1>5. r = axis[j0]
  BY DEF r
<1>6. \A i \in 1 .. Len(s) : s[i].op # "restore"
  BY <1>2 DEF Body
<1>7. s[1].op \in Moving /\ Now.op \notin Exempt /\ Now.op \notin AfterOps
  BY <1>2 DEF Moving, Exempt, AfterOps, UnderRest
<1>8. QED BY <1>1, <1>2, <1>3, <1>4, <1>5, <1>6, <1>7, CallStep

\* A directed search that finds its switch leaves out what follows it.
LEMMA FoundIs ==
  ASSUME TypeOK, StackInv, todo # <<>>, DirectedSeek(Now), raised = "no",
         todo' = <<Op("halt", j0)>> \o Tail(Tail(todo))
  PROVE  /\ todo' \in Seq(Operation) /\ todo' # <<>> /\ Now' = todo'[1]
         /\ Len(todo) >= 2 /\ todo[2].op \in {"reverse", "give_up"} /\ todo[2].joint = j0
         /\ Len(todo') = Len(todo) - 1
         /\ Is(todo'[1], "halt", j0, "-")
         /\ \A i \in 2 .. Len(todo') : todo'[i] = todo[i + 1]
<1>. DEFINE h == Op("halt", j0)
            t == Tail(todo)
            u == Tail(Tail(todo))
<1>1. todo \in Seq(Operation) /\ Len(todo) \in Nat /\ Now = todo[1] /\ StackOK(todo) /\ j0 \in Joint
  BY HeadIs DEF StackInv
<1>2. Len(todo) >= 2 /\ Follows(todo[1], todo[2])
  <2>1. Len(todo) # 1
    BY <1>1 DEF StackOK, Opens
  <2>2. Len(todo) >= 2
    BY <1>1, <2>1
  <2>3. QED BY <2>2, <1>1 DEF StackOK, Linked
<1>3. Is(h, "halt", j0, "-")
  BY <1>1, OpIs DEF Names
<1>4. /\ t \in Seq(Operation) /\ Len(t) = Len(todo) - 1 /\ t # <<>>
      /\ \A i \in 1 .. Len(todo) - 1 : t[i] = todo[i + 1]
  <2>1. /\ t \in Seq(Operation) /\ Len(t) = Len(todo) - 1
        /\ \A i \in 1 .. Len(todo) - 1 : t[i] = todo[i + 1]
    BY <1>1, TailOf
  <2>. HIDE DEF t
  <2>2. t # <<>>
    BY <1>1, <1>2, <2>1
  <2>3. QED BY <2>1, <2>2
<1>. HIDE DEF t, h
<1>5. /\ u \in Seq(Operation) /\ Len(u) = Len(todo) - 2
      /\ \A i \in 1 .. Len(todo) - 2 : u[i] = t[i + 1]
  <2>1. u = Tail(t)
    BY DEF t
  <2>2. /\ Tail(t) \in Seq(Operation) /\ Len(Tail(t)) = Len(t) - 1
        /\ \A i \in 1 .. Len(t) - 1 : Tail(t)[i] = t[i + 1]
    BY <1>4, TailOf
  <2>3. Len(t) - 1 = Len(todo) - 2
    BY <1>1, <1>4
  <2>4. QED BY <2>1, <2>2, <2>3
<1>6. todo' = <<h>> \o u
  BY DEF h
<1>. HIDE DEF u
<1>7. <<h>> \in Seq(Operation) /\ Len(<<h>>) = 1 /\ <<h>>[1] = h
  BY <1>3 DEF Is
<1>8. /\ todo' \in Seq(Operation) /\ Len(todo') = 1 + Len(u) /\ todo'[1] = h
      /\ \A i \in 1 .. Len(u) : todo'[1 + i] = u[i]
  <2>. DEFINE v == <<h>>
  <2>1. v \in Seq(Operation) /\ Len(v) = 1 /\ v[1] = h /\ todo' = v \o u
    BY <1>6, <1>7
  <2>. HIDE DEF v
  <2>2. /\ v \o u \in Seq(Operation) /\ Len(v \o u) = Len(v) + Len(u)
        /\ \A i \in 1 .. Len(v) : (v \o u)[i] = v[i]
        /\ \A i \in 1 .. Len(u) : (v \o u)[Len(v) + i] = u[i]
    BY <1>5, <2>1, Joined
  <2>3. todo' = v \o u /\ Len(v) = 1
    BY <2>1
  <2>4. \A i \in 1 .. Len(u) : (v \o u)[1 + i] = u[i]
    BY <2>2, <2>3
  <2>5. (v \o u)[1] = h
    <3>1. \A i \in 1 .. 1 : (v \o u)[i] = v[i]
      BY <2>2, <2>3
    <3>2. QED BY <2>1, <3>1
  <2>6. QED BY <2>2, <2>3, <2>4, <2>5
<1>9. \A i \in 2 .. Len(todo') : todo'[i] = todo[i + 1]
  <2>. SUFFICES ASSUME NEW i \in 2 .. Len(todo') PROVE todo'[i] = todo[i + 1]
    OBVIOUS
  <2>1. i - 1 \in 1 .. Len(u) /\ 1 + (i - 1) = i /\ (i - 1) + 1 = i
    BY <1>1, <1>5, <1>8
  <2>2. todo'[i] = u[i - 1]
    BY <1>8, <2>1
  <2>3. u[i - 1] = t[i]
    BY <1>5, <2>1
  <2>4. t[i] = todo[i + 1]
    BY <1>1, <1>4, <1>5, <1>8
  <2>5. QED BY <2>2, <2>3, <2>4
<1>10. todo' # <<>> /\ Now' = todo'[1]
  BY <1>5, <1>8 DEF Now
<1>11. todo[2].op \in {"reverse", "give_up"} /\ todo[2].joint = j0
  BY <1>1, <1>2 DEF Follows, j0
<1>12. Len(todo') = Len(todo) - 1 /\ Is(todo'[1], "halt", j0, "-")
  BY <1>1, <1>3, <1>5, <1>8
<1>13. QED BY <1>2, <1>8, <1>9, <1>10, <1>11, <1>12

LEMMA FoundStack ==
  ASSUME TypeOK, StackInv, todo # <<>>, DirectedSeek(Now), raised = "no", raised' = raised,
         result' = result, todo' = <<Op("halt", j0)>> \o Tail(Tail(todo))
  PROVE  StackInv'
<1>1. /\ todo' \in Seq(Operation)
      /\ Len(todo) >= 2 /\ todo[2].op \in {"reverse", "give_up"} /\ todo[2].joint = j0
      /\ Len(todo') = Len(todo) - 1
      /\ Is(todo'[1], "halt", j0, "-")
      /\ \A i \in 2 .. Len(todo') : todo'[i] = todo[i + 1]
  BY FoundIs
<1>2. /\ todo \in Seq(Operation) /\ Len(todo) \in Nat /\ Now = todo[1] /\ StackOK(todo) /\ result = "running"
      /\ todo[1].op = "seek" /\ todo[1].joint = j0
  BY HeadIs DEF StackInv, DirectedSeek, j0
<1>3. Len(todo) >= 3 => Follows(todo'[1], todo[3])
  <2>. SUFFICES ASSUME Len(todo) >= 3 PROVE Follows(todo'[1], todo[3])
    OBVIOUS
  <2>. DEFINE a == todo[2]   b == todo[3]   h == todo'[1]
  <2>1. Follows(a, b)
    BY <1>2 DEF StackOK, Linked
  <2>2. Above(todo[1], b)
    BY <1>2 DEF StackOK
  <2>3. b.op # "goto_rest"
    BY <1>2, <2>2 DEF Above, UnderRest
  <2>4. a.op \in {"reverse", "give_up"} /\ a.joint = j0 /\ Is(h, "halt", j0, "-")
    BY <1>1
  <2>. HIDE DEF a, b, h
  <2>5. Follows(h, b)
    BY <2>1, <2>3, <2>4 DEF Follows, Covers, Covered, Exempt, Starter, DirectedSeek, Active, Is
  <2>6. QED BY <2>5 DEF h, b
<1>4. Linked(todo')
  <2>. SUFFICES ASSUME NEW i \in 1 .. Len(todo') - 1 PROVE Follows(todo'[i], todo'[i + 1])
    BY DEF Linked
  <2>1. CASE i = 1
    <3>1. todo'[2] = todo[3] /\ Len(todo) >= 3
      BY <1>1, <1>2, <2>1
    <3>2. QED BY <1>3, <2>1, <3>1
  <2>2. CASE i # 1
    <3>1. Len(todo') = Len(todo) - 1 /\ Len(todo) \in Nat /\ i \in 1 .. Len(todo') - 1
      BY <1>1, <1>2
    <3>2. i \in 2 .. Len(todo') /\ i + 1 \in 2 .. Len(todo') /\ i + 1 \in 1 .. Len(todo) - 1
      BY <3>1, <2>2
    <3>3. todo'[i] = todo[i + 1] /\ todo'[i + 1] = todo[(i + 1) + 1] /\ i + 1 \in 1 .. Len(todo) - 1
      BY <1>1, <3>2
    <3>4. Follows(todo[i + 1], todo[(i + 1) + 1])
      BY <1>2, <3>3 DEF StackOK, Linked
    <3>5. QED BY <3>3, <3>4
  <2>3. QED BY <2>1, <2>2
<1>5. \A i, k \in 1 .. Len(todo') : i < k => Above(todo'[i], todo'[k])
  <2>. SUFFICES ASSUME NEW i \in 1 .. Len(todo'), NEW k \in 1 .. Len(todo'), i < k
                PROVE  Above(todo'[i], todo'[k])
    OBVIOUS
  <2>1. k \in 2 .. Len(todo') /\ k + 1 \in 1 .. Len(todo) /\ 1 < k + 1
    BY <1>1, <1>2
  <2>2. todo'[k] = todo[k + 1] /\ k + 1 \in 1 .. Len(todo) /\ 1 < k + 1
    BY <1>1, <2>1
  <2>3. CASE i = 1
    <3>1. 1 \in 1 .. Len(todo)
      BY <1>1, <1>2
    <3>2. Above(todo[1], todo[k + 1])
      BY <1>2, <2>2, <3>1 DEF StackOK
    <3>3. Above(todo'[1], todo'[k])
      BY <1>1, <1>2, <2>2, <3>2 DEF Above, Is, Inner, UnderRest
    <3>4. QED BY <2>3, <3>3
  <2>4. CASE i # 1
    <3>1. Len(todo') = Len(todo) - 1 /\ Len(todo) \in Nat
      BY <1>1, <1>2
    <3>2. i \in 2 .. Len(todo') /\ i + 1 \in 1 .. Len(todo) /\ i + 1 < k + 1
      BY <2>4, <3>1
    <3>3. todo'[i] = todo[i + 1]
      BY <1>1, <3>2
    <3>4. QED BY <1>2, <2>2, <3>2, <3>3 DEF StackOK
  <2>5. QED BY <2>3, <2>4
<1>6. \A i \in 1 .. Len(todo') : Opens(todo'[i]) => i # Len(todo')
  <2>. SUFFICES ASSUME NEW i \in 1 .. Len(todo'), Opens(todo'[i]) PROVE i # Len(todo')
    OBVIOUS
  <2>1. i # 1
    BY <1>1 DEF Opens, Is, Active, DirectedSeek, Starter
  <2>2. todo'[i] = todo[i + 1] /\ i + 1 \in 1 .. Len(todo)
    BY <1>1, <1>2, <2>1
  <2>3. i + 1 # Len(todo)
    BY <1>2, <2>2 DEF StackOK
  <2>4. QED BY <1>1, <1>2, <2>3
<1>7. StackOK(todo')
  BY <1>1, <1>4, <1>5, <1>6 DEF StackOK
<1>8. QED BY <1>2, <1>7 DEF StackInv

LEMMA FoundStep ==
  ASSUME HomingInv, todo # <<>>, DirectedSeek(Now), raised' = raised, axis' = axis, result' = result,
         unrestored' = unrestored, sampled' \in 0 .. Last + 1,
         todo' = <<Op("halt", j0)>> \o Tail(Tail(todo))
  PROVE  HomingInv'
<1>. DEFINE r == axis[j0]
<1>1. /\ TypeOK /\ StackInv /\ RestInv /\ LimitsInv /\ RefInv /\ ClearInv
      /\ Now \in Operation /\ raised = "no" /\ Now.op = "seek"
  BY HeadFacts DEF HomingInv, DirectedSeek
<1>2. /\ todo' \in Seq(Operation) /\ todo' # <<>> /\ Now' = todo'[1]
      /\ Len(todo) >= 2 /\ todo[2].op \in {"reverse", "give_up"}
      /\ Len(todo') = Len(todo) - 1
      /\ Is(todo'[1], "halt", j0, "-")
      /\ \A i \in 2 .. Len(todo') : todo'[i] = todo[i + 1]
  BY <1>1, FoundIs
<1>3. todo \in Seq(Operation) /\ Len(todo) \in Nat /\ Now = todo[1]
  BY <1>1, HeadIs
<1>4. StackInv'
  BY <1>1, FoundStack
<1>5. \A i \in 3 .. Len(todo) : i - 1 \in 2 .. Len(todo') /\ todo'[i - 1] = todo[i]
  <2>. SUFFICES ASSUME NEW i \in 3 .. Len(todo) PROVE i - 1 \in 2 .. Len(todo') /\ todo'[i - 1] = todo[i]
    OBVIOUS
  <2>1. Len(todo') = Len(todo) - 1 /\ Len(todo) \in Nat
    BY <1>2, <1>3
  <2>2. i - 1 \in 2 .. Len(todo') /\ (i - 1) + 1 = i
    BY <2>1
  <2>3. QED BY <1>2, <2>2
<1>6. \A i \in 1 .. Len(todo) : i = 1 \/ i = 2 \/ i \in 3 .. Len(todo)
  BY <1>3
<1>7. Now'.op = "halt" /\ Now'.joint = j0 /\ Now'.op \in Moving
  BY <1>2 DEF Is, Moving
<1>8. Local(r)
  BY <1>1, LocalSame
<1>. HIDE DEF r
<1>9. r = axis[j0]
  BY DEF r
<1>10. TypeOK'
  BY <1>1 DEF TypeOK
<1>11. RestInv'
  <2>1. HeadOK'
    BY <1>7 DEF HeadOK
  <2>2. QED BY <1>1, <1>2, <1>4, <1>7, <1>8, <2>1, RestKept
<1>12. LimitsInv'
  <2>. SUFFICES ASSUME ~unrestored PROVE LimitsInv'
    BY DEF LimitsInv
  <2>1. \A i \in 1 .. Len(todo') : todo'[i].op = "restore" => i \in 2 .. Len(todo') /\ i + 1 \in 1 .. Len(todo)
    BY <1>2, <1>3 DEF Is
  <2>2. \A i \in 1 .. Len(todo') : todo'[i].op = "restore" => todo'[i].arg = LoLimit[todo'[i].joint]
    BY <1>1, <1>2, <2>1 DEF LimitsInv
  <2>3. \A i \in 1 .. Len(todo) : todo[i].op = "restore" => i \in 3 .. Len(todo)
    BY <1>1, <1>2, <1>3, <1>6
  <2>4. \A j \in Joint : axis'[j].lo = LoLimit[j] \/ RestoreFor(todo', j)
    <3>. SUFFICES ASSUME NEW j \in Joint, axis[j].lo # LoLimit[j] PROVE RestoreFor(todo', j)
      OBVIOUS
    <3>1. PICK i \in 1 .. Len(todo) : todo[i].op = "restore" /\ todo[i].joint = j
      BY <1>1 DEF LimitsInv
    <3>2. i - 1 \in 2 .. Len(todo') /\ todo'[i - 1] = todo[i]
      BY <1>5, <2>3, <3>1
    <3>3. i - 1 \in 1 .. Len(todo')
      BY <3>2
    <3>4. QED BY <3>1, <3>2, <3>3 DEF RestoreFor
  <2>5. ~At("extend")'
    BY <1>7 DEF At
  <2>6. QED BY <2>2, <2>4, <2>5 DEF LimitsInv, RestoreFor
<1>13. RefInv'
  <2>. SUFFICES ASSUME ~Standalone, Validated PROVE Ends(todo')
    BY DEF RefInv, Done
  <2>1. Ends(todo)
    <3>1. todo[1].op \notin AfterOps /\ 1 \in 1 .. Len(todo)
      <4>1. todo[1].op = "seek"
        BY <1>1, <1>3
      <4>2. 1 \in 1 .. Len(todo)
        BY <1>2, <1>3
      <4>3. QED BY <4>1, <4>2 DEF AfterOps, UnderRest
    <3>2. QED BY <1>1, <3>1 DEF RefInv, Done
  <2>2. PICK i \in 1 .. Len(todo) : todo[i].op = "validate" /\ \A k \in 1 .. Len(todo) : k > i => todo[k].op = "goto"
    BY <2>1 DEF Ends
  <2>3. i \in 3 .. Len(todo)
    BY <1>1, <1>2, <1>3, <1>6, <2>2
  <2>4. i - 1 \in 2 .. Len(todo') /\ todo'[i - 1].op = "validate"
    BY <1>5, <2>2, <2>3
  <2>5. \A k \in 1 .. Len(todo') : k > i - 1 => todo'[k].op = "goto"
    <3>. SUFFICES ASSUME NEW k \in 1 .. Len(todo'), k > i - 1 PROVE todo'[k].op = "goto"
      OBVIOUS
    <3>1. k \in 2 .. Len(todo') /\ k + 1 \in 1 .. Len(todo) /\ k + 1 > i
      <4>1. Len(todo') = Len(todo) - 1 /\ Len(todo) \in Nat
        BY <1>2, <1>3
      <4>2. QED BY <2>3, <4>1
    <3>2. QED BY <1>2, <2>2, <3>1
  <2>6. i - 1 \in 1 .. Len(todo')
    BY <2>4
  <2>7. QED BY <2>4, <2>5, <2>6 DEF Ends
<1>14. ClearInv'
  <2>1. Now.op \notin Exempt
    BY <1>1 DEF Exempt
  <2>2. QED BY <1>1, <1>4, <1>7, <1>8, <2>1, ClearKept
<1>15. PowerInv'
  BY <1>1, PowerKept
<1>16. QED BY <1>4, <1>10, <1>11, <1>12, <1>13, <1>14, <1>15 DEF HomingInv

LEMMA DecideKeeps ==
  ASSUME HomingInv, Decide
  PROVE  HomingInv'
<1>1. /\ todo # <<>> /\ Now.op = "seek" /\ axis' = axis /\ result' = result
      /\ unrestored' = unrestored /\ sampled' = NotRead /\ sampled' \in 0 .. Last + 1
  BY AxisAssumption DEF Decide, At, NotRead
<1>2. CASE Halting(<<>>)
  BY <1>1, <1>2, SeekHalts
<1>3. CASE Halting(GiveUp)
  BY <1>1, <1>3, SeekHalts
<1>4. CASE Directed /\ todo' = <<Op("halt", j0)>> \o Tail(Tail(todo)) /\ raised' = raised
  BY <1>1, <1>4, FoundStep DEF DirectedSeek, Directed
<1>5. CASE todo' = todo /\ raised' = raised
  BY <1>1, <1>5, QuietStep
<1>6. Halting(<<>>) \/ Halting(GiveUp) \/ (todo' = todo /\ raised' = raised)
      \/ (Directed /\ todo' = <<Op("halt", j0)>> \o Tail(Tail(todo)) /\ raised' = raised)
  BY DEF Decide
<1>7. QED BY <1>2, <1>3, <1>4, <1>5, <1>6

-----------------------------------------------------------------------------
(***************************************************************************)
(* Setting the home position and checking it.                              *)
(***************************************************************************)
\* A step of set_current_position_as_home, or one that raises.
LEMMA LocalRaise ==
  ASSUME HomingInv, todo # <<>>, Raise, result' = result, unrestored' = unrestored,
         sampled' \in 0 .. Last + 1, NEW r \in Axes, axis' = [axis EXCEPT ![j0] = r],
         r.zero = axis[j0].zero, r.lo = axis[j0].lo, Now.op # "restore", Now.op \notin Exempt
  PROVE  HomingInv'
<1>1. Local(r)
  BY HeadFacts, LocalTo
<1>2. QED BY <1>1, RaiseStep DEF Raise

LEMMA ActiveReturn ==
  ASSUME HomingInv, todo # <<>>, Return, Rest, NEW r \in Axes, axis' = [axis EXCEPT ![j0] = r],
         r.zero = axis[j0].zero, r.lo = axis[j0].lo,
         Now.op \in {"neutral", "edge", "begin", "replaced", "request"}
  PROVE  HomingInv'
<1>1. Local(r)
  BY HeadFacts, RestIs, LocalTo
<1>2. ~Starter(Now) /\ ~DirectedSeek(Now) /\ Now.op \in Active
  BY DEF Starter, DirectedSeek, Active
<1>3. QED BY <1>1, <1>2, RestIs, ReturnStep

LEMMA NeutralTargetKeeps ==
  ASSUME HomingInv, NeutralTarget
  PROVE  HomingInv'
<1>1. todo # <<>> /\ Now.op = "neutral" /\ Rest
  BY DEF NeutralTarget, At
<1>2. TypeOK /\ j0 \in Joint /\ axis[j0] \in Axes
  BY <1>1, HeadFacts
<1>3. CASE Raise /\ axis' = axis
  BY <1>1, <1>3, RestIs, QuietRaise DEF Raise
<1>4. CASE Return /\ axis' = [axis EXCEPT ![j0].target = Counter(j0), ![j0].halt = FALSE]
  <2>. DEFINE r == [axis[j0] EXCEPT !.target = Counter(j0), !.halt = FALSE]
  <2>1. Counter(j0) \in Int
    BY <1>2, AxisAssumption DEF Counter, Axes, Place
  <2>2. r \in Axes /\ r.zero = axis[j0].zero /\ r.lo = axis[j0].lo
    BY <1>2, <2>1 DEF Axes
  <2>3. axis' = [axis EXCEPT ![j0] = r]
    BY <1>2, <1>4 DEF TypeOK
  <2>. HIDE DEF r
  <2>4. QED BY <1>1, <1>4, <2>2, <2>3, ActiveReturn
<1>5. QED BY <1>3, <1>4 DEF NeutralTarget

LEMMA StartEdgeKeeps ==
  ASSUME HomingInv, StartEdge
  PROVE  HomingInv'
<1>1. todo # <<>> /\ Now.op \in {"edge", "begin"} /\ Rest /\ Return /\ axis' = [axis EXCEPT ![j0].start = TRUE]
  BY DEF StartEdge, At
<1>2. TypeOK /\ j0 \in Joint /\ axis[j0] \in Axes
  BY <1>1, HeadFacts
<1>. DEFINE r == [axis[j0] EXCEPT !.start = TRUE]
<1>3. r \in Axes /\ r.zero = axis[j0].zero /\ r.lo = axis[j0].lo
  BY <1>2 DEF Axes
<1>4. axis' = [axis EXCEPT ![j0] = r]
  BY <1>1, <1>2 DEF TypeOK
<1>. HIDE DEF r
<1>5. QED BY <1>1, <1>3, <1>4, ActiveReturn

LEMMA RequestHomingKeeps ==
  ASSUME HomingInv, RequestHoming
  PROVE  HomingInv'
<1>1. todo # <<>> /\ Now.op = "request" /\ Rest /\ Return /\ axis' = [axis EXCEPT ![j0].wanted = "homing"]
  BY DEF RequestHoming, At
<1>2. TypeOK /\ j0 \in Joint /\ axis[j0] \in Axes
  BY <1>1, HeadFacts
<1>. DEFINE r == [axis[j0] EXCEPT !.wanted = "homing"]
<1>3. r \in Axes /\ r.zero = axis[j0].zero /\ r.lo = axis[j0].lo
  BY <1>2 DEF Axes, Modes
<1>4. axis' = [axis EXCEPT ![j0] = r]
  BY <1>1, <1>2 DEF TypeOK
<1>. HIDE DEF r
<1>5. QED BY <1>1, <1>3, <1>4, ActiveReturn

\* The start bit is taken back.
LEMMA Unstarted ==
  ASSUME TypeOK, NEW j \in Joint, axis' = [axis EXCEPT ![j].start = FALSE]
  PROVE  \E r \in Axes : /\ axis' = [axis EXCEPT ![j] = r] /\ ~r.start
                         /\ r.zero = axis[j].zero /\ r.lo = axis[j].lo
                         /\ Settled(axis[j]) => Still(r)
<1>. DEFINE r == [axis[j] EXCEPT !.start = FALSE]
<1>1. axis[j] \in Axes /\ axis' = [axis EXCEPT ![j] = r]
  BY DEF TypeOK
<1>2. r \in Axes /\ ~r.start /\ r.zero = axis[j].zero /\ r.lo = axis[j].lo /\ (Settled(axis[j]) => Still(r))
  BY <1>1 DEF Axes, Settled, Still
<1>3. QED BY <1>1, <1>2

LEMMA TargetReplacedKeeps ==
  ASSUME HomingInv, TargetReplaced
  PROVE  HomingInv'
<1>1. /\ todo # <<>> /\ Now.op = "replaced" /\ Rest /\ axis' = [axis EXCEPT ![j0].start = FALSE]
      /\ Return \/ Raise
  BY DEF TargetReplaced, At, Expect
<1>2. TypeOK /\ j0 \in Joint
  BY <1>1, HeadFacts
<1>3. PICK r \in Axes : /\ axis' = [axis EXCEPT ![j0] = r]
                        /\ r.zero = axis[j0].zero /\ r.lo = axis[j0].lo
  BY <1>1, <1>2, Unstarted
<1>4. CASE Return
  BY <1>1, <1>3, <1>4, ActiveReturn
<1>5. CASE Raise
  <2>1. Now.op \notin Exempt
    BY <1>1 DEF Exempt
  <2>2. QED BY <1>1, <1>3, <1>5, <2>1, RestIs, LocalRaise
<1>6. QED BY <1>1, <1>4, <1>5

LEMMA VerifyKeeps ==
  ASSUME HomingInv, Verify
  PROVE  HomingInv'
<1>1. /\ todo # <<>> /\ Now.op = "verify" /\ Rest /\ axis' = [axis EXCEPT ![j0].start = FALSE]
      /\ Return \/ Raise
  BY DEF Verify, At, Expect
<1>2. TypeOK /\ StackInv /\ j0 \in Joint /\ (~Standalone => Settled(axis[j0]))
  BY <1>1, HeadFacts DEF HeadOK
<1>3. PICK r \in Axes : /\ axis' = [axis EXCEPT ![j0] = r]
                        /\ r.zero = axis[j0].zero /\ r.lo = axis[j0].lo
                        /\ Settled(axis[j0]) => Still(r)
  BY <1>1, <1>2, Unstarted
<1>4. CASE Return
  <2>1. Local(r)
    BY <1>1, <1>2, <1>3, RestIs, LocalTo
  <2>2. ~Starter(Now) /\ ~DirectedSeek(Now)
    BY <1>1 DEF Starter, DirectedSeek
  <2>3. QED BY <1>1, <1>2, <1>3, <1>4, <2>1, <2>2, RestIs, ReturnStep
<1>5. CASE Raise
  <2>1. Now.op \notin Exempt
    BY <1>1 DEF Exempt
  <2>2. QED BY <1>1, <1>3, <1>5, <2>1, RestIs, LocalRaise
<1>6. QED BY <1>1, <1>4, <1>5

LEMMA ConfirmHomingKeeps ==
  ASSUME HomingInv, ConfirmHoming
  PROVE  HomingInv'
<1>1. todo # <<>> /\ Now.op = "confirm" /\ Rest /\ axis' = axis /\ (Return \/ Raise)
  BY DEF ConfirmHoming, At
<1>2. CASE Return
  BY <1>1, <1>2, QuietReturn
<1>3. CASE Raise
  BY <1>1, <1>3, RestIs, QuietRaise DEF Raise
<1>4. QED BY <1>1, <1>2, <1>3

LEMMA AwaitHomedKeeps ==
  ASSUME HomingInv, AwaitHomed
  PROVE  HomingInv'
<1>1. todo # <<>> /\ Now.op = "finish" /\ Rest /\ axis' = axis /\ ((Return /\ Attained) \/ Raise)
  BY DEF AwaitHomed, At
<1>2. CASE Return /\ Attained
  <2>1. Settled(axis[j0])
    BY <1>2 DEF Attained, Settled, AtGoal, Here
  <2>2. QED BY <1>1, <1>2, <2>1, QuietReturn
<1>3. CASE Raise
  BY <1>1, <1>3, RestIs, QuietRaise DEF Raise
<1>4. QED BY <1>1, <1>2, <1>3

\* The check of the reference is about the counter, too.
LEMMA ReferencedHome ==
  ASSUME NEW j, OnReference(j)
  PROVE  Referenced(j)
BY DEF OnReference, Referenced, On, Counter

LEMMA ValidateReferencesKeeps ==
  ASSUME HomingInv, ValidateReferences
  PROVE  HomingInv'
<1>1. /\ todo # <<>> /\ Now.op = "validate" /\ Rest /\ axis' = axis
      /\ (Return /\ \A j \in Required : ValidHome(j)) \/ Raise
  BY DEF ValidateReferences, At, Expect
<1>2. CASE Return /\ \A j \in Required : ValidHome(j)
  <2>1. \A j \in Required : Referenced(j)
    BY <1>2, ReferencedHome DEF ValidHome
  <2>2. QED BY <1>1, <1>2, <2>1, QuietReturn
<1>3. CASE Raise
  BY <1>1, <1>3, RestIs, QuietRaise DEF Raise
<1>4. QED BY <1>1, <1>2, <1>3

LEMMA CheckKeeps ==
  ASSUME HomingInv, CheckSwitch \/ AwaitInactive \/ RaiseNow
  PROVE  HomingInv'
<1>1. CASE CheckSwitch
  <2>1. /\ todo # <<>> /\ Now.op = "check" /\ Rest /\ axis' = axis
        /\ (Return /\ Holds(Now.kind)) \/ Raise
    BY <1>1 DEF CheckSwitch, At, Expect
  <2>2. CASE Return /\ Holds(Now.kind)
    <3>1. Now.kind = "boundary" => AtBoundary(j0, axis[j0].pos)
      BY <2>2 DEF Holds, Here
    <3>2. QED BY <2>1, <2>2, <3>1, QuietReturn
  <2>3. CASE Raise
    BY <2>1, <2>3, RestIs, QuietRaise DEF Raise
  <2>4. QED BY <2>1, <2>2, <2>3
<1>2. CASE AwaitInactive
  BY <1>2, QuietReturn DEF AwaitInactive, At
<1>3. CASE RaiseNow
  BY <1>3, RestIs, QuietRaise DEF RaiseNow, At, Raise
<1>4. QED BY <1>1, <1>2, <1>3

-----------------------------------------------------------------------------
(***************************************************************************)
(* Deadlines, failures and the software limits.                            *)
(***************************************************************************)
LEMMA TimesOutKeeps ==
  ASSUME HomingInv, TimesOut
  PROVE  HomingInv'
<1>1. /\ todo # <<>> /\ result' = result /\ unrestored' = unrestored /\ sampled' = NotRead
      /\ sampled' \in 0 .. Last + 1
      /\ Now.op \in {"ready", "released", "latched", "reach", "seek", "leave", "confirm", "finish"}
  BY AxisAssumption DEF TimesOut, Waiting, At, NotRead
<1>2. CASE Now.op = "seek"
  <2>1. At("seek") /\ ~At("confirm")
    BY <1>2 DEF TimesOut, Waiting, At
  <2>2. Halting(GiveUp) /\ axis' = axis
    BY <2>1 DEF TimesOut
  <2>3. QED BY <1>1, <1>2, <2>2, SeekHalts
<1>3. CASE Now.op # "seek" /\ Now.op # "confirm"
  <2>1. ~At("seek") /\ ~At("confirm")
    BY <1>3 DEF At
  <2>2. Raise /\ axis' = axis
    BY <2>1 DEF TimesOut
  <2>3. QED BY <1>1, <2>2, QuietRaise DEF Raise
<1>4. CASE Now.op = "confirm"
  <2>1. ~At("seek") /\ At("confirm")
    BY <1>4 DEF At, TimesOut, Waiting
  <2>2. Raise /\ axis' = [axis EXCEPT ![j0].start = FALSE]
    BY <2>1 DEF TimesOut
  <2>3. TypeOK /\ j0 \in Joint
    BY <1>1, HeadFacts
  <2>4. PICK r \in Axes : /\ axis' = [axis EXCEPT ![j0] = r]
                          /\ r.zero = axis[j0].zero /\ r.lo = axis[j0].lo
    BY <2>2, <2>3, Unstarted
  <2>5. Now.op \notin Exempt
    BY <1>4 DEF Exempt
  <2>6. QED BY <1>1, <1>4, <2>2, <2>4, <2>5, LocalRaise
<1>5. QED BY <1>2, <1>3, <1>4

LEMMA BreaksKeeps ==
  ASSUME HomingInv, NEW x \in {"error", "interrupt"}, Breaks(x)
  PROVE  HomingInv'
<1>1. /\ todo # <<>> /\ Unwind(x) /\ axis' = axis /\ result' = result /\ sampled' \in 0 .. Last + 1
      /\ unrestored' = (unrestored \/ Now.op = "restore")
  BY AxisAssumption DEF Breaks, NotRead, IsFinally
<1>2. CASE Now.op # "restore"
  <2>1. unrestored' = unrestored
    BY <1>1, <1>2 DEF HomingInv, TypeOK
  <2>2. QED BY <1>1, <1>2, <2>1, QuietRaise
<1>3. CASE Now.op = "restore"
  <2>. DEFINE r == axis[j0]
  <2>1. TypeOK /\ StackInv /\ RestInv /\ ClearInv /\ unrestored' = TRUE
    BY <1>1, <1>3 DEF HomingInv
  <2>2. Local(r)
    BY <1>1, <2>1, LocalSame
  <2>. HIDE DEF r
  <2>3. r = axis[j0]
    BY DEF r
  <2>4. StackInv' /\ raised' = x
    BY <1>1, <2>1, UnwindStack
  <2>5. TypeOK'
    BY <1>1, <2>1, <2>4 DEF TypeOK
  <2>6. RestInv'
    BY <1>1, <2>1, <2>2, RaiseRest
  <2>7. LimitsInv' /\ RefInv'
    BY <2>1, <2>4 DEF LimitsInv, RefInv, Done
  <2>8. ClearInv'
    BY <2>1, <2>2, <2>3, <2>4, ClearKept
  <2>9. PowerInv'
    BY <1>1, <2>1, PowerKept
  <2>10. QED BY <2>4, <2>5, <2>6, <2>7, <2>8, <2>9 DEF HomingInv
<1>4. QED BY <1>2, <1>3

\* Writing a limit changes nothing else.
LEMMA WriteLimitIs ==
  ASSUME TypeOK, NEW j \in Joint, NEW c \in Int, axis' = [axis EXCEPT ![j].lo = c]
  PROVE  \E r \in Axes : /\ axis' = [axis EXCEPT ![j] = r] /\ r.lo = c /\ r.zero = axis[j].zero
                         /\ (Still(r) <=> Still(axis[j]))
<1>. DEFINE r == [axis[j] EXCEPT !.lo = c]
<1>1. axis[j] \in Axes /\ axis' = [axis EXCEPT ![j] = r]
  BY DEF TypeOK
<1>2. r \in Axes /\ r.lo = c /\ r.zero = axis[j].zero /\ (Still(r) <=> Still(axis[j]))
  BY <1>1 DEF Axes, Still
<1>3. QED BY <1>1, <1>2

LEMMA WriteLimitLimits ==
  ASSUME TypeOK, StackInv, LimitsInv, todo # <<>>, todo' = Tail(todo), unrestored' = unrestored,
         result' = result, NEW r, Local(r), r.lo = Now.arg, Now.op \in {"extend", "restore"}
  PROVE  LimitsInv'
<1>. SUFFICES ASSUME ~unrestored PROVE LimitsInv'
  BY DEF LimitsInv
<1>1. /\ todo' \in Seq(Operation) /\ Len(todo') = Len(todo) - 1
      /\ \A i \in 1 .. Len(todo') : todo'[i] = todo[i + 1]
      /\ todo' # <<>> => Follows(Now, Now')
  BY NextIs
<1>2. /\ todo \in Seq(Operation) /\ Len(todo) \in Nat /\ Len(todo) >= 1 /\ Now = todo[1]
      /\ j0 \in Joint /\ result = "running"
  BY HeadIs
<1>3. \A i \in 1 .. Len(todo) : i # 1 => i - 1 \in 1 .. Len(todo') /\ todo'[i - 1] = todo[i]
  BY <1>1, <1>2
<1>4. \A i \in 1 .. Len(todo') : todo'[i].op = "restore" => todo'[i].arg = LoLimit[todo'[i].joint]
  BY <1>1, <1>2 DEF LimitsInv
<1>5. ~At("extend")'
  BY <1>1 DEF At, Follows
<1>6. Now.op = "restore" => axis'[j0].lo = LoLimit[j0]
  BY <1>2 DEF LimitsInv, Local, j0
<1>7. Now.op = "extend" => RestoreFor(todo', j0)
  <2>. SUFFICES ASSUME Now.op = "extend" PROVE RestoreFor(todo', j0)
    OBVIOUS
  <2>1. PICK i \in 1 .. Len(todo) : todo[i].op = "restore" /\ todo[i].joint = j0
    BY <1>2 DEF LimitsInv, At
  <2>2. i # 1
    BY <1>2, <2>1
  <2>3. i - 1 \in 1 .. Len(todo') /\ todo'[i - 1] = todo[i]
    BY <1>3, <2>2
  <2>4. QED BY <2>1, <2>3 DEF RestoreFor
<1>8. \A j \in Joint : axis'[j].lo = LoLimit[j] \/ RestoreFor(todo', j)
  <2>. SUFFICES ASSUME NEW j \in Joint, axis'[j].lo # LoLimit[j] PROVE RestoreFor(todo', j)
    OBVIOUS
  <2>1. CASE j = j0
    BY <1>6, <1>7, <2>1
  <2>2. CASE j # j0
    <3>1. axis'[j] = axis[j]
      BY <2>2 DEF Local
    <3>2. PICK i \in 1 .. Len(todo) : todo[i].op = "restore" /\ todo[i].joint = j
      BY <3>1 DEF LimitsInv
    <3>3. i # 1
      BY <1>2, <2>2, <3>2 DEF j0
    <3>4. i - 1 \in 1 .. Len(todo') /\ todo'[i - 1] = todo[i]
      BY <1>3, <3>3
    <3>5. QED BY <3>2, <3>4 DEF RestoreFor
  <2>3. QED BY <2>1, <2>2
<1>9. QED BY <1>4, <1>5, <1>8 DEF LimitsInv, RestoreFor

LEMMA WriteLimitKeeps ==
  ASSUME HomingInv, WriteLimit
  PROVE  HomingInv'
<1>1. /\ todo # <<>> /\ Now.op \in {"extend", "restore"} /\ Rest /\ todo' = Tail(todo) /\ raised' = raised
      /\ axis' = [axis EXCEPT ![j0].lo = Now.arg]
  BY DEF WriteLimit, At
<1>2. /\ TypeOK /\ StackInv /\ RestInv /\ LimitsInv /\ RefInv /\ ClearInv
      /\ j0 \in Joint /\ Now.arg \in Int
      /\ raised # "no" => Now.op = "restore" /\ Len(todo) = 1
      /\ raised = "no" /\ ~Standalone => Still(axis[j0])
      /\ result' = result /\ unrestored' = unrestored /\ sampled' \in 0 .. Last + 1
  BY <1>1, HeadFacts, HeadIs, RestIs DEF HomingInv, Operation, RestInv, AtRest, Moving
<1>3. PICK r \in Axes : /\ axis' = [axis EXCEPT ![j0] = r] /\ r.lo = Now.arg /\ r.zero = axis[j0].zero
                        /\ (Still(r) <=> Still(axis[j0]))
  <2>1. TypeOK /\ j0 \in Joint /\ Now.arg \in Int /\ axis' = [axis EXCEPT ![j0].lo = Now.arg]
    BY <1>1, <1>2
  <2>2. QED BY <2>1, WriteLimitIs
<1>4. Local(r)
  BY <1>1, <1>2, <1>3, LocalTo
<1>5. TypeOK'
  BY <1>1, <1>2, <1>4 DEF TypeOK, Local
<1>6. StackInv'
  BY <1>1, <1>2, ReturnStack
<1>7. ~Starter(Now) /\ ~DirectedSeek(Now) /\ Now.op \notin AfterOps /\ Now.op \notin Exempt
  BY <1>1 DEF Starter, DirectedSeek, AfterOps, UnderRest, Exempt
<1>8. RestInv'
  <2>1. CASE raised = "no" \/ Standalone
    BY <1>1, <1>2, <1>3, <1>4, <1>7, <2>1, ReturnRest
  <2>2. CASE raised # "no"
    <3>1. Len(todo') = 0 /\ todo' \in Seq(Operation)
      BY <1>1, <1>2, <2>2, NextIs
    <3>2. todo' = <<>>
      BY <3>1
    <3>3. QED BY <1>1, <1>2, <1>4, <1>6, <2>2, <3>2, RestKept
  <2>3. QED BY <2>1, <2>2
<1>9. LimitsInv'
  BY <1>1, <1>2, <1>3, <1>4, WriteLimitLimits
<1>10. RefInv'
  BY <1>1, <1>2, <1>3, <1>4, <1>7, ReturnRef
<1>11. ClearInv'
  <2>1. todo' # <<>> => Follows(Now, Now')
    BY <1>1, <1>2, NextIs
  <2>2. todo' # <<>> /\ ClearanceConfig /\ Covered(Now)' => Now'.joint = j0
    <3>. SUFFICES ASSUME todo' # <<>>, ClearanceConfig, Covered(Now)' PROVE Now'.joint = j0
      OBVIOUS
    <3>1. Covers(Now, Now') /\ Covered(Now')
      BY <2>1 DEF Follows, Covered
    <3>2. QED BY <1>1, <3>1 DEF Covers, j0
  <2>3. ~Standalone => Still(r) \/ (raised = "no" /\ Now.op \notin Exempt) \/ ~Still(axis[j0])
    BY <1>3
  <2>4. QED BY <1>1, <1>2, <1>4, <1>6, <1>7, <2>2, <2>3, ClearKept
<1>12. PowerInv'
  BY <1>1, <1>2, PowerKept
<1>13. QED BY <1>5, <1>6, <1>8, <1>9, <1>10, <1>11, <1>12 DEF HomingInv

-----------------------------------------------------------------------------
(***************************************************************************)
(* The strategies.                                                         *)
(***************************************************************************)
LEMMA HomeJointKeeps ==
  ASSUME HomingInv, HomeJoint
  PROVE  HomingInv'
<1>. DEFINE s == Plan(j0)
<1>1. todo # <<>> /\ Rest /\ axis' = axis /\ Call(s) /\ Now.op = "home"
  BY DEF HomeJoint, At
<1>2. /\ Body(Now, s) /\ s[1].op \in {"park_a", "hold", "park_c", "direct", "single"}
      /\ ClearanceConfig => ~Covered(s[1])
  BY <1>1, HeadFacts, PlanBody
<1>. HIDE DEF s
<1>3. QED BY <1>1, <1>2, StrategyStep DEF Moving, AfterOps, UnderRest

\* A method whose body starts on its own joint.
LEMMA OwnStep ==
  ASSUME HomingInv, todo # <<>>, Rest, axis' = axis, NEW s, Body(Now, s), Call(s),
         Now.op \in {"park_a", "search_a", "from_a", "search_b", "park_c", "park_boundary",
                     "direct_b", "reverse", "single"},
         s[1].op \in {"move", "halt", "hold"}, s[1].joint = j0
  PROVE  HomingInv'
<1>1. Now.op \notin Moving /\ Now.op \notin AfterOps /\ Now.op # "c_to_b" /\ Now.op \notin Exempt
  BY DEF Moving, AfterOps, UnderRest, Exempt
<1>2. QED BY <1>1, StrategyStep

LEMMA ParkAtAKeeps ==
  ASSUME HomingInv, ParkAtA \/ ParkAtAAgain
  PROVE  HomingInv'
<1>1. todo # <<>> /\ Rest /\ axis' = axis /\ Now.op \in {"park_a", "search_a"} /\ Now \in Operation
  BY HeadFacts DEF ParkAtA, ParkAtAAgain, At
<1>2. CASE Call(SearchA \o OntoA)
  <2>. DEFINE s == SearchA \o OntoA
  <2>1. Body(Now, s) /\ s[1].op \in {"move", "halt"} /\ s[1].joint = j0 /\ Call(s)
    BY <1>1, <1>2, ParkAtABody
  <2>. HIDE DEF s
  <2>2. QED BY <1>1, <2>1, OwnStep
<1>3. CASE Now.op = "park_a" /\ Call(MotionToEnd(j0, EscapeDistance)
                                     \o <<Kind("check", j0, "free"), Op("search_a", j0)>>)
  <2>. DEFINE s == MotionToEnd(j0, EscapeDistance) \o <<Kind("check", j0, "free"), Op("search_a", j0)>>
  <2>1. Body(Now, s) /\ s[1].op = "move" /\ s[1].joint = j0 /\ Call(s)
    BY <1>1, <1>3, LeaveLimitBody
  <2>. HIDE DEF s
  <2>2. QED BY <1>1, <2>1, OwnStep
<1>4. QED BY <1>2, <1>3 DEF ParkAtA, ParkAtAAgain, At

LEMMA HomeFromAToBKeeps ==
  ASSUME HomingInv, HomeFromAToB
  PROVE  HomingInv'
<1>1. todo # <<>> /\ Rest /\ axis' = axis /\ Now.op = "from_a" /\ Now \in Operation
  BY HeadFacts DEF HomeFromAToB, At
<1>2. CASE On(j0, "A", Here)
  <2>. DEFINE s == MotionToEnd(j0, BackOff) \o <<Op("leave", j0), Op("search_b", j0)>>
  <2>1. Body(Now, s) /\ s[1].op = "move" /\ s[1].joint = j0
    BY <1>1, FromABody
  <2>2. Call(s)
    BY <1>2 DEF HomeFromAToB
  <2>. HIDE DEF s
  <2>3. QED BY <1>1, <2>1, <2>2, OwnStep
<1>3. CASE ~On(j0, "A", Here)
  <2>1. Unwind("error")
    BY <1>3 DEF HomeFromAToB, Raise
  <2>2. QED BY <1>1, <2>1, RestIs, QuietRaise
<1>4. QED BY <1>2, <1>3

LEMMA SearchBKeeps ==
  ASSUME HomingInv, SearchB
  PROVE  HomingInv'
<1>. DEFINE s == (IF On(j0, "B", Here) THEN <<>>
                  ELSE Motion(j0, SearchDistance) \o <<Kind("seek", j0, "B")>>)
                 \o <<Op("halt", j0)>> \o SetHome(j0)
<1>1. todo # <<>> /\ Rest /\ axis' = axis /\ Now.op = "search_b" /\ Now \in Operation /\ Call(s)
  BY HeadFacts DEF SearchB, At
<1>2. Body(Now, s) /\ s[1].op \in {"move", "halt"} /\ s[1].joint = j0
  BY <1>1, SearchBBody
<1>. HIDE DEF s
<1>3. QED BY <1>1, <1>2, OwnStep

LEMMA ParkAtCKeeps ==
  ASSUME HomingInv, ParkAtC
  PROVE  HomingInv'
<1>. DEFINE s == (IF On(j0, "C", Here) THEN <<Op("halt", j0)>>
                  ELSE Motion(j0, ParkDistance) \o <<Kind("seek", j0, "C")>>)
                 \o <<Kind("check", j0, "C")>>
<1>1. todo # <<>> /\ Rest /\ axis' = axis /\ Now.op = "park_c" /\ Now \in Operation /\ Call(s)
  BY HeadFacts DEF ParkAtC, At
<1>2. Body(Now, s) /\ s[1].op \in {"move", "halt"} /\ s[1].joint = j0
  BY <1>1, ParkAtCBody
<1>. HIDE DEF s
<1>3. QED BY <1>1, <1>2, OwnStep

LEMMA ParkAtBoundaryKeeps ==
  ASSUME HomingInv, ParkAtBoundary
  PROVE  HomingInv'
<1>. DEFINE s == (IF AtBoundary(j0, Here) THEN <<>>
                  ELSE Motion(j0, -ParkDistance) \o <<Kind("seek", j0, "boundary")>>)
                 \o <<Op("hold", j0)>>
<1>1. todo # <<>> /\ Rest /\ axis' = axis /\ Now.op = "park_boundary" /\ Now \in Operation /\ Call(s)
  BY HeadFacts DEF ParkAtBoundary, At
<1>2. Body(Now, s) /\ s[1].op \in {"move", "hold"} /\ s[1].joint = j0
  BY <1>1, ParkAtBoundaryBody
<1>. HIDE DEF s
<1>3. QED BY <1>1, <1>2, OwnStep

LEMMA SingleKeeps ==
  ASSUME HomingInv, Single
  PROVE  HomingInv'
<1>. DEFINE s == (IF On(j0, "B", Here) THEN <<Op("halt", j0)>>
                  ELSE Motion(j0, SingleSide * SearchDistance) \o <<Kind("seek", j0, "single")>>)
                 \o SetSingleZero(j0)
<1>1. todo # <<>> /\ Rest /\ axis' = axis /\ Now.op = "single" /\ Now \in Operation /\ Call(s)
  BY HeadFacts DEF Single, At
<1>2. Body(Now, s) /\ s[1].op \in {"move", "halt"} /\ s[1].joint = j0
  BY <1>1, SingleBody
<1>. HIDE DEF s
<1>3. QED BY <1>1, <1>2, OwnStep

LEMMA DirectKeeps ==
  ASSUME HomingInv, Direct
  PROVE  HomingInv'
<1>. DEFINE s == Parked(j0) \o <<Op("direct_b", j0)>>
<1>1. todo # <<>> /\ Rest /\ axis' = axis /\ Now.op = "direct" /\ Now \in Operation /\ Call(s)
  BY HeadFacts DEF Direct, At
<1>2. /\ Body(Now, s) /\ s[1].op \in {"hold", "direct_b"}
      /\ ClearanceConfig => ~Covered(s[1])
  BY <1>1, DirectBody
<1>. HIDE DEF s
<1>3. QED BY <1>1, <1>2, StrategyStep DEF Moving, AfterOps, UnderRest

LEMMA DirectToBKeeps ==
  ASSUME HomingInv, DirectToB
  PROVE  HomingInv'
<1>1. todo # <<>> /\ Rest /\ axis' = axis /\ Now.op = "direct_b" /\ Now \in Operation /\ j0 \in Joint
  BY HeadFacts DEF DirectToB, At
<1>2. CASE On(j0, "B", Here)
  <2>. DEFINE s == <<Op("halt", j0)>> \o SetHome(j0)
  <2>1. Body(Now, s) /\ s[1].op = "halt" /\ s[1].joint = j0
    BY <1>1, OnBBody
  <2>2. Call(s)
    BY <1>2 DEF DirectToB, Halting
  <2>. HIDE DEF s
  <2>3. QED BY <1>1, <2>1, <2>2, OwnStep
<1>3. CASE ~On(j0, "B", Here)
  <2>. DEFINE d == FirstDirection
              x == [Op("reverse", j0) EXCEPT !.arg = -d]
              s == Directly(d, <<x>>) \o SetHome(j0)
  <2>1. d \in Int /\ -d \in Int
    BY HomingAssumption DEF FirstDirection, HomingConfigOK
  <2>2. Is(x, "reverse", j0, "-")
    <3>1. Is(Op("reverse", j0), "reverse", j0, "-")
      BY <1>1, OpIs DEF Names
    <3>2. QED BY <2>1, <3>1, Updated
  <2>3. Call(s)
    BY <1>3 DEF DirectToB
  <2>. HIDE DEF d, x
  <2>4. Body(Now, s) /\ s[1].op = "move" /\ s[1].joint = j0
    BY <1>1, <2>1, <2>2, DirectBBody
  <2>. HIDE DEF s
  <2>5. QED BY <1>1, <2>3, <2>4, OwnStep
<1>4. QED BY <1>2, <1>3

LEMMA ReverseKeeps ==
  ASSUME HomingInv, Reverse
  PROVE  HomingInv'
<1>. DEFINE s == Directly(Now.arg, GiveUp)
<1>1. todo # <<>> /\ Rest /\ axis' = axis /\ Now.op = "reverse" /\ Now \in Operation /\ Call(s)
  BY HeadFacts DEF Reverse, At
<1>2. Now.arg \in Int
  BY <1>1 DEF Operation
<1>3. Body(Now, s) /\ s[1].op = "move" /\ s[1].joint = j0
  BY <1>1, <1>2, ReverseBody
<1>. HIDE DEF s
<1>4. QED BY <1>1, <1>3, OwnStep

LEMMA HoldKeeps ==
  ASSUME HomingInv, Hold
  PROVE  HomingInv'
<1>1. /\ todo # <<>> /\ Rest /\ Now.op = "hold" /\ Now \in Operation /\ j0 \in Joint
      /\ TypeOK /\ StackInv /\ axis[j0] \in Axes
      /\ result' = result /\ unrestored' = unrestored /\ sampled' \in 0 .. Last + 1
      /\ ~Standalone => Still(axis[j0])
  BY HeadFacts, RestIs DEF Hold, At, Moving
<1>2. CASE AtBoundary(j0, Here)
  <2>. DEFINE s == <<Op("halt", j0)>> \o <<Kind("check", j0, "boundary")>>
  <2>1. Body(Now, s) /\ s[1].op = "halt" /\ s[1].joint = j0
    BY <1>1, HoldBody
  <2>2. Call(s)
    BY <1>2 DEF Hold, Halting
  <2>3. PICK r \in Axes : /\ Local(r) /\ r.zero = axis[j0].zero /\ r.lo = axis[j0].lo
                          /\ (~Standalone => Still(r))
    <3>1. CASE axis[j0].power
      <4>1. axis' = axis
        BY <1>2, <3>1 DEF Hold
      <4>2. Local(axis[j0])
        BY <1>1, <4>1, LocalSame
      <4>3. QED BY <1>1, <4>2
    <3>2. CASE ~axis[j0].power
      <4>. DEFINE r == Enabled(j0)
      <4>1. axis' = [axis EXCEPT ![j0] = r]
        BY <1>2, <3>2 DEF Hold
      <4>2. r \in Axes /\ Still(r) /\ r.zero = axis[j0].zero /\ r.lo = axis[j0].lo
        BY <1>1, EnabledIs
      <4>. HIDE DEF r
      <4>3. Local(r)
        BY <1>1, <4>1, <4>2, LocalTo
      <4>4. QED BY <4>2, <4>3
    <3>3. QED BY <3>1, <3>2
  <2>. HIDE DEF s
  <2>4. Now.op \notin AfterOps /\ Now.op \notin Exempt
    BY <1>1 DEF AfterOps, UnderRest, Exempt
  <2>5. \A i \in 1 .. Len(s) : s[i].op # "restore"
    BY <1>1, <2>1 DEF Body
  <2>6. QED BY <1>1, <2>1, <2>2, <2>3, <2>4, <2>5, CallStep
<1>3. CASE ~AtBoundary(j0, Here)
  <2>1. Unwind("error") /\ axis' = axis
    BY <1>3 DEF Hold, Raise
  <2>2. QED BY <1>1, <2>1, QuietRaise
<1>4. QED BY <1>2, <1>3

LEMMA CToBKeeps ==
  ASSUME HomingInv, CToB
  PROVE  HomingInv'
<1>1. /\ todo # <<>> /\ Rest /\ axis' = axis /\ Now.op = "c_to_b" /\ Now \in Operation /\ j0 \in Joint
      /\ TypeOK /\ StackInv /\ axis[j0] \in Axes
      /\ result' = result /\ unrestored' = unrestored /\ sampled' \in 0 .. Last + 1
      /\ ~Standalone => Still(axis[j0])
  BY HeadFacts, RestIs DEF CToB, At, Moving
<1>2. CASE On(j0, "C", Here)
  <2>. DEFINE r == axis[j0]
              s == IF Extension = 0 THEN Directly(-1, GiveUp) \o SetHome(j0)
                   ELSE LimitOp("extend", axis[j0].lo - Extension)
                          \o (Directly(-1, GiveUp) \o SetHome(j0)) \o Restore
  <2>1. /\ Body(Now, s)
        /\ s[1].joint = j0
        /\ s[1].op = "move" \/ (s[1].op = "extend" /\ \E i \in 1 .. Len(s) : s[i].op = "restore")
        /\ \A i \in 1 .. Len(s) : s[i].op = "restore" => s[i].arg = axis[j0].lo /\ s[i].joint = j0
    <3>1. axis[j0].lo \in Int
      BY <1>1 DEF Axes
    <3>2. QED BY <1>1, <3>1, CToBBody
  <2>2. Call(s)
    BY <1>2 DEF CToB
  <2>3. Local(r)
    BY <1>1, LocalSame
  <2>. HIDE DEF s, r
  <2>4. r = axis[j0]
    BY DEF r
  <2>5. Now.op \notin AfterOps /\ Now.op \notin Exempt
    BY <1>1 DEF AfterOps, UnderRest, Exempt
  <2>6. s[1].op = "extend" => RestoreFor(s, s[1].joint)
    BY <2>1 DEF RestoreFor
  <2>7. QED BY <1>1, <2>1, <2>2, <2>3, <2>4, <2>5, <2>6, CallStep
<1>3. CASE ~On(j0, "C", Here)
  <2>1. Unwind("error")
    BY <1>3 DEF CToB, Raise
  <2>2. QED BY <1>1, <2>1, QuietRaise
<1>4. QED BY <1>2, <1>3

-----------------------------------------------------------------------------
(***************************************************************************)
(* The drives by themselves.                                               *)
(***************************************************************************)
\* What a drive may do by itself to an axis that is a.
DrivenTo(a, r) ==
  /\ r \in Axes /\ r.lo = a.lo /\ r.power = a.power /\ r.start = a.start
  /\ Still(a) => Still(r) /\ r.pos = a.pos
  /\ InPosition(a) => InPosition(r)
  /\ Settled(a) => Settled(r)
  /\ r.zero # a.zero => a.start /\ a.mode = "homing"

\* Each step of a drive is of that kind.
LEMMA DriveIs ==
  ASSUME TypeOK, NEW j \in Joint, DriveStep(j) \/ Fails(j)
  PROVE  \E r : DrivenTo(axis[j], r) /\ axis' = [axis EXCEPT ![j] = r]
<1>. DEFINE a == axis[j]
<1>1. a \in Axes /\ axis \in [Joint -> Axes] /\ Counter(j) = a.pos - a.zero
  BY DEF TypeOK, Counter
<1>2. HomeOffset[j] \in Int /\ a.pos \in Int /\ a.zero \in Int /\ a.target \in Int
  <2>1. a.pos \in Place /\ a.zero \in Int /\ a.target \in Int
    BY <1>1 DEF Axes
  <2>2. QED BY <2>1, AxisAssumption DEF Place
<1>3. CASE Moves(j)
  <2>. DEFINE r == [a EXCEPT !.pos = @ + Heading(j)]
  <2>1. axis' = [axis EXCEPT ![j] = r]
    BY <1>1, <1>3 DEF Moves
  <2>2. a.power /\ ~a.halt /\ a.mode = "position" /\ a.goal # a.pos - a.zero /\ a.pos + Heading(j) \in Place
    BY <1>1, <1>3 DEF Moves, Running, Driven, Blocked
  <2>3. DrivenTo(a, r)
    BY <1>1, <2>2 DEF DrivenTo, Axes, Still, InPosition, Settled
  <2>4. QED BY <2>1, <2>3
<1>4. CASE Loads(j)
  <2>. DEFINE r == [a EXCEPT !.ack = TRUE, !.goal = a.target + (IF a.relative THEN Counter(j) ELSE 0)]
  <2>1. axis' = [axis EXCEPT ![j] = r]
    BY <1>1, <1>4 DEF Loads
  <2>2. a.start /\ ~a.ack /\ a.mode = "position"
    BY <1>4 DEF Loads
  <2>3. a.target + (IF a.relative THEN Counter(j) ELSE 0) \in Int
    BY <1>1, <1>2
  <2>4. DrivenTo(a, r)
    BY <1>1, <2>2, <2>3 DEF DrivenTo, Axes, Still, InPosition, Settled
  <2>5. QED BY <2>1, <2>4
<1>5. CASE Releases(j)
  <2>. DEFINE r == [a EXCEPT !.ack = FALSE]
  <2>1. axis' = [axis EXCEPT ![j] = r] /\ ~a.start
    BY <1>1, <1>5 DEF Releases
  <2>2. DrivenTo(a, r)
    BY <1>1, <2>1 DEF DrivenTo, Axes, Still, InPosition, Settled
  <2>3. QED BY <2>1, <2>2
<1>6. CASE EntersHoming(j)
  <2>. DEFINE r == [a EXCEPT !.mode = "homing", !.ack = FALSE]
  <2>1. axis' = [axis EXCEPT ![j] = r] /\ a.wanted = "homing"
    BY <1>1, <1>6 DEF EntersHoming
  <2>2. DrivenTo(a, r)
    BY <1>1, <2>1 DEF DrivenTo, Axes, Modes, Still, InPosition, Settled
  <2>3. QED BY <2>1, <2>2
<1>7. CASE Zeroes(j)
  <2>. DEFINE r == [a EXCEPT !.ack = TRUE, !.zero = a.pos - HomeOffset[j]]
  <2>1. axis' = [axis EXCEPT ![j] = r] /\ a.start /\ a.mode = "homing"
    BY <1>1, <1>7 DEF Zeroes
  <2>2. a.pos - HomeOffset[j] \in Int
    BY <1>1, <1>2
  <2>3. DrivenTo(a, r)
    BY <1>1, <2>1, <2>2 DEF DrivenTo, Axes, Still, InPosition, Settled
  <2>4. QED BY <2>1, <2>3
<1>8. CASE Fails(j)
  <2>. DEFINE r == [a EXCEPT !.fault = TRUE]
  <2>1. axis' = [axis EXCEPT ![j] = r]
    BY <1>1, <1>8 DEF Fails
  <2>2. DrivenTo(a, r)
    BY <1>1 DEF DrivenTo, Axes, Still, InPosition, Settled
  <2>3. QED BY <2>1, <2>2
<1>9. QED BY <1>3, <1>4, <1>5, <1>6, <1>7, <1>8 DEF DriveStep

\* A drive moves, answers or fails: the controller is where it was.
LEMMA DriveStepKeeps ==
  ASSUME HomingInv, NEW i \in Joint, DriveStep(i) \/ Fails(i),
         UNCHANGED <<todo, raised, result, sampled, unrestored>>
  PROVE  HomingInv'
<1>1. /\ TypeOK /\ StackInv /\ RestInv /\ LimitsInv /\ RefInv /\ ClearInv /\ PowerInv
      /\ todo' = todo /\ raised' = raised /\ result' = result /\ sampled' = sampled
      /\ unrestored' = unrestored /\ axis \in [Joint -> Axes]
  BY DEF HomingInv, TypeOK
<1>2. PICK r : DrivenTo(axis[i], r) /\ axis' = [axis EXCEPT ![i] = r]
  BY <1>1, DriveIs
<1>3. /\ axis' \in [Joint -> Axes] /\ axis'[i] = r
      /\ \A j \in Joint : j # i => axis'[j] = axis[j]
      /\ \A j \in Joint : axis'[j].lo = axis[j].lo /\ axis'[j].power = axis[j].power
                          /\ axis'[j].start = axis[j].start
  BY <1>1, <1>2 DEF DrivenTo
<1>4. /\ \A j \in Joint : Still(axis[j]) => Still(axis'[j]) /\ axis'[j].pos = axis[j].pos
      /\ \A j \in Joint : InPosition(axis[j]) => InPosition(axis'[j])
      /\ \A j \in Joint : Settled(axis[j]) => Settled(axis'[j])
      /\ \A j \in Joint : axis'[j].zero # axis[j].zero => axis[j].start /\ axis[j].mode = "homing"
  BY <1>2, <1>3 DEF DrivenTo
<1>5. Now' = Now /\ j0' = j0
  BY <1>1 DEF Now, j0
<1>6. TypeOK'
  BY <1>1, <1>3 DEF TypeOK
<1>7. StackInv'
  BY <1>1 DEF StackInv
<1>8. todo # <<>> => j0 \in Joint
  BY <1>1, HeadIs
<1>9. RestInv'
  <2>. SUFFICES ASSUME ~Standalone PROVE RestInv'
    BY DEF RestInv
  <2>1. \A j, k \in Joint : Still(axis'[j]) \/ Still(axis'[k]) \/ j = k
    BY <1>1, <1>4 DEF RestInv, AtRest
  <2>2. todo # <<>> => \A j \in Joint : j = j0 \/ Still(axis'[j])
    BY <1>1, <1>4 DEF RestInv, AtRest
  <2>3. raised = "no" /\ todo = <<>> => \A j \in Joint : Still(axis'[j])
    BY <1>1, <1>4 DEF RestInv, AtRest
  <2>4. raised = "no" /\ todo # <<>> => (Now.op \notin Moving => Still(axis'[j0]))
    BY <1>1, <1>4, <1>8 DEF RestInv, AtRest
  <2>5. raised = "no" /\ todo # <<>> => HeadOK'
    <3>. SUFFICES ASSUME raised = "no", todo # <<>> PROVE HeadOK'
      OBVIOUS
    <3>1. HeadOK
      BY <1>1 DEF RestInv
    <3>2. QED BY <1>3, <1>4, <1>5, <1>8, <3>1 DEF HeadOK
  <2>6. QED BY <1>1, <1>5, <2>1, <2>2, <2>3, <2>4, <2>5 DEF RestInv, AtRest
<1>10. LimitsInv'
  BY <1>1, <1>3, <1>5 DEF LimitsInv, At
<1>11. RefInv'
  <2>. SUFFICES ASSUME ~Standalone, Validated, raised = "no", ~Ends(todo) PROVE RefInv'
    BY <1>1 DEF RefInv, Done, Ends
  <2>1. /\ \A j \in Required : Referenced(j)
        /\ \A k \in 1 .. Len(todo) : todo[k].op \in AfterOps
        /\ \A j \in Joint : axis[j].start => InPosition(axis[j])
    BY <1>1 DEF RefInv, Done
  <2>2. \A j \in Joint : axis'[j].zero = axis[j].zero
    BY <1>4, <2>1 DEF InPosition
  <2>3. \A j \in Required : Referenced(j)'
    BY <2>1, <2>2, HomingAssumption DEF Referenced, Within
  <2>4. QED BY <1>1, <1>3, <1>4, <2>1, <2>3 DEF RefInv, Done
<1>12. ClearInv'
  <2>. SUFFICES ASSUME ~Standalone, ClearanceConfig PROVE ClearInv'
    BY DEF ClearInv
  <2>1. \A j \in Joint : \A k \in NeedsParked[j] : k # j /\ k \in Joint
    BY HomingAssumption DEF ClearanceConfig, HomingConfigOK
  <2>2. \A k \in Joint : Still(axis[k]) => AtBoundary(k, axis[k].pos)' = AtBoundary(k, axis[k].pos)
    <3>. SUFFICES ASSUME NEW k \in Joint, Still(axis[k])
                  PROVE AtBoundary(k, axis[k].pos)' = AtBoundary(k, axis[k].pos)
      OBVIOUS
    <3>1. axis'[k].pos = axis[k].pos /\ axis'[k].lo = axis[k].lo /\ axis'[k].zero = axis[k].zero
      BY <1>3, <1>4 DEF Still
    <3>2. QED BY <3>1 DEF AtBoundary, NegLimit, PosLimit, SoftNeg, SoftPos, On
  <2>3. \A j \in Joint : AtRest(j)' \/ \A k \in NeedsParked[j] : AtBoundary(k, axis[k].pos)'
    <3>. SUFFICES ASSUME NEW j \in Joint, ~AtRest(j)', NEW k \in NeedsParked[j]
                  PROVE  AtBoundary(k, axis[k].pos)'
      OBVIOUS
    <3>1. ~Still(axis[j])
      BY <1>4 DEF AtRest
    <3>2. k # j /\ k \in Joint
      BY <2>1
    <3>3. Still(axis[k])
      BY <1>1, <3>1, <3>2 DEF RestInv, AtRest
    <3>4. AtBoundary(k, axis[k].pos)
      BY <1>1, <3>1 DEF ClearInv, AtRest
    <3>5. QED BY <2>2, <3>2, <3>3, <3>4
  <2>4. ASSUME raised = "no", todo # <<>>, Covered(Now), NEW k \in NeedsParked[j0]
        PROVE  AtBoundary(k, axis[k].pos)'
    <3>1. k # j0 /\ k \in Joint
      BY <1>8, <2>1, <2>4
    <3>2. Still(axis[k])
      BY <1>1, <2>4, <3>1 DEF RestInv, AtRest
    <3>3. AtBoundary(k, axis[k].pos)
      BY <1>1, <2>4 DEF ClearInv
    <3>4. QED BY <2>2, <3>1, <3>2, <3>3
  <2>5. Covered(Now)' <=> Covered(Now)
    BY <1>5 DEF Covered
  <2>6. QED BY <1>1, <1>5, <2>3, <2>4, <2>5 DEF ClearInv
<1>13. PowerInv'
  BY <1>1, <1>3 DEF PowerInv
<1>14. QED BY <1>6, <1>7, <1>9, <1>10, <1>11, <1>12, <1>13 DEF HomingInv

-----------------------------------------------------------------------------
(***************************************************************************)
(* The first state and the last.                                           *)
(***************************************************************************)
\* The programs a controller is asked to run.
LEMMA ProgramOK ==
  ASSUME NEW p \in Programs
  PROVE  /\ StackOK(p) /\ \A i \in 1 .. Len(p) : p[i] \in Entry
         /\ ClearanceConfig => \A i \in 1 .. Len(p) : ~Covered(p[i])
         /\ p # <<>> => Head(p) = p[1] /\ 1 \in 1 .. Len(p)
<1>1. Entry \subseteq Operation
  BY DEF Entry, Operation, Names, Kinds
<1>2. /\ p \in Seq(Entry) /\ Len(p) \in Nat /\ \A i \in 1 .. Len(p) : p[i] \in Entry
      /\ p # <<>> => Head(p) = p[1] /\ Len(p) >= 1
  BY ProgramsAssumption
<1>3. p \in Seq(Operation)
  BY <1>1, <1>2
<1>4. ClearanceConfig => \A i \in 1 .. Len(p) : ~Covered(p[i])
  BY DEF ClearanceConfig, Covered
<1>5. \A a \in Entry : ~Opens(a) /\ ~Starter(a) /\ ~DirectedSeek(a) /\ a.op \notin Active
  BY DEF Entry, Opens, Starter, DirectedSeek, Active
<1>6. \A a, b \in Entry : Above(a, b)
  BY DEF Entry, Above
<1>7. \A a, b \in Entry : (ClearanceConfig => ~Covered(b)) => Follows(a, b)
  <2>. SUFFICES ASSUME NEW a \in Entry, NEW b \in Entry, ClearanceConfig => ~Covered(b)
                PROVE  Follows(a, b)
    OBVIOUS
  <2>1. b.op \notin {"latched", "released", "reach", "verify", "goto_rest", "ready", "extend"}
    BY DEF Entry
  <2>2. ClearanceConfig => Covers(a, b)
    BY DEF Covers
  <2>3. QED BY <1>5, <2>1, <2>2 DEF Follows
<1>8. Linked(p)
  BY <1>2, <1>4, <1>7 DEF Linked
<1>9. QED BY <1>2, <1>3, <1>4, <1>5, <1>6, <1>8 DEF StackOK

\* The invariant holds when the controller starts.
LEMMA InitHolds ==
  ASSUME HInit
  PROVE  HomingInv
<1>1. PICK place \in [Joint -> Place], zero \in [Joint -> StartZeros] :
       /\ \A j \in Joint : place[j] \in StartPlaces[j]
       /\ axis = [j \in Joint |->
            [pos |-> place[j], zero |-> zero[j], lo |-> LoLimit[j],
             power |-> TRUE, halt |-> FALSE, start |-> FALSE, relative |-> FALSE,
             ack |-> FALSE, wanted |-> "position", mode |-> "position",
             target |-> place[j] - zero[j], goal |-> place[j] - zero[j],
             fault |-> FALSE]]
  BY DEF HInit
<1>2. /\ todo \in Programs /\ raised = "no" /\ result = "running"
      /\ sampled = NotRead /\ unrestored = FALSE
  BY DEF HInit
<1>3. \A j \in Joint : /\ axis[j] \in Axes /\ Still(axis[j]) /\ axis[j].lo = LoLimit[j]
                       /\ ~axis[j].start
  <2>. SUFFICES ASSUME NEW j \in Joint
                PROVE  axis[j] \in Axes /\ Still(axis[j]) /\ axis[j].lo = LoLimit[j] /\ ~axis[j].start
    OBVIOUS
  <2>1. /\ place[j] \in Place /\ zero[j] \in Int /\ LoLimit[j] \in Int /\ place[j] - zero[j] \in Int
    <3>1. place[j] \in Place /\ zero[j] \in StartZeros
      OBVIOUS
    <3>2. zero[j] \in Int /\ LoLimit[j] \in Int
      BY <3>1, AxisAssumption, HomingAssumption
    <3>3. place[j] \in Int
      BY <3>1, AxisAssumption DEF Place
    <3>4. QED BY <3>1, <3>2, <3>3
  <2>2. QED BY <1>1, <2>1 DEF Axes, Modes, Still
<1>4. TypeOK
  <2>1. axis \in [Joint -> Axes]
    BY <1>1, <1>3
  <2>2. NotRead \in 0 .. Last + 1
    BY AxisAssumption DEF NotRead
  <2>3. QED BY <1>2, <2>1, <2>2 DEF TypeOK
<1>5. /\ StackOK(todo) /\ \A i \in 1 .. Len(todo) : todo[i] \in Entry
      /\ ClearanceConfig => \A i \in 1 .. Len(todo) : ~Covered(todo[i])
      /\ todo # <<>> => Now = todo[1] /\ 1 \in 1 .. Len(todo)
  BY <1>2, ProgramOK DEF Now
<1>6. StackInv
  BY <1>2, <1>5 DEF StackInv
<1>7. todo # <<>> => /\ Now \in Entry /\ j0 \in Joint
                     /\ Now.op \notin {"ready", "latched", "released", "reach", "goto_rest", "verify",
                                       "extend", "restore"}
                     /\ ClearanceConfig => ~Covered(Now)
  BY <1>5 DEF Entry, j0
<1>8. RestInv
  BY <1>3, <1>7 DEF RestInv, AtRest, HeadOK
<1>9. LimitsInv
  <2>1. \A i \in 1 .. Len(todo) : todo[i].op # "restore"
    BY <1>5 DEF Entry
  <2>2. ~At("extend")
    BY <1>7 DEF At
  <2>3. QED BY <1>3, <2>1, <2>2 DEF LimitsInv
<1>10. RefInv
  BY <1>2 DEF RefInv, Done, Validated
<1>11. ClearInv
  BY <1>3, <1>7 DEF ClearInv, AtRest
<1>12. PowerInv
  BY <1>2 DEF PowerInv
<1>13. QED BY <1>4, <1>6, <1>8, <1>9, <1>10, <1>11, <1>12 DEF HomingInv

\* The end of the controller: its drives as they were or without power.
LEMMA EndKeeps ==
  ASSUME HomingInv, todo = <<>>, todo' = todo, raised' = raised, sampled' = sampled,
         unrestored' = unrestored, result' \in {"homed", "failed", "interrupted"},
         result' = "homed" => raised = "no" /\ ~Standalone, result' = "failed" => ~Standalone,
         NEW reached \in SUBSET Joint,
         axis' = [j \in Joint |-> IF j \in reached THEN Unpowered(j) ELSE axis[j]],
         "link" \notin Hazards /\ (result' = "failed" \/ (result' = "interrupted" /\ Standalone)) =>
           reached = Joint
  PROVE  HomingInv'
<1>1. /\ TypeOK /\ StackInv /\ RestInv /\ LimitsInv /\ RefInv /\ ClearInv /\ axis \in [Joint -> Axes]
  BY DEF HomingInv, TypeOK
<1>2. \A j \in Joint : /\ axis'[j] \in Axes /\ axis'[j].zero = axis[j].zero /\ axis'[j].lo = axis[j].lo
                       /\ axis'[j].pos = axis[j].pos /\ (axis'[j].start => axis'[j] = axis[j])
                       /\ (Still(axis[j]) => Still(axis'[j])) /\ (j \in reached => ~axis'[j].power)
  <2>. SUFFICES ASSUME NEW j \in Joint
                PROVE  /\ axis'[j] \in Axes /\ axis'[j].zero = axis[j].zero /\ axis'[j].lo = axis[j].lo
                       /\ axis'[j].pos = axis[j].pos /\ (axis'[j].start => axis'[j] = axis[j])
                       /\ (Still(axis[j]) => Still(axis'[j])) /\ (j \in reached => ~axis'[j].power)
    OBVIOUS
  <2>1. axis[j] \in Axes
    BY <1>1
  <2>2. CASE j \in reached
    <3>. DEFINE a == Unpowered(j)
    <3>1. axis'[j] = a
      BY <2>2
    <3>2. a \in Axes /\ a.zero = axis[j].zero /\ a.lo = axis[j].lo /\ a.pos = axis[j].pos
          /\ ~a.start /\ ~a.power
      BY <2>1 DEF Unpowered, Axes
    <3>3. Still(a)
      BY <3>2 DEF Still
    <3>. HIDE DEF a
    <3>4. QED BY <3>1, <3>2, <3>3
  <2>3. CASE j \notin reached
    <3>1. axis'[j] = axis[j]
      BY <2>3
    <3>2. QED BY <2>1, <2>3, <3>1
  <2>4. QED BY <2>2, <2>3
<1>3. TypeOK'
  <2>1. axis' \in [Joint -> Axes]
    BY <1>2
  <2>2. QED BY <1>1, <2>1 DEF TypeOK
<1>4. StackInv'
  BY <1>1 DEF StackInv
<1>5. RestInv'
  BY <1>1, <1>2 DEF RestInv, AtRest
<1>6. LimitsInv'
  <2>1. Len(todo) = 0 /\ ~At("extend")'
    BY DEF At
  <2>2. QED BY <1>1, <1>2, <2>1 DEF LimitsInv
<1>7. RefInv'
  <2>1. \A j \in Required : Referenced(j) => Referenced(j)'
    BY <1>2, HomingAssumption DEF Referenced, Within
  <2>2. QED BY <1>1, <1>2, <2>1 DEF RefInv, Done, Ends
<1>8. ClearInv'
  <2>. SUFFICES ASSUME ~Standalone, ClearanceConfig, NEW j \in Joint, ~AtRest(j)', NEW k \in NeedsParked[j]
                PROVE  AtBoundary(k, axis[k].pos)'
    BY DEF ClearInv
  <2>1. k \in Joint
    BY HomingAssumption DEF HomingConfigOK
  <2>2. AtBoundary(k, axis[k].pos)
    BY <1>1, <1>2 DEF ClearInv, AtRest
  <2>3. axis'[k].pos = axis[k].pos /\ axis'[k].lo = axis[k].lo /\ axis'[k].zero = axis[k].zero
    BY <1>2, <2>1
  <2>4. QED BY <2>2, <2>3 DEF AtBoundary, NegLimit, PosLimit, SoftNeg, SoftPos, On
<1>9. PowerInv'
  BY <1>2 DEF PowerInv
<1>10. QED BY <1>3, <1>4, <1>5, <1>6, <1>7, <1>8, <1>9 DEF HomingInv

\* The end of a program: success, failure, or the next command.
LEMMA StageKeeps ==
  ASSUME HomingInv, Stage
  PROVE  HomingInv'
<1>1. /\ TypeOK /\ StackInv /\ LimitsInv /\ axis \in [Joint -> Axes]
  BY DEF HomingInv, TypeOK
<1>2. /\ todo = <<>> /\ sampled' = sampled /\ unrestored' = unrestored /\ result = "running"
  BY DEF Stage, Succeed, Fail, Quit, NextCommand, Ended
<1>3. CASE Succeed \/ (Quit /\ ~Standalone)
  <2>1. axis' = [j \in Joint |-> IF j \in {} THEN Unpowered(j) ELSE axis[j]]
    BY <1>1, <1>3 DEF Succeed, Quit
  <2>2. /\ todo' = todo /\ raised' = raised /\ {} \in SUBSET Joint /\ ~Standalone
        /\ result' = "homed" \/ result' = "interrupted"
        /\ result' = "homed" => raised = "no"
    BY <1>3 DEF Succeed, Quit
  <2>3. QED BY <1>2, <2>1, <2>2, EndKeeps
<1>4. CASE Fail \/ (Quit /\ Standalone)
  <2>1. PICK reached \in (IF "link" \in Hazards THEN SUBSET Joint ELSE {Joint}) :
          axis' = [j \in Joint |-> IF j \in reached THEN Unpowered(j) ELSE axis[j]]
    BY <1>4 DEF Fail, Quit, DisableAll
  <2>2. reached \in SUBSET Joint /\ ("link" \notin Hazards => reached = Joint)
    BY <2>1
  <2>3. /\ todo' = todo /\ raised' = raised
        /\ result' = "failed" \/ result' = "interrupted"
        /\ result' = "failed" => ~Standalone
    BY <1>4 DEF Fail, Quit
  <2>4. QED BY <1>2, <2>1, <2>2, <2>3, EndKeeps
<1>5. CASE NextCommand
  <2>1. /\ todo' \in Programs /\ raised' = "no" /\ axis' = axis /\ result' = result /\ Standalone
    BY <1>5 DEF NextCommand
  <2>. DEFINE p == todo'
  <2>2. /\ StackOK(p) /\ \A i \in 1 .. Len(p) : p[i] \in Entry
        /\ p # <<>> => Head(p) = p[1] /\ 1 \in 1 .. Len(p)
    BY <2>1, ProgramOK
  <2>3. \A i \in 1 .. Len(p) : p[i].op # "restore" /\ p[i].op # "extend"
    BY <2>2 DEF Entry
  <2>4. TypeOK'
    BY <1>1, <1>2, <2>1 DEF TypeOK
  <2>5. StackInv'
    BY <1>1, <1>2, <2>1, <2>2 DEF StackInv
  <2>6. RestInv' /\ RefInv' /\ ClearInv'
    BY <2>1 DEF RestInv, RefInv, Done, ClearInv
  <2>7. LimitsInv'
    <3>1. ~At("extend")'
      BY <2>2, <2>3 DEF At, Now
    <3>2. Len(todo) = 0
      BY <1>2
    <3>3. QED BY <1>1, <1>2, <2>1, <2>3, <3>1, <3>2 DEF LimitsInv
  <2>8. PowerInv'
    BY <1>2, <2>1 DEF PowerInv
  <2>9. QED BY <2>4, <2>5, <2>6, <2>7, <2>8 DEF HomingInv
<1>6. QED BY <1>3, <1>4, <1>5 DEF Stage

-----------------------------------------------------------------------------
(***************************************************************************)
(* The theorems.                                                           *)
(***************************************************************************)
\* No step breaks the inductive invariant: one lemma for each action.
THEOREM HomingStep ==
  ASSUME HomingInv, [HNext]_hvars
  PROVE  HomingInv'
<1>1. CASE Stage
  BY <1>1, StageKeeps
<1>2. CASE Access
  BY <1>2, CheckKeeps, MoveKeeps, EnableFailsKeeps, ReadyKeeps, LatchedKeeps, ReleasedKeeps,
     AwaitTargetKeeps, HaltKeeps, SoftHaltEndsKeeps, MoveJointKeeps, MoveJointRestKeeps,
     FirstReadKeeps, DecideKeeps, NeutralTargetKeeps, StartEdgeKeeps, TargetReplacedKeeps,
     RequestHomingKeeps, ConfirmHomingKeeps, AwaitHomedKeeps, VerifyKeeps, ValidateReferencesKeeps
     DEF Access
<1>3. CASE Strategize
  BY <1>3, HomeJointKeeps, ParkAtAKeeps, HomeFromAToBKeeps, SearchBKeeps, ParkAtCKeeps, HoldKeeps,
     ParkAtBoundaryKeeps, DirectKeeps, DirectToBKeeps, ReverseKeeps, CToBKeeps, WriteLimitKeeps,
     SingleKeeps DEF Strategize
<1>4. CASE TimesOut
  BY <1>4, TimesOutKeeps
<1>5. CASE SdoFails \/ Interrupt
  <2>1. raised \in {"no", "error", "interrupt"}
    BY DEF HomingInv, TypeOK
  <2>2. PICK x \in {"error", "interrupt"} : Breaks(x)
    BY <1>5, <2>1 DEF SdoFails, Interrupt
  <2>3. QED BY <2>2, BreaksKeeps
<1>6. CASE DriveFails \/ Drives
  <2>1. PICK j \in Joint : DriveStep(j) \/ Fails(j)
    BY <1>6 DEF DriveFails, Drives
  <2>2. UNCHANGED <<todo, raised, result, sampled, unrestored>>
    BY <1>6 DEF DriveFails, Drives
  <2>3. QED BY <2>1, <2>2, DriveStepKeeps
<1>7. CASE UNCHANGED hvars
  <2>1. /\ axis' = axis /\ todo' = todo /\ raised' = raised /\ result' = result
        /\ unrestored' = unrestored /\ sampled' = sampled /\ sampled \in 0 .. Last + 1
    BY <1>7 DEF hvars, HomingInv, TypeOK
  <2>2. QED BY <2>1, QuietStep
<1>8. QED BY <1>1, <1>2, <1>3, <1>4, <1>5, <1>6, <1>7 DEF HNext, Controller, Stopped

\* The inductive invariant holds in every reachable state, whatever the
\* programs, the joints and the failures.
THEOREM HomingSafe == HSpec => []HomingInv
<1>1. HInit => HomingInv
  BY InitHolds
<1>2. HomingInv /\ [HNext]_hvars => HomingInv'
  BY HomingStep
<1>3. QED BY <1>1, <1>2, PTL DEF HSpec

\* The state keeps its type: the places of the joints, the stack and the
\* outcome.
THEOREM HomingTypes == HSpec => [](TypeOK /\ StackOK(todo))
<1>1. HomingInv => TypeOK /\ StackOK(todo)
  BY DEF HomingInv, StackInv
<1>2. QED BY <1>1, HomingSafe, PTL

\* A joint in motion is not at rest.
LEMMA RunningIs ==
  ASSUME NEW j, Running(j)
  PROVE  ~AtRest(j) /\ axis[j].power
BY DEF Running, Driven, AtRest, Still, Counter

\* At most one finally clause is pending: what an exception leaves of the
\* stack is determined.
THEOREM OneFinally == HSpec => [](\A k, l \in Pending : k = l)
<1>1. ASSUME HomingInv, NEW k \in Pending, NEW l \in Pending
      PROVE  k = l
  <2>1. /\ Len(todo) \in Nat
        /\ \A x, y \in 1 .. Len(todo) : x < y => Above(todo[x], todo[y])
        /\ k \in 1 .. Len(todo) /\ l \in 1 .. Len(todo) /\ todo[k].op = "restore" /\ todo[l].op = "restore"
    BY <1>1 DEF HomingInv, StackInv, StackOK, Pending, IsFinally
  <2>2. \A x, y \in 1 .. Len(todo) : todo[x].op = "restore" /\ todo[y].op = "restore" => ~(x < y)
    BY <2>1 DEF Above, Inner, UnderRest
  <2>3. QED BY <2>1, <2>2
<1>2. HomingInv => \A k, l \in Pending : k = l
  BY <1>1
<1>3. QED BY <1>2, HomingSafe, PTL

\* Start-up by hardware_bridge.py never has two joints in motion together,
\* whatever program of homing steps it runs and wherever it fails.
THEOREM OneJointMoves == ASSUME ~Standalone PROVE HSpec => []OneAtATime
<1>1. HomingInv => OneAtATime
  BY RunningIs DEF HomingInv, RestInv, OneAtATime
<1>2. QED BY <1>1, HomingSafe, PTL

\* Programs that end with the reference check, gotos aside, end in "homed" only
\* with the counter of every required joint true.
THEOREM HomedIsReferenced == ASSUME Validated PROVE HSpec => []HomedMeansReferenced
<1>1. HomingInv => HomedMeansReferenced
  <2>. SUFFICES ASSUME HomingInv, result = "homed" PROVE \A j \in Required : Referenced(j)
    BY DEF HomedMeansReferenced
  <2>1. todo = <<>> /\ raised = "no" /\ ~Standalone
    BY DEF HomingInv, StackInv
  <2>2. ~Ends(todo)
    BY <2>1 DEF Ends
  <2>3. QED BY <2>1, <2>2 DEF HomingInv, RefInv, Done
<1>2. QED BY <1>1, HomingSafe, PTL

\* Unless a drive cannot be reached any more, the arm is at rest when start-up
\* or the command loop is over.
THEOREM ArmLeftAtRest == ASSUME "link" \notin Hazards PROVE HSpec => []NothingLeftRunning
<1>1. HomingInv => NothingLeftRunning
  <2>. SUFFICES ASSUME HomingInv, NEW j \in Joint, Running(j),
                       result = "homed" \/ result = "failed" \/ (result = "interrupted" /\ Standalone)
                PROVE  FALSE
    BY DEF NothingLeftRunning
  <2>1. CASE result = "homed"
    <3>1. todo = <<>> /\ raised = "no" /\ ~Standalone
      BY <2>1 DEF HomingInv, StackInv
    <3>2. AtRest(j)
      BY <3>1 DEF HomingInv, RestInv
    <3>3. QED BY <3>2, RunningIs
  <2>2. CASE result # "homed"
    BY <2>2, RunningIs DEF HomingInv, PowerInv
  <2>3. QED BY <2>1, <2>2
<1>2. QED BY <1>1, HomingSafe, PTL

\* When the controller is done, however it ends, each negative software limit
\* is the configured one, unless the write that restores it failed itself.
THEOREM LimitsAreRestored == HSpec => []LimitsRestored
<1>1. HomingInv => LimitsRestored
  <2>. SUFFICES ASSUME HomingInv, result # "running", ~unrestored, NEW j \in Joint
                PROVE  axis[j].lo = LoLimit[j]
    BY DEF LimitsRestored
  <2>1. todo = <<>>
    BY DEF HomingInv, StackInv
  <2>2. Len(todo) = 0
    BY <2>1
  <2>3. QED BY <2>2 DEF HomingInv, LimitsInv
<1>2. QED BY <1>1, HomingSafe, PTL

\* Every step but a drive's own motion and a halt leaves the joints in place.
SamePlaces == \A j \in Joint : axis'[j].pos = axis[j].pos

\* Enabling a joint leaves it in place.
LEMMA EnabledStays ==
  ASSUME TypeOK, NEW j,
         \/ axis' = [axis EXCEPT ![j] = Enabled(j)]
         \/ \E t : axis' = [axis EXCEPT ![j] = [Enabled(j) EXCEPT !.target = t]]
  PROVE  SamePlaces
<1>1. axis \in [Joint -> Axes]
  BY DEF TypeOK
<1>2. CASE j \in Joint
  <2>1. axis[j] \in Axes
    BY <1>1, <1>2
  <2>2. Enabled(j).pos = axis[j].pos /\ \A t : [Enabled(j) EXCEPT !.target = t].pos = axis[j].pos
    BY <2>1 DEF Enabled, Axes
  <2>3. QED BY <1>1, <2>2 DEF SamePlaces
<1>3. CASE j \notin Joint
  BY <1>1, <1>3 DEF SamePlaces
<1>4. QED BY <1>2, <1>3

\* So does every access but a halt, every strategy, and the end.
LEMMA AccessStays ==
  ASSUME TypeOK, Access, ~Halt
  PROVE  SamePlaces
<1>1. axis \in [Joint -> Axes]
  BY DEF TypeOK
<1>2. CASE RaiseNow \/ Released \/ AwaitTarget \/ FirstRead \/ Decide \/ CheckSwitch \/ AwaitInactive
           \/ ConfirmHoming \/ AwaitHomed \/ ValidateReferences
  <2>1. axis' = axis
    BY <1>2 DEF RaiseNow, Released, AwaitTarget, FirstRead, Decide, CheckSwitch, AwaitInactive,
       ConfirmHoming, AwaitHomed, ValidateReferences
  <2>2. QED BY <2>1 DEF SamePlaces
<1>3. CASE Move
  <2>1. \/ axis' = [axis EXCEPT ![j0] = Enabled(j0)]
        \/ \E t : axis' = [axis EXCEPT ![j0] = [Enabled(j0) EXCEPT !.target = t]]
    BY <1>3 DEF Move
  <2>2. QED BY <2>1, EnabledStays
<1>4. CASE EnableFails
  BY <1>1, <1>4 DEF EnableFails, Unpowered, Axes, SamePlaces
<1>5. CASE Ready
  BY <1>1, <1>5 DEF Ready, Axes, SamePlaces
<1>6. CASE Latched
  BY <1>1, <1>6 DEF Latched, Axes, SamePlaces
<1>7. CASE SoftHaltEnds
  BY <1>1, <1>7 DEF SoftHaltEnds, Axes, SamePlaces
<1>8. CASE MoveJoint
  <2>1. \/ axis' = [axis EXCEPT ![j0] = Enabled(j0)]
        \/ \E t : axis' = [axis EXCEPT ![j0] = [Enabled(j0) EXCEPT !.target = t]]
    BY <1>8 DEF MoveJoint
  <2>2. QED BY <2>1, EnabledStays
<1>9. CASE MoveJointRest
  <2>1. axis' = axis \/ axis' = [axis EXCEPT ![j0].target = Now.arg]
    BY <1>9 DEF MoveJointRest
  <2>2. QED BY <1>1, <2>1 DEF Axes, SamePlaces
<1>10. CASE NeutralTarget
  BY <1>1, <1>10 DEF NeutralTarget, Axes, SamePlaces
<1>11. CASE StartEdge
  BY <1>1, <1>11 DEF StartEdge, Axes, SamePlaces
<1>12. CASE TargetReplaced
  BY <1>1, <1>12 DEF TargetReplaced, Axes, SamePlaces
<1>13. CASE RequestHoming
  BY <1>1, <1>13 DEF RequestHoming, Axes, SamePlaces
<1>14. CASE Verify
  BY <1>1, <1>14 DEF Verify, Axes, SamePlaces
<1>15. QED
  BY <1>2, <1>3, <1>4, <1>5, <1>6, <1>7, <1>8, <1>9, <1>10, <1>11, <1>12, <1>13, <1>14 DEF Access

LEMMA StrategyStays ==
  ASSUME TypeOK, Strategize
  PROVE  SamePlaces
<1>1. axis \in [Joint -> Axes]
  BY DEF TypeOK
<1>2. CASE HomeJoint \/ ParkAtA \/ ParkAtAAgain \/ HomeFromAToB \/ SearchB \/ ParkAtC
           \/ ParkAtBoundary \/ Direct \/ DirectToB \/ Reverse \/ CToB \/ Single
  <2>1. axis' = axis
    BY <1>2 DEF HomeJoint, ParkAtA, ParkAtAAgain, HomeFromAToB, SearchB, ParkAtC, ParkAtBoundary,
       Direct, DirectToB, Reverse, CToB, Single
  <2>2. QED BY <2>1 DEF SamePlaces
<1>3. CASE Hold
  <2>1. axis' = axis \/ axis' = [axis EXCEPT ![j0] = Enabled(j0)]
    BY <1>3 DEF Hold
  <2>2. QED BY <2>1, EnabledStays DEF SamePlaces
<1>4. CASE WriteLimit
  BY <1>1, <1>4 DEF WriteLimit, Axes, SamePlaces
<1>5. QED BY <1>2, <1>3, <1>4 DEF Strategize

LEMMA OthersStay ==
  ASSUME TypeOK, Stage \/ TimesOut \/ SdoFails \/ Interrupt \/ UNCHANGED hvars
  PROVE  SamePlaces
<1>1. axis \in [Joint -> Axes]
  BY DEF TypeOK
<1>2. CASE Succeed \/ NextCommand \/ SdoFails \/ Interrupt \/ UNCHANGED hvars
  <2>1. axis' = axis
    BY <1>2 DEF Succeed, NextCommand, SdoFails, Interrupt, Breaks, hvars
  <2>2. QED BY <2>1 DEF SamePlaces
<1>3. CASE Fail \/ Quit
  <2>1. axis' = axis \/ DisableAll
    BY <1>3 DEF Fail, Quit
  <2>2. ASSUME DisableAll PROVE SamePlaces
    <3>1. \A j \in Joint : Unpowered(j).pos = axis[j].pos
      BY <1>1 DEF Unpowered, Axes
    <3>2. QED BY <1>1, <2>2, <3>1 DEF DisableAll, SamePlaces
  <2>3. QED BY <2>1, <2>2 DEF SamePlaces
<1>4. CASE TimesOut
  BY <1>1, <1>4 DEF TimesOut, Axes, SamePlaces
<1>5. QED BY <1>2, <1>3, <1>4 DEF Stage

\* A joint changes place only while it is free to.
LEMMA MovedIs ==
  ASSUME HomingInv, [HNext]_hvars, NEW j \in Joint, axis'[j].pos # axis[j].pos
  PROVE  Running(j)
<1>1. TypeOK /\ StackInv /\ axis \in [Joint -> Axes]
  BY DEF HomingInv, TypeOK
<1>2. ~SamePlaces
  BY DEF SamePlaces
<1>3. CASE Halt
  <2>1. todo # <<>>
    BY <1>3 DEF Halt, At
  <2>2. PICK p \in RestingPlaces(j0) : axis' = [axis EXCEPT ![j0] = Halted(j0, p)]
    BY <1>3 DEF Halt
  <2>3. j0 \in Joint
    BY <1>1, <2>1, HeadIs
  <2>4. Halted(j0, p).pos = p
    BY <1>1, <2>3 DEF Halted, Axes
  <2>5. j = j0 /\ axis'[j].pos = p
    BY <1>1, <2>2, <2>3, <2>4
  <2>6. QED BY <2>5 DEF RestingPlaces
<1>4. CASE DriveFails \/ Drives
  <2>1. PICK i \in Joint : DriveStep(i) \/ Fails(i)
    BY <1>4 DEF DriveFails, Drives
  <2>2. CASE Moves(i)
    BY <1>1, <2>1, <2>2 DEF Moves
  <2>3. CASE ~Moves(i)
    <3>1. SamePlaces
      BY <1>1, <2>1, <2>3
         DEF DriveStep, Loads, Releases, EntersHoming, Zeroes, Fails, Axes, SamePlaces
    <3>2. QED BY <1>2, <3>1
  <2>4. QED BY <2>2, <2>3
<1>5. QED
  BY <1>1, <1>2, <1>3, <1>4, AccessStays, StrategyStays, OthersStay DEF HNext, Controller, Stopped

\* Start-up moves the upper arm only while the lower arm is at its boundary,
\* whatever the order of the homing steps and wherever one fails.  The later
\* move to pick-ready, a goto, is not meant to.
THEOREM ClearanceIsKept == ASSUME ~Standalone, ClearanceConfig PROVE HSpec => ClearanceKept
<1>1. ASSUME HomingInv, [HNext]_hvars, NEW j \in Joint, axis'[j].pos # axis[j].pos, NEW k \in NeedsParked[j]
      PROVE  AtBoundary(k, axis[k].pos)
  <2>1. ~AtRest(j)
    BY <1>1, MovedIs, RunningIs
  <2>2. QED BY <1>1, <2>1 DEF HomingInv, ClearInv
<1>2. HomingInv /\ [HNext]_hvars =>
        [\A j \in Joint : axis'[j].pos # axis[j].pos =>
           \A k \in NeedsParked[j] : AtBoundary(k, axis[k].pos)]_hvars
  BY <1>1
<1>3. QED BY <1>2, HomingSafe, PTL DEF HSpec, ClearanceKept
=============================================================================
