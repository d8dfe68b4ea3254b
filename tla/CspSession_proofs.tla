-------------------------- MODULE CspSession_proofs --------------------------
(***************************************************************************)
(* The bridge in a session is the bridge of module PdoBridge: theorems     *)
(* about CspSession, for any capacities of the queues and the sequence     *)
(* number, and through them those about PdoBridge; and what only the two   *)
(* together achieve, that a watchdog trip the client has noticed is final. *)
(***************************************************************************)
EXTENDS CspSession, PdoBridge_proofs, SequenceTheorems, WellFoundedInduction

(***************************************************************************)
(* The newest packet.                                                      *)
(***************************************************************************)
\* A nonempty set of positions in a sequence has a last one.
LEMMA LastExists ==
  ASSUME NEW n \in Nat, NEW T \in SUBSET (1 .. n), T # {}
  PROVE  \E m \in T : \A k \in T : k <= m
<1> DEFINE D == {n - i : i \in T}
<1>1. D \subseteq Nat /\ D # {}
  <2>1. \A i \in T : n - i \in Nat
    OBVIOUS
  <2> QED
    BY <2>1
<1>2. PICK x \in D : \A y \in D : ~ (<<y, x>> \in OpToRel(<, Nat))
  BY <1>1, NatLessThanWellFounded, WFMin
<1>3. \A y \in D : ~(y < x)
  <2>1. ASSUME NEW y \in D, y < x
        PROVE  FALSE
    <3>1. <<y, x>> \in Nat \X Nat
      BY <1>1
    <3>2. <<y, x>>[1] < <<y, x>>[2]
      BY <2>1
    <3>3. <<y, x>> \in OpToRel(<, Nat)
      BY <3>1, <3>2 DEF OpToRel
    <3> QED
      BY <1>2, <3>3
  <2> QED
    BY <2>1
<1>4. PICK m \in T : x = n - m
  OBVIOUS
<1>5. \A k \in T : n - k \in D
  OBVIOUS
<1>6. \A k \in T : k \in Int /\ n - k \in Int /\ ~(n - k < n - m)
  BY <1>3, <1>4, <1>5
<1>7. \A k \in T : k <= m
  BY <1>6
<1> QED
  BY <1>7

LEMMA NewestAccepted ==
  ASSUME replies \in Seq(Packets), Accepted # {}
  PROVE  Newest \in Accepted /\ replies[Newest] \in Packets
<1>1. DOMAIN replies = 1 .. Len(replies) /\ Len(replies) \in Nat
  BY LenProperties
<1>2. Accepted \in SUBSET (1 .. Len(replies))
  BY <1>1 DEF Accepted
<1>3. \E m \in Accepted : \A k \in Accepted : k <= m
  BY <1>1, <1>2, LastExists
<1>4. Newest \in Accepted
  BY <1>3 DEF Newest
<1> QED
  BY <1>1, <1>2, <1>4, ElementOfSeq

(***************************************************************************)
(* Every step of a session is a step of the bridge, or none.               *)
(***************************************************************************)
LEMMA Simulates ==
  ASSUME requests \in Seq(Datagrams), [SessionNext]_allvars
  PROVE  [Next]_vars
<1>1. CASE BridgeAlone
  BY <1>1 DEF BridgeAlone, Next, Step
<1>2. CASE TakeDatagram
  <2>1. Receive(Head(requests)) /\ requests # <<>>
    BY <1>2 DEF TakeDatagram
  <2>2. Head(requests) \in Datagrams
    BY <2>1, HeadTailProperties
  <2> QED
    BY <2>1, <2>2 DEF Next
<1>3. CASE DrainDone \/ Answer \/ CloseServer \/ BridgeInterrupted
  BY <1>3 DEF DrainDone, Answer, CloseServer, BridgeInterrupted, Next, Step
<1>4. CASE ClientStep
  <2>1. UNCHANGED vars
    BY <1>4 DEF ClientStep, Cycle, Open, Register, Configured, ConfigureTimesOut, Activate,
       ActivateTimesOut, Deactivate, Finish, Read, Write, OnError, FeedbackExpires, ClientTurn
  <2> QED
    BY <2>1
<1>5. CASE SessionEnds \/ UNCHANGED allvars
  BY <1>5 DEF SessionEnds, allvars
<1> QED
  BY <1>1, <1>2, <1>3, <1>4, <1>5 DEF SessionNext, BridgeStep

(***************************************************************************)
(* Types of the session.                                                   *)
(***************************************************************************)
LEMMA CountsMeasured ==
  ASSUME actual_counts \in MeasurableCounts, [Next]_vars
  PROVE  actual_counts' \in MeasurableCounts
<1>1. CASE UNCHANGED actual_counts
  BY <1>1
<1>2. CASE Connect
  <2>1. actual_counts' \in Poses
    BY <1>2 DEF Connect
  <2> QED
    BY <2>1, EnvironmentAssumption DEF MeasurableCounts
<1>3. CASE Exchange
  <2>1. PICK report \in [Joint -> Reports], pose \in Poses :
          actual_counts' =
            [j \in Joint |-> IF report[j].complete THEN pose[j] ELSE actual_counts[j]]
    BY <1>3 DEF Exchange, ReadInputs
  <2>2. \A j \in Joint : pose[j] \in {p[j] : p \in Poses}
    OBVIOUS
  <2> QED
    BY <2>1, <2>2 DEF MeasurableCounts
<1> QED
  BY <1>1, <1>2, <1>3 DEF Next, Step, PublishReady, StartCycle, DrainEnds, UpdateOutputs,
     RecordCycleTiming, SendFeedback, BeginClose, Release, Receive, Interrupt, Closed,
     vars, drive

LEMMA SequenceKept ==
  ASSUME latest_command_sequence \in Seqs, [Next]_vars
  PROVE  latest_command_sequence' \in Seqs
<1>1. CASE \E d \in Datagrams : Receive(d)
  <2>1. PICK d \in Datagrams : Receive(d)
    BY <1>1
  <2>2. d.kind # "malformed" => d.seq \in Seqs
    BY DEF Datagrams
  <2> QED
    BY <2>1, <2>2 DEF Receive
<1> QED
  BY <1>1 DEF Next, Step, Connect, PublishReady, StartCycle, DrainEnds, UpdateOutputs,
     Exchange, RecordCycleTiming, SendFeedback, BeginClose, Release, Interrupt, Closed,
     vars, ipc

SInv == TypeOK /\ SessionTypeOK

LEMMA PacketType ==
  ASSUME SInv
  PROVE  Packet \in Packets
<1>1. actual_positions \in Candidates
  BY SessionAssumption DEF SInv, SessionTypeOK, actual_positions
<1> QED
  BY <1>1 DEF SInv, TypeOK, SessionTypeOK, Packet, Feedback, Packets

\* What a client sends is a datagram, and the queue has room for it.
LEMMA SendProperties ==
  ASSUME SInv, NEW d \in Datagrams, Send(d)
  PROVE  /\ command_sequence' \in Seqs /\ NextSequence \in Seqs
         /\ requests' \in Seq(Datagrams) /\ Len(requests') <= QueueCap
<1>1. command_sequence \in 0 .. SeqCap /\ SeqCap \in Nat /\ QueueCap \in Nat /\ Seqs = 0 .. SeqCap
  BY SessionAssumption DEF SInv, SessionTypeOK
<1>2. NextSequence \in Seqs
  BY <1>1 DEF NextSequence, UpTo
<1>3. requests \in Seq(Datagrams) /\ Len(requests) <= QueueCap /\ Len(requests) \in Nat
  BY LenProperties DEF SInv, SessionTypeOK
<1>4. requests' \in Seq(Datagrams) /\ Len(requests') <= QueueCap
  <2>1. CASE Sendable
    <3>1. requests' = Append(requests, d) /\ Len(requests) < QueueCap
      BY <2>1 DEF Send, Sendable
    <3> QED
      BY <1>1, <1>3, <3>1, AppendProperties
  <2>2. CASE ~Sendable
    BY <1>3, <2>2 DEF Send
  <2> QED
    BY <2>1, <2>2
<1> QED
  BY <1>1, <1>2, <1>4 DEF Send

LEMMA DatagramTypes ==
  ASSUME SInv
  PROVE  /\ Plain("register") \in Datagrams /\ Plain("halt") \in Datagrams
         /\ \A a \in Candidates : Position(a) \in Datagrams
<1>1. NextSequence \in Seqs
  <2>1. command_sequence \in 0 .. SeqCap /\ SeqCap \in Nat /\ Seqs = 0 .. SeqCap
    BY SessionAssumption DEF SInv, SessionTypeOK
  <2> QED
    BY <2>1 DEF NextSequence, UpTo
<1> QED
  BY <1>1 DEF Plain, Position, Datagrams

\* What the client takes over from a packet.
ViewOK ==
  /\ have_feedback \in BOOLEAN /\ stale \in BOOLEAN
  /\ feedback_sequence \in Seqs /\ seen \in Packets

LEMMA PollProperties ==
  ASSUME SInv, Poll
  PROVE  /\ ViewOK' /\ replies' = <<>>
         /\ Accepted # {} => seen'.positions \in Candidates
<1>1. replies \in Seq(Packets) /\ ViewOK
  BY DEF SInv, SessionTypeOK, ViewOK
<1>2. CASE Accepted = {}
  BY <1>1, <1>2 DEF Poll, view, ViewOK
<1>3. CASE Accepted # {}
  <2>1. replies[Newest] \in Packets
    BY <1>1, <1>3, NewestAccepted
  <2>2. /\ have_feedback' = TRUE /\ stale' = FALSE
        /\ feedback_sequence' = replies[Newest].sequence /\ seen' = replies[Newest]
    BY <1>3 DEF Poll
  <2> QED
    BY <2>1, <2>2 DEF Poll, ViewOK, Packets
<1> QED
  BY <1>2, <1>3 DEF Poll

LEMMA SessionInitType == SessionInit => SInv
<1> SUFFICES ASSUME SessionInit PROVE SInv
  OBVIOUS
<1>1. TypeOK
  BY InitType DEF SessionInit
<1>2. actual_counts \in MeasurableCounts
  BY DEF SessionInit, Init, MeasurableCounts
<1>3. hw_commands \in Candidates
  BY <1>2, SessionAssumption DEF SessionInit
<1>4. 0 \in Seqs /\ latest_command_sequence \in Seqs
  BY SessionAssumption DEF SessionInit, Init
<1>5. seen \in Packets
  <2>1. actual_positions \in Candidates
    BY <1>2, SessionAssumption DEF actual_positions
  <2> QED
    BY <1>1, <1>4, <2>1 DEF SessionInit, Packet, Feedback, Packets, TypeOK
<1>6. <<>> \in Seq(Datagrams) /\ <<>> \in Seq(Packets) /\ Len(<<>>) <= QueueCap
  BY SessionAssumption
<1> QED
  BY <1>1, <1>2, <1>3, <1>4, <1>5, <1>6 DEF SessionInit, SInv, SessionTypeOK

LEMMA SessionNextType == SInv /\ [SessionNext]_allvars => SInv'
<1> SUFFICES ASSUME SInv, [SessionNext]_allvars PROVE SInv'
  OBVIOUS
<1>0. TypeOK /\ SessionTypeOK /\ [Next]_vars
  BY Simulates DEF SInv, SessionTypeOK
<1>1. TypeOK'
  BY <1>0, StepType
<1>2. actual_counts' \in MeasurableCounts /\ latest_command_sequence' \in Seqs
  BY <1>0, CountsMeasured, SequenceKept DEF SessionTypeOK
<1>3. SUFFICES SessionTypeOK'
  BY <1>1 DEF SInv
<1> USE <1>2
<1>v. ViewOK /\ hw_commands \in Candidates \cup {NonFinite} /\ <<>> \in Seq(Packets)
      /\ Len(<<>>) <= QueueCap
  BY <1>0, SessionAssumption DEF SessionTypeOK, ViewOK
<1>4. CASE BridgeAlone \/ BridgeInterrupted \/ DrainDone
  BY <1>0, <1>4 DEF BridgeAlone, BridgeInterrupted, DrainDone, session, control, view, SessionTypeOK
<1>5. CASE TakeDatagram
  <2>1. Tail(requests) \in Seq(Datagrams) /\ Len(Tail(requests)) <= QueueCap
    BY <1>0, <1>5, HeadTailProperties, LenProperties, SessionAssumption
    DEF TakeDatagram, SessionTypeOK
  <2> QED
    BY <1>0, <1>5, <2>1 DEF TakeDatagram, control, view, SessionTypeOK
<1>6. CASE Answer
  <2>1. replies' \in Seq(Packets) /\ Len(replies') <= QueueCap
    BY <1>0, <1>6, PacketType, AppendProperties, LenProperties, SessionAssumption
    DEF Answer, SessionTypeOK
  <2> QED
    BY <1>0, <1>6, <2>1 DEF Answer, control, view, SessionTypeOK
<1>7. CASE CloseServer
  <2>1. requests' \in Seq(Datagrams) /\ Len(requests') <= QueueCap
    BY <1>7, SessionAssumption DEF CloseServer
  <2> QED
    BY <1>0, <1>7, <2>1 DEF CloseServer, control, view, SessionTypeOK
<1>8. CASE Open
  <2>1. [seen EXCEPT !.hard = FALSE] \in Packets
    BY <1>v DEF ViewOK, Packets
  <2>2. 0 \in Seqs
    BY SessionAssumption
  <2> QED
    BY <1>0, <1>v, <1>8, <2>1, <2>2 DEF Open, SessionTypeOK
<1>9. CASE Register
  <2>1. /\ command_sequence' \in Seqs
        /\ requests' \in Seq(Datagrams) /\ Len(requests') <= QueueCap
    BY <1>9, DatagramTypes, SendProperties DEF Register
  <2> QED
    BY <1>0, <1>v, <1>9, <2>1 DEF Register, CloseSocket, view, SessionTypeOK
<1>10. CASE Configured \/ Activate
  <2>1. ViewOK' /\ replies' = <<>> /\ seen'.positions \in Candidates
    BY <1>10, PollProperties DEF Configured, Activate
  <2> QED
    BY <1>0, <1>v, <1>10, <2>1 DEF Configured, Activate, ViewOK, SessionTypeOK
<1>11. CASE ConfigureTimesOut
  BY <1>0, <1>v, <1>11 DEF ConfigureTimesOut, CloseSocket, SessionTypeOK
<1>12. CASE ActivateTimesOut \/ Read
  <2>1. ViewOK' /\ replies' = <<>>
    BY <1>12, PollProperties DEF ActivateTimesOut, Read
  <2> QED
    BY <1>0, <1>v, <1>12, <2>1 DEF ActivateTimesOut, Read, ViewOK, SessionTypeOK
<1>13. CASE Deactivate \/ OnError
  <2>1. /\ command_sequence' \in Seqs
        /\ requests' \in Seq(Datagrams) /\ Len(requests') <= QueueCap
    BY <1>13, DatagramTypes, SendProperties DEF Deactivate, OnError
  <2> QED
    BY <1>0, <1>13, <2>1 DEF Deactivate, OnError, view, SessionTypeOK
<1>14. CASE Finish
  <2>1. /\ command_sequence' \in Seqs
        /\ requests' \in Seq(Datagrams) /\ Len(requests') <= QueueCap
    BY <1>14, DatagramTypes, SendProperties DEF Finish
  <2> QED
    BY <1>0, <1>v, <1>14, <2>1 DEF Finish, CloseSocket, SessionTypeOK
<1>15. CASE Write
  <2>1. CASE ~active
    BY <1>0, <1>15, <2>1 DEF Write, view, SessionTypeOK
  <2>2. CASE active
    <3>1. hw_commands' \in Candidates \cup {NonFinite}
      BY <1>v, <1>15, <2>2, SessionAssumption DEF Write
    <3>2. /\ command_sequence' \in Seqs
          /\ requests' \in Seq(Datagrams) /\ Len(requests') <= QueueCap
      <4>1. CASE hw_commands' = NonFinite
        BY <1>15, <2>2, <4>1, DatagramTypes, SendProperties DEF Write
      <4>2. CASE hw_commands' # NonFinite
        BY <1>15, <2>2, <3>1, <4>2, DatagramTypes, SendProperties DEF Write
      <4> QED
        BY <4>1, <4>2
    <3>3. client_pc' \in {"idle", "error"}
      BY <1>15, <2>2 DEF Write
    <3> QED
      BY <1>0, <1>15, <3>1, <3>2, <3>3 DEF Write, view, SessionTypeOK
  <2> QED
    BY <2>1, <2>2
<1>16. CASE FeedbackExpires
  BY <1>0, <1>16 DEF FeedbackExpires, control, SessionTypeOK
<1>17. CASE SessionEnds \/ UNCHANGED allvars
  BY <1>0, <1>17 DEF SessionEnds, allvars, session, control, view, SessionTypeOK
<1> QED
  BY <1>4, <1>5, <1>6, <1>7, <1>8, <1>9, <1>10, <1>11, <1>12, <1>13, <1>14, <1>15, <1>16, <1>17
  DEF SessionNext, BridgeStep, ClientStep, Cycle

\* Types and the capacities of both queues.
THEOREM SessionTypes == SessionSpec => []SessionTypeOK
<1>1. SInv => SessionTypeOK
  BY DEF SInv
<1> QED
  BY <1>1, SessionInitType, SessionNextType, PTL DEF SessionSpec

\* The bridge of a session implements the bridge of PdoBridge, whose datagrams
\* are arbitrary: what is proved of it there holds of it here.
THEOREM SessionImplementsBridge == SessionSpec => Spec
<1>1. SessionInit => Init
  BY DEF SessionInit
<1>2. SInv /\ [SessionNext]_allvars => [Next]_vars
  BY Simulates DEF SInv, SessionTypeOK
<1> QED
  BY <1>1, <1>2, SessionInitType, SessionNextType, PTL DEF SessionSpec, Spec

\* The hazards of the bridge, under the real client: whatever its life cycle, and
\* whatever the queues lose, no stale command is driven, queued commands never
\* add up, and the bridge implements the motion gate.
THEOREM SafeSession ==
  SessionSpec => /\ []NoStaleCommandDriven /\ []QueuedCommandsNeverAddUp
                 /\ []EngagedTargetInLimits /\ ImplementsGate
BY SessionImplementsBridge, Watchdog, QueuedCommands, Limits, Refinement, PTL

(***************************************************************************)
(* A watchdog trip the client has noticed is final.                        *)
(***************************************************************************)
\* The bridge never reports READY while its watchdog flag is up: the flag is
\* raised in the step that halts, and halts until a command clears it.
FlagHolds == "COMMAND_WATCHDOG" \in error_flags => bridge_state # "READY"

LEMMA FlagHoldsStep == IInv /\ FlagHolds /\ [Next]_vars => FlagHolds'
<1> SUFFICES ASSUME IInv, FlagHolds, [Next]_vars, "COMMAND_WATCHDOG" \in error_flags'
             PROVE  bridge_state' # "READY"
  BY DEF FlagHolds
<1>0. "COMMAND_WATCHDOG" \in error_flags => halt_requested /\ bridge_state # "READY"
  BY DEF IInv, AppliedInv, FlagHolds
<1>1. CASE \E d \in Datagrams : Receive(d)
  <2>1. PICK d \in Datagrams : Receive(d)
    BY <1>1
  <2>2. "COMMAND_WATCHDOG" \in error_flags /\ bridge_state' = bridge_state
    BY <2>1 DEF Receive, HaltCommand, Reject, AcceptCommand
  <2> QED
    BY <1>0, <2>2
<1>2. CASE UpdateOutputs
  <2>1. halt_requested'
    BY <1>0, <1>2 DEF UpdateOutputs
  <2> QED
    BY <1>2, <2>1 DEF UpdateOutputs, FaultOutput, HoldOutput, DriveOutput, MayDrive
<1>3. CASE Exchange
  <2>1. PICK wkc_ok \in {TRUE, "wkc" \notin Disturbances}, report \in [Joint -> Reports],
             pose \in Poses : ReadInputs(wkc_ok, report, pose)
    BY <1>3 DEF Exchange
  <2>2. \A j \in Joint :
          "COMMAND_WATCHDOG" \notin JointErrors(j, report[j], AnglesOf(pose))
    BY DEF JointErrors, DriveErrors
  <2>3. "COMMAND_WATCHDOG" \in error_flags
    BY <2>1, <2>2 DEF ReadInputs
  <2>4. bridge_state' \in {bridge_state, "FAULT"}
    BY <2>1 DEF ReadInputs
  <2> QED
    BY <1>0, <2>3, <2>4
<1>4. CASE RecordCycleTiming
  BY <1>0, <1>4 DEF RecordCycleTiming
<1>5. CASE Connect \/ PublishReady \/ BeginClose
  BY <1>5 DEF Connect, PublishReady, BeginClose
<1>6. CASE \/ StartCycle \/ SendFeedback \/ Release \/ Interrupt \/ Closed
           \/ UNCHANGED vars
  BY <1>0, <1>6 DEF StartCycle, SendFeedback, Release, Interrupt, Closed, vars
<1>7. CASE DrainEnds
  BY <1>0, <1>7 DEF DrainEnds
<1> QED
  BY <1>1, <1>2, <1>3, <1>4, <1>5, <1>6, <1>7 DEF Next, Step

\* Only an accepted position clears the watchdog flag.
LEMMA FlagKept ==
  ASSUME requests \in Seq(Datagrams), [SessionNext]_allvars,
         "COMMAND_WATCHDOG" \in error_flags,
         \A i \in DOMAIN requests : requests[i].kind # "position"
  PROVE  "COMMAND_WATCHDOG" \in error_flags'
<1>1. CASE TakeDatagram
  <2>1. requests # <<>> /\ Receive(Head(requests))
    BY <1>1 DEF TakeDatagram
  <2>2. Head(requests) = requests[1] /\ 1 \in DOMAIN requests
    BY <2>1, HeadTailProperties, LenProperties, EmptySeq
  <2>3. Head(requests).kind # "position"
    BY <2>2
  <2> QED
    BY <2>1, <2>3 DEF Receive, HaltCommand, Reject
<1>2. CASE BridgeAlone
  <2>1. CASE Exchange
    BY <2>1 DEF Exchange, ReadInputs, DriveErrors
  <2>2. CASE \/ Connect \/ PublishReady \/ StartCycle \/ UpdateOutputs
             \/ RecordCycleTiming \/ BeginClose
    BY <2>2 DEF Connect, PublishReady, StartCycle, UpdateOutputs, RecordCycleTiming, BeginClose
  <2> QED
    BY <1>2, <2>1, <2>2 DEF BridgeAlone
<1>3. CASE DrainDone \/ Answer \/ CloseServer \/ BridgeInterrupted
  BY <1>3 DEF DrainDone, DrainEnds, Answer, SendFeedback, CloseServer, Release,
     BridgeInterrupted, Interrupt
<1>4. CASE ClientStep
  BY <1>4 DEF ClientStep, Cycle, Open, Register, Configured, ConfigureTimesOut, Activate,
     ActivateTimesOut, Deactivate, Finish, Read, Write, OnError, FeedbackExpires, ClientTurn, vars
<1>5. CASE SessionEnds \/ UNCHANGED allvars
  BY <1>5 DEF SessionEnds, allvars, vars
<1> QED
  BY <1>1, <1>2, <1>3, <1>4, <1>5 DEF SessionNext, BridgeStep

\* No position is queued for the bridge.
NoPosition == \A i \in DOMAIN requests : requests[i].kind # "position"

\* A HALT or REGISTER is no position, wherever in the queue it ends up.
LEMMA PlainSent ==
  ASSUME SInv, NoPosition, NEW k \in {"register", "halt"}, Send(Plain(k))
  PROVE  NoPosition'
<1>0. requests \in Seq(Datagrams) /\ Plain(k) \in Datagrams /\ Plain(k).kind # "position"
  BY DatagramTypes DEF SInv, SessionTypeOK, Plain
<1>1. CASE Sendable
  <2>1. requests' = Append(requests, Plain(k))
    BY <1>1 DEF Send
  <2>2. ASSUME NEW i \in DOMAIN requests'
        PROVE  requests'[i].kind # "position"
    BY <1>0, <2>1, <2>2, AppendProperties, LenProperties DEF NoPosition
  <2> QED
    BY <2>2 DEF NoPosition
<1>2. CASE ~Sendable
  BY <1>2 DEF Send, NoPosition
<1> QED
  BY <1>1, <1>2

\* A client that has noticed the trip queues no position: it is not in update.
LEMMA NoPositionKept ==
  ASSUME SInv, NoPosition, client_pc # "update", [SessionNext]_allvars
  PROVE  NoPosition'
<1>0. requests \in Seq(Datagrams)
  BY DEF SInv, SessionTypeOK
<1>1. CASE TakeDatagram
  <2>1. requests # <<>> /\ requests' = Tail(requests)
    BY <1>1 DEF TakeDatagram
  <2>2. ASSUME NEW i \in DOMAIN requests'
        PROVE  requests'[i].kind # "position"
    <3>1. i + 1 \in DOMAIN requests /\ requests'[i] = requests[i + 1]
      BY <1>0, <2>1, <2>2, HeadTailProperties, LenProperties
    <3> QED
      BY <3>1 DEF NoPosition
  <2> QED
    BY <2>2 DEF NoPosition
<1>2. CASE CloseServer
  BY <1>2 DEF CloseServer, NoPosition
<1>3. CASE Register
  BY <1>3, PlainSent DEF Register
<1>4. CASE Deactivate \/ Finish \/ OnError
  BY <1>4, PlainSent DEF Deactivate, Finish, OnError
<1>5. CASE Write
  BY <1>5 DEF Write
<1>6. CASE UNCHANGED requests
  BY <1>6 DEF NoPosition
<1>7. CASE BridgeAlone \/ DrainDone \/ Answer \/ BridgeInterrupted \/ SessionEnds \/ UNCHANGED allvars
  <2>1. UNCHANGED requests
    BY <1>7 DEF BridgeAlone, DrainDone, Answer, BridgeInterrupted, SessionEnds, allvars, session
  <2> QED
    BY <1>6, <2>1
<1>8. CASE \/ Open \/ Configured \/ ConfigureTimesOut \/ Activate \/ ActivateTimesOut
           \/ Read \/ FeedbackExpires
  <2>1. UNCHANGED requests
    BY <1>8 DEF Open, Configured, ConfigureTimesOut, Activate, ActivateTimesOut, Read,
       FeedbackExpires
  <2> QED
    BY <1>6, <2>1
<1> QED
  BY <1>1, <1>2, <1>3, <1>4, <1>5, <1>7, <1>8 DEF SessionNext, BridgeStep, ClientStep, Cycle

\* What the client knows of the bridge, or will learn from its queue, is an error.
SeesError ==
  /\ \A i \in DOMAIN replies : replies[i].hard
  /\ have_feedback => seen.hard

LEMMA PolledError ==
  ASSUME SInv, SeesError, Poll
  PROVE  SeesError'
<1>1. replies' = <<>>
  BY DEF Poll
<1>2. have_feedback' => seen'.hard
  <2>1. CASE Accepted = {}
    BY <2>1 DEF Poll, view, SeesError
  <2>2. CASE Accepted # {}
    <3>1. Newest \in DOMAIN replies
      BY <2>2, NewestAccepted DEF Accepted, SInv, SessionTypeOK
    <3>2. seen' = replies[Newest]
      BY <2>2 DEF Poll
    <3> QED
      BY <3>1, <3>2 DEF SeesError
  <2> QED
    BY <2>1, <2>2
<1> QED
  BY <1>1, <1>2 DEF SeesError

\* While the flag is up, every packet the bridge adds is an error as well.
LEMMA SeesErrorKept ==
  ASSUME SInv, SeesError, "COMMAND_WATCHDOG" \in error_flags, [SessionNext]_allvars
  PROVE  SeesError'
<1>0. replies \in Seq(Packets)
  BY DEF SInv, SessionTypeOK
<1>1. CASE Answer
  <2>1. Packet.hard
    BY DEF Packet, Feedback, HardErrors
  <2>2. replies' \in {replies, Append(replies, Packet)}
        /\ have_feedback' = have_feedback /\ seen' = seen
    BY <1>1 DEF Answer, view
  <2>3. ASSUME NEW i \in DOMAIN replies'
        PROVE  replies'[i].hard
    BY <1>0, <2>1, <2>2, <2>3, PacketType, AppendProperties, LenProperties DEF SeesError
  <2> QED
    BY <2>2, <2>3 DEF SeesError
<1>2. CASE Configured \/ Activate \/ ActivateTimesOut \/ Read
  BY <1>2, PolledError DEF Configured, Activate, ActivateTimesOut, Read
<1>3. CASE Open \/ ConfigureTimesOut \/ Finish
  BY <1>3 DEF Open, ConfigureTimesOut, Finish, CloseSocket, SeesError
<1>4. CASE Register
  BY <1>4 DEF Register, CloseSocket, view, SeesError
<1>5. CASE Deactivate \/ OnError \/ Write \/ FeedbackExpires
  BY <1>5 DEF Deactivate, OnError, Write, FeedbackExpires, view, SeesError
<1>6. CASE BridgeAlone \/ DrainDone \/ BridgeInterrupted \/ TakeDatagram \/ CloseServer
           \/ SessionEnds \/ UNCHANGED allvars
  BY <1>6 DEF BridgeAlone, DrainDone, BridgeInterrupted, TakeDatagram, CloseServer, SessionEnds,
     allvars, session, view, SeesError
<1> QED
  BY <1>1, <1>2, <1>3, <1>4, <1>5, <1>6 DEF SessionNext, BridgeStep, ClientStep, Cycle

\* Nothing the client or the bridge does undoes a trip: a read that sees the
\* error, or has no feedback at all, goes to on_error and never to update.
LEMMA TrippedKept ==
  ASSUME SInv, Tripped, [SessionNext]_allvars
  PROVE  Tripped'
<1>1. NoPosition /\ SeesError /\ "COMMAND_WATCHDOG" \in error_flags /\ client_pc # "update"
  BY DEF Tripped, NoPosition, SeesError
<1>2. "COMMAND_WATCHDOG" \in error_flags'
  BY <1>1, FlagKept DEF SInv, SessionTypeOK, NoPosition
<1>3. NoPosition' /\ SeesError'
  BY <1>1, NoPositionKept, SeesErrorKept
<1>4. client_pc' # "update"
  <2>1. CASE Read
    BY <1>3, <2>1 DEF Read, ReadFails, SeesError
  <2>2. CASE BridgeStep \/ BridgeInterrupted \/ SessionEnds \/ UNCHANGED allvars
    BY <1>1, <2>2 DEF BridgeStep, BridgeAlone, DrainDone, Answer, TakeDatagram, CloseServer,
       BridgeInterrupted, SessionEnds, allvars, session, control
  <2>3. CASE \/ Open \/ Register \/ Configured \/ ConfigureTimesOut \/ Activate
             \/ ActivateTimesOut \/ Deactivate \/ Finish \/ OnError \/ FeedbackExpires
    BY <1>1, <2>3 DEF Open, Register, Configured, ConfigureTimesOut, Activate, ActivateTimesOut,
       Deactivate, Finish, OnError, FeedbackExpires, control
  <2>4. CASE Write
    BY <1>1, <2>4 DEF Write
  <2> QED
    BY <2>1, <2>2, <2>3, <2>4 DEF SessionNext, ClientStep, Cycle
<1> QED
  BY <1>2, <1>3, <1>4 DEF Tripped, NoPosition, SeesError

\* Once the command watchdog has tripped and the client can only see that it
\* has, the bridge never again reports READY, whatever the client's life-cycle
\* callbacks, the losses of the queues and the errors of the bridge.
THEOREM TripIsFinal == SessionSpec => WatchdogTripIsFinal
<1>1. SessionSpec => []SInv
  BY SessionInitType, SessionNextType, PTL DEF SessionSpec
<1>2. SessionSpec => []IInv
  BY SessionImplementsBridge, Invariance, PTL
<1>3. SessionInit => FlagHolds
  BY DEF SessionInit, Init, FlagHolds
<1>4. SInv /\ IInv /\ FlagHolds /\ [SessionNext]_allvars => FlagHolds'
  BY Simulates, FlagHoldsStep DEF SInv, SessionTypeOK
<1>5. SessionSpec => []FlagHolds
  BY <1>1, <1>2, <1>3, <1>4, PTL DEF SessionSpec
<1>6. SInv /\ Tripped /\ [SessionNext]_allvars => Tripped'
  BY TrippedKept
<1>7. FlagHolds /\ Tripped => bridge_state # "READY"
  BY DEF FlagHolds, Tripped
<1> QED
  BY <1>1, <1>5, <1>6, <1>7, PTL DEF SessionSpec, WatchdogTripIsFinal
=============================================================================
