----------------------------- MODULE CspSession -----------------------------
(***************************************************************************)
(* A session between the hardware interface of ros2_control (class         *)
(* RasclHardwareInterface, rascl_hardware_interface.cpp) and the bridge of *)
(* module PdoBridge, over two datagram queues of the kernel.               *)
(*                                                                         *)
(* The client is one thread of the controller manager: life-cycle          *)
(* callbacks between control cycles, and in each cycle read, the           *)
(* controllers' update, write.  The controller manager is outside src/;    *)
(* it calls on_error when a callback, read or write returns ERROR, and a   *)
(* successful on_error leaves the component unconfigured.                  *)
(*                                                                         *)
(* The bridge runs as in PdoBridge, its datagrams now being those queued.  *)
(* Its steps from the drain to the timing check touch neither a queue's    *)
(* other end nor the client, so the client is given its turns only between *)
(* them: a datagram sent while the drain runs is either seen by it, as if  *)
(* sent just before, or not, as if sent just after.                        *)
(***************************************************************************)
EXTENDS PdoBridge, Sequences

CONSTANTS
  QueueCap,   \* datagrams a socket holds (net.unix.max_dgram_qlen)
  SeqCap,     \* command_sequence_ saturates here
  Commands,   \* position vectors the controllers may ask for
  NonFinite   \* a command vector with a NaN or an infinity

\* The counts a drive may have reported; the client takes their angles over.
MeasurableCounts == [Joint -> {0} \cup UNION {{p[j] : j \in Joint} : p \in Poses}]

ASSUME SessionAssumption ==
  /\ QueueCap \in Nat \ {0} /\ SeqCap \in Nat \ {0}
  /\ Seqs = 0 .. SeqCap
  /\ Commands \subseteq Candidates
  /\ \A u \in MeasurableCounts : AnglesOf(u) \in Candidates
  /\ NonFinite \notin Candidates
  /\ MaxBurst >= QueueCap

VARIABLES
  lifecycle,          \* the component's life-cycle state
  client_pc,          \* where the client's thread is
  socket_open,        \* socket_fd_ >= 0: bound to the client path, connected
  active,             \* active_
  hw_commands,        \* hw_commands_
  command_sequence,   \* command_sequence_, saturating
  have_feedback, feedback_sequence,
  seen,               \* bridge_state_, error_flags_ and hw_positions_
  stale,              \* last_feedback_time_ is older than feedback_timeout_ms_
  requests,           \* datagrams queued for the bridge
  replies             \* datagrams queued for the client

control == <<lifecycle, client_pc, active, hw_commands>>
view == <<have_feedback, feedback_sequence, seen, stale>>
session == <<control, view, socket_open, command_sequence, requests, replies>>
allvars == <<vars, session>>

\* Errors that read() takes for hard.  WKC, bit 12 and timing are left to the
\* bridge, which enters FAULT if they last.
BugTripIsSoft ==
  {"DRIVE_FAULT", "INTERNAL_LIMIT", "INVALID_COMMAND", "ETHERCAT_STATE", "TRACKING"}
HardErrors ==
  {"DRIVE_FAULT", "INTERNAL_LIMIT", "COMMAND_WATCHDOG", "INVALID_COMMAND",
   "ETHERCAT_STATE", "TRACKING"}

\* What a feedback packet says, as far as the client looks.
Packet ==
  [sequence |-> Feedback.sequence, state |-> Feedback.bridge_state,
   positions |-> Feedback.positions,
   hard |-> Feedback.error_flags \cap HardErrors # {}]

SessionInit ==
  /\ Init
  /\ lifecycle = "unconfigured" /\ client_pc = "idle"
  /\ socket_open = FALSE /\ active = FALSE
  /\ hw_commands = AnglesOf(actual_counts)
  /\ command_sequence = 0
  /\ have_feedback = FALSE /\ feedback_sequence = 0
  /\ seen = Packet
  /\ stale = TRUE
  /\ requests = <<>> /\ replies = <<>>
-----------------------------------------------------------------------------
(***************************************************************************)
(* The bridge's steps.                                                     *)
(***************************************************************************)
BridgeAlone ==
  /\ Connect \/ PublishReady \/ StartCycle \/ UpdateOutputs \/ Exchange
       \/ RecordCycleTiming \/ BeginClose
  /\ UNCHANGED session

BridgeInterrupted == Interrupt /\ UNCHANGED session

TakeDatagram ==
  /\ requests # <<>>
  /\ Receive(Head(requests))
  /\ client_known' = TRUE
  /\ requests' = Tail(requests)
  /\ UNCHANGED <<control, view, socket_open, command_sequence, replies>>

DrainDone ==
  /\ requests = <<>>
  /\ DrainEnds
  /\ UNCHANGED session

\* sendto the client's path: nobody is bound to it, its queue is full, or the
\* packet is queued.
Answer ==
  /\ SendFeedback
  /\ client_known' = (client_known /\ socket_open)
  /\ replies' = IF client_known' /\ Len(replies) < QueueCap
                  THEN Append(replies, Packet) ELSE replies
  /\ UNCHANGED <<control, view, socket_open, command_sequence, requests>>

CloseServer ==
  /\ Release
  /\ requests' = <<>>
  /\ UNCHANGED <<control, view, socket_open, command_sequence, replies>>

BridgeStep ==
  \/ BridgeAlone \/ TakeDatagram \/ DrainDone \/ Answer \/ CloseServer
-----------------------------------------------------------------------------
(***************************************************************************)
(* send_command and receive_feedback.                                      *)
(***************************************************************************)
ClientTurn ==
  /\ pc \in {"cycle", "feedback", "release", "closed"}
  /\ UNCHANGED vars

\* A datagram is queued unless the queue is full or the bridge is gone.  The
\* sequence number is used up either way.
Sendable == socket_open /\ pc # "closed" /\ Len(requests) < QueueCap
NextSequence == UpTo(command_sequence + 1, SeqCap)
Send(d) ==
  /\ command_sequence' = IF socket_open THEN NextSequence ELSE command_sequence
  /\ requests' = IF Sendable THEN Append(requests, d) ELSE requests
Plain(kind) == [kind |-> kind, seq |-> NextSequence]
Position(a) == [kind |-> "position", seq |-> NextSequence, positions |-> a]

\* parse_feedback in the order of arrival: a packet with a lower sequence than
\* one accepted before is ignored.
Accepted ==
  {i \in DOMAIN replies :
     /\ have_feedback => replies[i].sequence >= feedback_sequence
     /\ \A k \in 1 .. i - 1 : replies[i].sequence >= replies[k].sequence}
Newest == CHOOSE i \in Accepted : \A k \in Accepted : k <= i

Poll ==
  /\ replies' = <<>>
  /\ IF Accepted = {} THEN UNCHANGED view
     ELSE /\ have_feedback' = TRUE /\ stale' = FALSE
          /\ feedback_sequence' = replies[Newest].sequence
          /\ seen' = replies[Newest]

\* close_ipc_socket: the socket and its path go, and the packets in it.
CloseSocket ==
  /\ socket_open' = FALSE
  /\ replies' = <<>>
  /\ have_feedback' = FALSE
  /\ UNCHANGED <<feedback_sequence, seen, stale>>
-----------------------------------------------------------------------------
(***************************************************************************)
(* Life-cycle callbacks.                                                   *)
(***************************************************************************)
\* on_configure closes the old socket and binds and connects a new one, ...
Open ==
  /\ ClientTurn
  /\ lifecycle = "unconfigured" /\ client_pc = "idle"
  /\ replies' = <<>> /\ have_feedback' = FALSE
  /\ IF pc = "closed"
       THEN /\ socket_open' = FALSE /\ client_pc' = "error"
            /\ UNCHANGED <<command_sequence, feedback_sequence, seen>>
       ELSE /\ socket_open' = TRUE /\ client_pc' = "register"
            /\ command_sequence' = 0 /\ feedback_sequence' = 0
            /\ seen' = [seen EXCEPT !.hard = FALSE]
  /\ UNCHANGED <<lifecycle, active, hw_commands, stale, requests>>

\* ... sends REGISTER, ...
Register ==
  /\ ClientTurn
  /\ client_pc = "register"
  /\ Send(Plain("register"))
  /\ IF Sendable
       THEN /\ client_pc' = "await" /\ UNCHANGED <<view, socket_open, replies>>
       ELSE /\ client_pc' = "error" /\ CloseSocket
  /\ UNCHANGED <<lifecycle, active, hw_commands>>

\* ... and waits for the first feedback.
Configured ==
  /\ ClientTurn
  /\ client_pc = "await"
  /\ Accepted # {}
  /\ Poll
  /\ hw_commands' = seen'.positions
  /\ active' = FALSE
  /\ lifecycle' = "inactive" /\ client_pc' = "idle"
  /\ UNCHANGED <<socket_open, command_sequence, requests>>

ConfigureTimesOut ==
  /\ ClientTurn
  /\ client_pc = "await"
  /\ Accepted = {}
  /\ CloseSocket
  /\ client_pc' = "error"
  /\ UNCHANGED <<lifecycle, active, hw_commands, command_sequence, requests>>

Activate ==
  /\ ClientTurn
  /\ lifecycle = "inactive" /\ client_pc = "idle"
  /\ Accepted # {}
  /\ Poll
  /\ hw_commands' = seen'.positions
  /\ active' = TRUE
  /\ lifecycle' = "active"
  /\ UNCHANGED <<client_pc, socket_open, command_sequence, requests>>

ActivateTimesOut ==
  /\ ClientTurn
  /\ lifecycle = "inactive" /\ client_pc = "idle"
  /\ Accepted = {}
  /\ Poll
  /\ client_pc' = "error"
  /\ UNCHANGED <<lifecycle, active, hw_commands, socket_open,
                 command_sequence, requests>>

Deactivate ==
  /\ ClientTurn
  /\ lifecycle = "active" /\ client_pc = "idle"
  /\ active' = FALSE
  /\ Send(Plain("halt"))
  /\ IF Sendable THEN lifecycle' = "inactive" /\ UNCHANGED client_pc
                 ELSE client_pc' = "error" /\ UNCHANGED lifecycle
  /\ UNCHANGED <<hw_commands, view, socket_open, replies>>

\* on_cleanup and on_shutdown do the same.
Finish ==
  /\ ClientTurn
  /\ client_pc = "idle"
  /\ \/ lifecycle = "inactive" /\ lifecycle' = "unconfigured"
     \/ lifecycle # "finalized" /\ lifecycle' = "finalized"
  /\ Send(Plain("halt"))
  /\ active' = FALSE
  /\ CloseSocket
  /\ UNCHANGED <<client_pc, hw_commands>>

\* The socket stays open.  Whether the HALT went out is not looked at.
OnError ==
  /\ ClientTurn
  /\ client_pc = "error"
  /\ active' = FALSE
  /\ Send(Plain("halt"))
  /\ lifecycle' = "unconfigured" /\ client_pc' = "idle"
  /\ UNCHANGED <<hw_commands, view, socket_open, replies>>
-----------------------------------------------------------------------------
(***************************************************************************)
(* The control cycle.                                                      *)
(***************************************************************************)
BugIgnoreFault == ~have_feedback' \/ stale' \/ seen'.hard
ReadFails ==
  ~have_feedback' \/ stale' \/ seen'.state \in {"FAULT", "STOPPED"} \/ seen'.hard

Read ==
  /\ ClientTurn
  /\ lifecycle \in {"inactive", "active"} /\ client_pc = "idle"
  /\ Poll
  /\ client_pc' = IF ReadFails THEN "error" ELSE "update"
  /\ UNCHANGED <<lifecycle, active, hw_commands, socket_open, command_sequence,
                 requests>>

\* The controllers may have replaced the command since read.
Write ==
  /\ ClientTurn
  /\ client_pc = "update"
  /\ \/ /\ ~active
        /\ client_pc' = "idle"
        /\ UNCHANGED <<hw_commands, command_sequence, requests>>
     \/ /\ active
        /\ hw_commands' \in Commands \cup {hw_commands, NonFinite}
        /\ IF hw_commands' = NonFinite
             THEN Send(Plain("halt")) /\ client_pc' = "error"
             ELSE /\ Send(Position(hw_commands'))
                  /\ client_pc' = IF Sendable THEN "idle" ELSE "error"
  /\ UNCHANGED <<lifecycle, active, view, socket_open, replies>>

\* The clock: no feedback was accepted for feedback_timeout_ms_.
FeedbackExpires ==
  /\ ClientTurn
  /\ ~stale
  /\ stale' = TRUE
  /\ UNCHANGED <<control, have_feedback, feedback_sequence, seen, socket_open,
                 command_sequence, requests, replies>>

Cycle == Read \/ Write \/ OnError
ClientStep ==
  \/ Open \/ Register \/ Configured \/ ConfigureTimesOut
  \/ Activate \/ ActivateTimesOut \/ Deactivate \/ Finish
  \/ Cycle \/ FeedbackExpires

SessionEnds ==
  /\ pc = "closed" /\ lifecycle = "finalized"
  /\ UNCHANGED allvars

SessionNext == BridgeStep \/ BridgeInterrupted \/ ClientStep \/ SessionEnds
SessionSpec == SessionInit /\ [][SessionNext]_allvars

\* Both threads are paced by a clock and block only with a timeout.  The client
\* is disabled between the drain and the timing check only by the reduction
\* described above, so its fairness is strong.
FairSession ==
  /\ SessionSpec
  /\ WF_allvars(BridgeStep)
  /\ SF_allvars(Cycle) /\ SF_allvars(FeedbackExpires)
-----------------------------------------------------------------------------
\* The client's side keeps its types, and the queues their capacity.
Packets == [sequence : Seqs, state : BridgeStates, positions : Candidates, hard : BOOLEAN]
SessionTypeOK ==
  /\ lifecycle \in {"unconfigured", "inactive", "active", "finalized"}
  /\ client_pc \in {"idle", "register", "await", "update", "error"}
  /\ socket_open \in BOOLEAN /\ active \in BOOLEAN
  /\ have_feedback \in BOOLEAN /\ stale \in BOOLEAN
  /\ hw_commands \in Candidates \cup {NonFinite}
  /\ command_sequence \in Seqs /\ feedback_sequence \in Seqs
  /\ seen \in Packets
  /\ requests \in Seq(Datagrams) /\ Len(requests) <= QueueCap
  /\ replies \in Seq(Packets) /\ Len(replies) <= QueueCap
  /\ latest_command_sequence \in Seqs
  /\ actual_counts \in MeasurableCounts

\* A client that goes away for good, with its HALT lost in a full queue or its
\* socket closed before the bridge read it, leaves the drives halted.
InactiveEndsHalted ==
  <>[](~active) => \/ <>[](output.word = "HALT") \/ <>[](~have_valid_command)
                   \/ <>(bridge_state = "STOPPED")

\* FAULT in the bridge ends the client's activity, though each packet that says
\* so may be dropped by a full queue or ignored for its sequence number.
FaultReachesClient == bridge_state = "FAULT" ~> ~active

\* Once the watchdog has tripped and the client has taken notice, nothing the
\* client may do (configure again, activate again) makes the bridge drive: the
\* flag is cleared only by a command, and a component that reads it sends none.
Tripped ==
  /\ "COMMAND_WATCHDOG" \in error_flags
  /\ \A i \in DOMAIN requests : requests[i].kind # "position"
  /\ \A i \in DOMAIN replies : replies[i].hard
  /\ have_feedback => seen.hard
  /\ client_pc # "update"
WatchdogTripIsFinal == [](Tripped => [](bridge_state # "READY"))
=============================================================================
