----------------------------- MODULE DriveSetup -----------------------------
(***************************************************************************)
(* The PDO bridge before its first cycle and after its last: opening the   *)
(* socket, _connect_ethercat, _configure_slave_pdos and                    *)
(* _transition_drive_to_operation_enabled of each drive, the priming       *)
(* exchange, and close().  In between it is module PdoBridge.              *)
(*                                                                         *)
(* The drives follow CiA 402.  The EtherCAT master is outside src/: its    *)
(* config_map calls the configuration function of each drive and raises    *)
(* what a function raised, at once or after the other drives.  Outputs of  *)
(* a frame reach the drives in OP only, and a frame may miss any of them   *)
(* on its way out or back.                                                 *)
(*                                                                         *)
(* An SDO access may fail and a wait for a drive may time out at any step. *)
(***************************************************************************)
EXTENDS Integers

CONSTANTS
  N,             \* EXPECTED_SLAVE_COUNT
  Positions,     \* where a drive may be, in its own units
  PrimeCycles,   \* cycles of _prime_pdo_exchange
  FaultCycles,   \* state_fault_cycles
  WkcFaultCycles,
  HandedOver,    \* master_already_initialized, and homing left the drives enabled
  Hazards        \* which of "sdo", "frame", "drive" and "stop" may happen

Slave == 1 .. N
ASSUME SetupAssumption ==
  /\ N \in Nat \ {0} /\ Positions \subseteq Int /\ HandedOver \subseteq BOOLEAN
  /\ FaultCycles \in Nat \ {0} /\ WkcFaultCycles \in Nat \ {0} /\ PrimeCycles \in Nat

VARIABLES
  drive,    \* [Slave -> state, halt bit, mode, target and actual position, mapping]
  at, i,    \* where the bridge is, and at which drive
  known,    \* self.slaves is not empty
  mapped,   \* pdo_mapped
  raised,   \* a configuration function has raised
  op,       \* the slaves are in OP
  out,      \* [Slave -> control word and target of the process image]
  inputs,        \* [Slave -> whether the inputs last read show Operation Enabled]
  cycles,        \* cycles of the exchange
  bad, wkc,      \* bad_state_cycles, bad_wkc_cycles
  failedIn,      \* history: [Slave -> the cycle in which a drive in Fault failed]
  unheard        \* history: the drives that no halt request of close() got to

exchange == <<out, inputs, cycles, bad, wkc>>
history == <<failedIn, unheard>>
dvars == <<drive, at, i, known, mapped, raised, op, exchange, history>>

States == {"fault", "disabled", "ready", "on", "enabled"}
NeverFailed == PrimeCycles + 1

DInit ==
  /\ \E enabled \in HandedOver :
     \E actual \in [Slave -> Positions], target \in [Slave -> Positions],
        state \in [Slave -> IF enabled THEN {"enabled"} ELSE States \ {"enabled"}] :
       drive = [s \in Slave |->
         [state |-> state[s], halt |-> FALSE, csp |-> FALSE, target |-> target[s],
          actual |-> actual[s], map |-> "device", supervised |-> FALSE]]
  /\ at = "socket" /\ i = 1
  /\ known = FALSE /\ mapped = FALSE /\ raised = FALSE /\ op = FALSE
  /\ out = [s \in Slave |-> [halt |-> FALSE, target |-> 0]]
  /\ inputs = [s \in Slave |-> FALSE]
  /\ cycles = 0 /\ bad = 0 /\ wkc = 0
  /\ unheard = {}
  /\ failedIn = [s \in Slave |-> IF drive[s].state = "fault" THEN 0 ELSE NeverFailed]
-----------------------------------------------------------------------------
Goto(step) == at' = step
KeepFlags == UNCHANGED <<known, mapped, raised, op, exchange, history>>

\* What fails here is raised to run(), whose finally clause closes the bridge.
Fallible == {"socket", "attach", "identify", "mapped", "prepare", "op"}
Raises ==
  /\ at \in Fallible /\ "sdo" \in Hazards
  /\ Goto("close") /\ i' = 1
  /\ UNCHANGED drive /\ KeepFlags

OpenSocket ==
  /\ at = "socket" /\ Goto("attach") /\ UNCHANGED <<drive, i>> /\ KeepFlags

Attach ==
  /\ at = "attach"
  /\ Goto("identify") /\ i' = 1 /\ known' = TRUE
  /\ UNCHANGED <<drive, mapped, raised, op, exchange, history>>

\* The vendor and the Factor Group of every drive, before any is configured.
Identify ==
  /\ at = "identify"
  /\ IF i = N THEN i' = 1 /\ Goto("map") ELSE i' = i + 1 /\ Goto("identify")
  /\ UNCHANGED drive /\ KeepFlags
-----------------------------------------------------------------------------
(***************************************************************************)
(* _configure_slave_pdos for drive i.                                      *)
(***************************************************************************)
Step(from, to, d) ==
  /\ at = from
  /\ drive' = [drive EXCEPT ![i] = d]
  /\ Goto(to) /\ UNCHANGED i /\ KeepFlags
d0 == drive[i]

MapPdos == Step("map", "supervise", [d0 EXCEPT !.map = "ours"])
Supervise == Step("supervise", "target", [d0 EXCEPT !.supervised = TRUE])

BugNoTarget(d) == [d EXCEPT !.csp = TRUE]
AtMeasured(d) == [d EXCEPT !.target = d.actual, !.csp = TRUE]
WriteTarget == Step("target", "reset", AtMeasured(d0))

\* Disable Voltage, then the edge of bit 7; only for a drive in Fault.
ResetFault ==
  /\ at = "reset" /\ Goto("shutdown")
  /\ drive' = [drive EXCEPT ![i].state = IF @ = "fault" THEN "disabled" ELSE @]
  /\ failedIn' = [failedIn EXCEPT ![i] = NeverFailed]
  /\ UNCHANGED <<i, known, mapped, raised, op, exchange, unheard>>

\* Each word is followed by a wait for the state it leads to.
Shutdown ==
  /\ d0.state \in {"disabled", "ready", "on", "enabled"}
  /\ Step("shutdown", "switch_on", [d0 EXCEPT !.state = "ready", !.halt = FALSE])
SwitchOn ==
  /\ d0.state = "ready"
  /\ Step("switch_on", "enable", [d0 EXCEPT !.state = "on"])
EnableOperation ==
  /\ d0.state = "on"
  /\ Step("enable", "confirm", [d0 EXCEPT !.state = "enabled"])

Configuring == {"map", "supervise", "target", "reset", "shutdown", "switch_on",
                "enable", "confirm"}
Next1 == IF i = N THEN Goto("mapped") /\ i' = 1 ELSE Goto("map") /\ i' = i + 1
ConfirmMode ==
  /\ at = "confirm" /\ d0.csp
  /\ Next1
  /\ UNCHANGED drive /\ KeepFlags

\* A failed access or readback, at any point, and a drive that does not come
\* within the deadline of the wait for it.  Half a mapping is left behind.
HalfMapped(d) == IF at = "map" THEN [d EXCEPT !.map = "off"] ELSE d
BugForgetError == raised
RaisedNow == TRUE
ConfigurationRaises ==
  /\ drive' = [drive EXCEPT ![i] = HalfMapped(@)]
  /\ raised' = RaisedNow
  /\ Next1 \/ (Goto("close") /\ i' = 1)
  /\ UNCHANGED <<known, mapped, op, exchange, history>>

BugWaitForever == FALSE
Deadline == TRUE
AccessFails == at \in Configuring /\ "sdo" \in Hazards /\ ConfigurationRaises
TimesOut == at \in {"shutdown", "switch_on", "enable", "confirm"} /\ Deadline /\ ConfigurationRaises
-----------------------------------------------------------------------------
(***************************************************************************)
(* After config_map: the process image, OP, the priming exchange.          *)
(***************************************************************************)
Mapped ==
  /\ at = "mapped"
  /\ IF raised THEN Goto("close") /\ UNCHANGED mapped
     ELSE Goto("prepare") /\ mapped' = TRUE
  /\ UNCHANGED <<drive, i, known, raised, op, exchange, history>>

BugZeroOutput(s) == 0
FirstTarget(s) == drive[s].actual
PrepareOutputs ==
  /\ at = "prepare"
  /\ out' = [s \in Slave |-> [halt |-> FALSE, target |-> FirstTarget(s)]]
  /\ Goto("op")
  /\ UNCHANGED <<drive, i, known, mapped, raised, op, inputs, cycles, bad, wkc, history>>

\* A frame that carries the outputs o to the drives it gets to, and brings back
\* what some of them show; what is not brought back is read again as it was.
Applied(d, o) ==
  IF d.state = "enabled" THEN [d EXCEPT !.halt = o.halt, !.target = o.target] ELSE d
Frame(o, heard) ==
  [s \in Slave |-> IF op' /\ s \in heard THEN Applied(drive[s], o[s]) ELSE drive[s]]
Reading(read) ==
  [s \in Slave |-> IF s \in read THEN drive[s].state = "enabled" ELSE inputs[s]]
Reached == IF "frame" \in Hazards THEN SUBSET Slave ELSE {Slave}

RequestOp ==
  /\ at = "op" /\ op' = TRUE
  /\ \E heard, read \in Reached : drive' = Frame(out, heard) /\ inputs' = Reading(read)
  /\ Goto("prime")
  /\ UNCHANGED <<i, known, mapped, raised, out, cycles, bad, wkc, history>>

\* One cycle: _update_outputs, the frame, _read_inputs_and_validate.  Of the bits
\* that make a cycle bad the state is followed; any other may be up.
Faulted == bad >= FaultCycles \/ wkc >= WkcFaultCycles
BugAllBad(other) == other \/ \A s \in Slave : ~inputs'[s]
BadCycle(other) == other \/ \E s \in Slave : ~inputs'[s]
OtherBits == IF "drive" \in Hazards THEN BOOLEAN ELSE {FALSE}
Prime ==
  /\ at = "prime" /\ cycles < PrimeCycles /\ ~Faulted
  /\ cycles' = cycles + 1 /\ op' = op
  /\ \E heard, read \in Reached :
       /\ drive' = Frame(out, heard) /\ inputs' = Reading(read)
       /\ wkc' = IF heard = Slave /\ read = Slave THEN 0 ELSE wkc + 1
  /\ \E other \in OtherBits : bad' = IF BadCycle(other) THEN bad + 1 ELSE 0
  /\ UNCHANGED <<at, i, known, mapped, raised, out, history>>
PrimeFails ==
  /\ at = "prime" /\ Faulted
  /\ Goto("close") /\ i' = 1
  /\ UNCHANGED drive /\ KeepFlags
Primed ==
  /\ at = "prime" /\ cycles = PrimeCycles /\ ~Faulted
  /\ Goto("ready")
  /\ UNCHANGED <<drive, i>> /\ KeepFlags
-----------------------------------------------------------------------------
(***************************************************************************)
(* close().                                                                *)
(***************************************************************************)
Stop ==
  /\ at = "ready" \/ ("stop" \in Hazards /\ at \in {"prepare", "op", "prime"})
  /\ Goto("close") /\ i' = 1
  /\ UNCHANGED drive /\ KeepFlags

\* Five cycles of HALT at the measured position, then SAFEOP.  A lost frame is not
\* noticed, and an error before the frames or among them is swallowed.
BugKeepEnabled(s) == [halt |-> FALSE, target |-> out[s].target]
HaltOutput(s) == [halt |-> TRUE, target |-> drive[s].actual]
CloseMapped ==
  /\ at = "close" /\ mapped
  /\ \/ /\ op' = op /\ out' = [s \in Slave |-> HaltOutput(s)]
        /\ \E heard \in Reached : drive' = Frame(out', heard) /\ unheard' = Slave \ heard
     \/ /\ "frame" \in Hazards
        /\ UNCHANGED <<op, out, drive>> /\ unheard' = Slave
  /\ Goto("master")
  /\ UNCHANGED <<i, known, mapped, raised, inputs, cycles, bad, wkc, failedIn>>

\* Unmapped, HALT goes out over SDO, drive by drive; the first error ends it and
\* is swallowed.  Without slaves there is nobody to ask.
BugMerelyClosed(d) == d
SdoHalt(d) == [d EXCEPT !.halt = TRUE]
CloseUnmapped ==
  /\ at = "close" /\ ~mapped
  /\ \/ /\ known
        /\ drive' = [drive EXCEPT ![i] = SdoHalt(@)]
        /\ IF i = N THEN Goto("master") /\ i' = 1 ELSE Goto("close") /\ i' = i + 1
        /\ UNCHANGED unheard
     \/ /\ known /\ "sdo" \in Hazards
        /\ Goto("master") /\ i' = 1 /\ UNCHANGED drive /\ unheard' = i .. N
     \/ /\ ~known
        /\ Goto("master") /\ i' = 1 /\ UNCHANGED <<drive, unheard>>
  /\ UNCHANGED <<known, mapped, raised, op, exchange, failedIn>>

CloseMaster ==
  /\ at = "master"
  /\ Goto("closed") /\ op' = FALSE
  /\ UNCHANGED <<drive, i, known, mapped, raised, exchange, history>>
-----------------------------------------------------------------------------
\* A drive fails; it stays in Fault until it is reset.
DriveFails ==
  /\ "drive" \in Hazards /\ at # "closed"
  /\ \E s \in Slave :
       /\ drive[s].state # "fault"
       /\ drive' = [drive EXCEPT ![s].state = "fault"]
       /\ failedIn' = [failedIn EXCEPT ![s] = cycles]
  /\ UNCHANGED <<at, i, known, mapped, raised, op, exchange, unheard>>

Configure ==
  \/ MapPdos \/ Supervise \/ WriteTarget \/ ResetFault \/ Shutdown \/ SwitchOn
  \/ EnableOperation \/ ConfirmMode
Bridge ==
  \/ OpenSocket \/ Attach \/ Identify \/ Configure \/ Mapped \/ PrepareOutputs
  \/ RequestOp \/ Prime \/ PrimeFails \/ Primed \/ CloseMapped \/ CloseUnmapped
  \/ CloseMaster
Done == at = "closed" /\ UNCHANGED dvars
DNext == Bridge \/ Raises \/ AccessFails \/ TimesOut \/ Stop \/ DriveFails \/ Done
DSpec == DInit /\ [][DNext]_dvars

\* The thread runs, and every wait has a deadline.
FairSetup == DSpec /\ WF_dvars(Bridge) /\ WF_dvars(TimesOut)
-----------------------------------------------------------------------------
Drives ==
  [state : States, halt : BOOLEAN, csp : BOOLEAN, target : Int, actual : Int,
   map : {"device", "off", "ours"}, supervised : BOOLEAN]
DTypeOK ==
  /\ drive \in [Slave -> Drives]
  /\ at \in Fallible \cup Configuring \cup {"prime", "ready", "close", "master", "closed"}
  /\ i \in Slave /\ known \in BOOLEAN /\ mapped \in BOOLEAN
  /\ raised \in BOOLEAN /\ op \in BOOLEAN
  /\ out \in [Slave -> [halt : BOOLEAN, target : Int]]
  /\ inputs \in [Slave -> BOOLEAN]
  /\ cycles \in 0 .. PrimeCycles /\ bad \in 0 .. FaultCycles /\ wkc \in 0 .. WkcFaultCycles
  /\ failedIn \in [Slave -> 0 .. NeverFailed] /\ unheard \subseteq Slave

\* Whatever target a drive retained and whatever fails on the way, a drive that
\* follows its target cyclically is told to stay where it is.
Following(s) == drive[s].state = "enabled" /\ drive[s].csp /\ ~drive[s].halt
HoldsStill == \A s \in Slave : Following(s) => drive[s].target = drive[s].actual

\* Readiness is published only with every drive mapped, supervised and in CSP.
ReadyMeansConfigured ==
  at = "ready" =>
    \A s \in Slave : drive[s].csp /\ drive[s].map = "ours" /\ drive[s].supervised

\* A drive in Fault at readiness failed too late to be found: for WkcFaultCycles - 1
\* cycles lost frames may hide it, and FaultCycles - 1 bad ones are tolerated.
NoFaultedReady ==
  at = "ready" => \A s \in Slave :
    drive[s].state = "fault" => failedIn[s] > PrimeCycles - FaultCycles - (WkcFaultCycles - 1)

\* Whichever of its three ways out close() takes, and however far it gets, a drive
\* left following its target is one that its halt request did not get to, unless
\* the start ended between the mapping and OP, where frames do not reach anyone
\* and SDO is not tried.
EveryExitHalts ==
  at = "master" => \A s \in Slave : Following(s) => s \in unheard \/ (mapped /\ ~op)

\* Setting up ends: ready, or closed.
SetupEnds == <>(at \in {"ready", "closed"})
=============================================================================
