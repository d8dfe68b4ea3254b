-------------------------- MODULE DriveSetup_proofs --------------------------
(***************************************************************************)
(* Theorems about DriveSetup, for any number of drives, any positions and  *)
(* any lengths of priming and debounce.                                    *)
(***************************************************************************)
EXTENDS DriveSetup, TLAPS

Running == {"op", "prime", "ready"}
Image == {"prepare"} \cup Running
Closing == {"close", "master", "closed"}

(***************************************************************************)
(* Types.                                                                  *)
(***************************************************************************)
LEMMA Initially == DInit => DTypeOK
<1> SUFFICES ASSUME DInit PROVE DTypeOK
  OBVIOUS
<1>0. PICK enabled \in HandedOver :
        \E actual \in [Slave -> Positions], target \in [Slave -> Positions],
           state \in [Slave -> IF enabled THEN {"enabled"} ELSE States \ {"enabled"}] :
          drive = [s \in Slave |->
            [state |-> state[s], halt |-> FALSE, csp |-> FALSE, target |-> target[s],
             actual |-> actual[s], map |-> "device", supervised |-> FALSE]]
  BY DEF DInit
<1>1. PICK actual \in [Slave -> Positions], target \in [Slave -> Positions],
           state \in [Slave -> IF enabled THEN {"enabled"} ELSE States \ {"enabled"}] :
        drive = [s \in Slave |->
          [state |-> state[s], halt |-> FALSE, csp |-> FALSE, target |-> target[s],
           actual |-> actual[s], map |-> "device", supervised |-> FALSE]]
  BY <1>0
<1>2. \A s \in Slave : state[s] \in States /\ actual[s] \in Int /\ target[s] \in Int
  BY <1>1, SetupAssumption DEF States
<1>3. drive \in [Slave -> Drives]
  BY <1>1, <1>2 DEF Drives
<1>4. out \in [Slave -> [halt : BOOLEAN, target : Int]]
  BY DEF DInit
<1>5. failedIn \in [Slave -> 0 .. NeverFailed]
  <2>1. failedIn = [s \in Slave |-> IF drive[s].state = "fault" THEN 0 ELSE NeverFailed]
    BY DEF DInit
  <2>2. 0 \in 0 .. NeverFailed /\ NeverFailed \in 0 .. NeverFailed
    BY SetupAssumption DEF NeverFailed
  <2> QED
    BY <2>1, <2>2
<1>6. /\ at = "socket" /\ i = 1 /\ i \in Slave /\ cycles = 0 /\ bad = 0 /\ wkc = 0
      /\ inputs \in [Slave -> BOOLEAN] /\ unheard = {}
      /\ known = FALSE /\ mapped = FALSE /\ raised = FALSE /\ op = FALSE
  BY SetupAssumption DEF DInit, Slave
<1>7. cycles \in 0 .. PrimeCycles /\ bad \in 0 .. FaultCycles /\ wkc \in 0 .. WkcFaultCycles
  BY <1>6, SetupAssumption
<1> QED
  BY <1>3, <1>4, <1>5, <1>6, <1>7 DEF DTypeOK, Fallible

\* A frame leaves everything of a drive but its halt bit and its target.
LEMMA FrameProperties ==
  ASSUME DTypeOK, op' \in BOOLEAN, NEW o \in [Slave -> [halt : BOOLEAN, target : Int]],
         NEW heard
  PROVE  /\ Frame(o, heard) \in [Slave -> Drives]
         /\ \A s \in Slave :
              /\ Frame(o, heard)[s].state = drive[s].state /\ Frame(o, heard)[s].csp = drive[s].csp
              /\ Frame(o, heard)[s].actual = drive[s].actual /\ Frame(o, heard)[s].map = drive[s].map
              /\ Frame(o, heard)[s].supervised = drive[s].supervised
              /\ IF op' /\ s \in heard /\ drive[s].state = "enabled"
                 THEN Frame(o, heard)[s].target = o[s].target /\ Frame(o, heard)[s].halt = o[s].halt
                 ELSE Frame(o, heard)[s].target = drive[s].target /\ Frame(o, heard)[s].halt = drive[s].halt
<1>1. ASSUME NEW s \in Slave
      PROVE  /\ Frame(o, heard)[s] \in Drives
             /\ Frame(o, heard)[s].state = drive[s].state /\ Frame(o, heard)[s].csp = drive[s].csp
             /\ Frame(o, heard)[s].actual = drive[s].actual /\ Frame(o, heard)[s].map = drive[s].map
             /\ Frame(o, heard)[s].supervised = drive[s].supervised
             /\ IF op' /\ s \in heard /\ drive[s].state = "enabled"
                THEN Frame(o, heard)[s].target = o[s].target /\ Frame(o, heard)[s].halt = o[s].halt
                ELSE Frame(o, heard)[s].target = drive[s].target /\ Frame(o, heard)[s].halt = drive[s].halt
  <2>1. drive[s] \in Drives /\ o[s] \in [halt : BOOLEAN, target : Int]
    BY DEF DTypeOK
  <2>2. Frame(o, heard)[s] = IF op' /\ s \in heard THEN Applied(drive[s], o[s]) ELSE drive[s]
    BY DEF Frame
  <2> QED
    BY <2>1, <2>2 DEF Applied, Drives
<1> QED
  BY <1>1 DEF Frame

\* A step of the configuration changes drive i and nothing else of the drives.
LEMMA StepProperties ==
  ASSUME DTypeOK, NEW from, NEW to \in Configuring, NEW d \in Drives, Step(from, to, d)
  PROVE  /\ at = from /\ at' = to /\ drive' \in [Slave -> Drives]
         /\ drive'[i] = d /\ \A s \in Slave \ {i} : drive'[s] = drive[s]
         /\ UNCHANGED <<i, known, mapped, raised, op, out, inputs, cycles, bad, wkc, failedIn,
                        unheard>>
BY DEF Step, Goto, KeepFlags, exchange, history, DTypeOK

\* The six such steps; only one of them touches what the drive follows.
LEMMA ConfigurationSteps ==
  ASSUME DTypeOK,
         MapPdos \/ Supervise \/ WriteTarget \/ Shutdown \/ SwitchOn \/ EnableOperation
  PROVE  \E from \in Configuring, to \in Configuring, d \in Drives :
           /\ Step(from, to, d) /\ d.actual = drive[i].actual
           /\ d.csp => (drive[i].csp /\ d.target = drive[i].target) \/ d.target = d.actual
<1>1. drive[i] \in Drives
  BY DEF DTypeOK
<1>2. /\ [drive[i] EXCEPT !.map = "ours"] \in Drives
      /\ [drive[i] EXCEPT !.supervised = TRUE] \in Drives
      /\ [drive[i] EXCEPT !.target = drive[i].actual, !.csp = TRUE] \in Drives
      /\ [drive[i] EXCEPT !.state = "ready", !.halt = FALSE] \in Drives
      /\ [drive[i] EXCEPT !.state = "on"] \in Drives
      /\ [drive[i] EXCEPT !.state = "enabled"] \in Drives
  BY <1>1 DEF Drives, States
<1>3. {"map", "supervise", "target", "reset", "shutdown", "switch_on", "enable", "confirm"}
        \subseteq Configuring
  BY DEF Configuring
<1>4. CASE MapPdos
  BY <1>1, <1>2, <1>3, <1>4 DEF MapPdos, d0, Drives
<1>5. CASE Supervise
  BY <1>1, <1>2, <1>3, <1>5 DEF Supervise, d0, Drives
<1>6. CASE WriteTarget
  <2> DEFINE d == [drive[i] EXCEPT !.target = drive[i].actual, !.csp = TRUE]
  <2>1. d \in Drives /\ d.actual = drive[i].actual /\ d.target = d.actual
    BY <1>1, <1>2 DEF Drives
  <2>2. \E from \in Configuring, to \in Configuring : Step(from, to, d)
    BY <1>3, <1>6 DEF WriteTarget, AtMeasured, d0
  <2> QED
    BY <2>1, <2>2
<1>7. CASE Shutdown
  <2> DEFINE d == [drive[i] EXCEPT !.state = "ready", !.halt = FALSE]
  <2>1. d \in Drives /\ d.actual = drive[i].actual /\ d.csp = drive[i].csp /\ d.target = drive[i].target
    BY <1>1, <1>2 DEF Drives
  <2>2. \E from \in Configuring, to \in Configuring : Step(from, to, d)
    BY <1>3, <1>7 DEF Shutdown, d0
  <2> QED
    BY <2>1, <2>2
<1>8. CASE SwitchOn
  <2> DEFINE d == [drive[i] EXCEPT !.state = "on"]
  <2>1. d \in Drives /\ d.actual = drive[i].actual /\ d.csp = drive[i].csp /\ d.target = drive[i].target
    BY <1>1, <1>2 DEF Drives
  <2>2. \E from \in Configuring, to \in Configuring : Step(from, to, d)
    BY <1>3, <1>8 DEF SwitchOn, d0
  <2> QED
    BY <2>1, <2>2
<1>9. CASE EnableOperation
  <2> DEFINE d == [drive[i] EXCEPT !.state = "enabled"]
  <2>1. d \in Drives /\ d.actual = drive[i].actual /\ d.csp = drive[i].csp /\ d.target = drive[i].target
    BY <1>1, <1>2 DEF Drives
  <2>2. \E from \in Configuring, to \in Configuring : Step(from, to, d)
    BY <1>3, <1>9 DEF EnableOperation, d0
  <2> QED
    BY <2>1, <2>2
<1> QED
  BY <1>4, <1>5, <1>6, <1>7, <1>8, <1>9

\* After a drive that is done, or failed, comes the next one.
LEMMA NextDrive ==
  ASSUME DTypeOK, Next1
  PROVE  i' \in Slave /\ at' \in {"mapped", "map"}
BY SetupAssumption DEF Next1, Goto, DTypeOK, Slave

LEMMA TypeNext == DTypeOK /\ [DNext]_dvars => DTypeOK'
<1> SUFFICES ASSUME DTypeOK, [DNext]_dvars PROVE DTypeOK'
  OBVIOUS
<1>0. 1 \in Slave /\ N \in Nat /\ i \in Slave /\ i \in Int
  BY SetupAssumption DEF Slave, DTypeOK
<1>1. CASE OpenSocket \/ Attach
  BY <1>0, <1>1 DEF OpenSocket, Attach, Goto, KeepFlags, exchange, history, DTypeOK, Fallible
<1>2. CASE Identify
  <2>1. i' \in Slave /\ at' \in {"map", "identify"}
    BY <1>0, <1>2, SetupAssumption DEF Identify, Goto, Slave
  <2> QED
    BY <1>2, <2>1 DEF Identify, KeepFlags, exchange, history, DTypeOK, Fallible, Configuring
<1>3. CASE MapPdos \/ Supervise \/ WriteTarget \/ Shutdown \/ SwitchOn \/ EnableOperation
  <2>1. PICK from \in Configuring, to \in Configuring, d \in Drives : Step(from, to, d)
    BY <1>3, ConfigurationSteps
  <2> QED
    BY <2>1, StepProperties DEF DTypeOK
<1>4. CASE ResetFault
  <2>1. drive' \in [Slave -> Drives]
    <3>1. \A st \in States : [drive[i] EXCEPT !.state = st] \in Drives
      BY DEF DTypeOK, Drives
    <3>2. PICK st \in States : drive' = [drive EXCEPT ![i] = [drive[i] EXCEPT !.state = st]]
      BY <1>4 DEF ResetFault, DTypeOK, Drives, States
    <3> QED
      BY <3>1, <3>2 DEF DTypeOK
  <2>2. failedIn' \in [Slave -> 0 .. NeverFailed]
    BY <1>4, SetupAssumption DEF ResetFault, DTypeOK, NeverFailed
  <2> QED
    BY <1>4, <2>1, <2>2 DEF ResetFault, Goto, exchange, history, DTypeOK, Configuring
<1>5. CASE ConfirmMode
  BY <1>5, NextDrive DEF ConfirmMode, KeepFlags, exchange, history, DTypeOK, Fallible, Configuring
<1>6. CASE Mapped
  BY <1>6 DEF Mapped, Goto, exchange, history, DTypeOK, Fallible
<1>7. CASE PrepareOutputs
  <2>1. out' \in [Slave -> [halt : BOOLEAN, target : Int]]
    BY <1>7 DEF PrepareOutputs, FirstTarget, DTypeOK, Drives
  <2> QED
    BY <1>7, <2>1 DEF PrepareOutputs, history, Goto, DTypeOK, Fallible
<1>8. CASE RequestOp
  <2>1. PICK heard, read \in Reached : drive' = Frame(out, heard) /\ inputs' = Reading(read)
    BY <1>8 DEF RequestOp
  <2>2. drive' \in [Slave -> Drives] /\ inputs' \in [Slave -> BOOLEAN]
    BY <1>8, <2>1, FrameProperties DEF RequestOp, Reading, DTypeOK
  <2> QED
    BY <1>8, <2>2 DEF RequestOp, Goto, history, DTypeOK
<1>9. CASE Prime
  <2>1. PICK heard, read \in Reached :
          /\ op' \in BOOLEAN /\ drive' = Frame(out, heard) /\ inputs' = Reading(read)
          /\ wkc' \in {0, wkc + 1}
    BY <1>9 DEF Prime, DTypeOK
  <2>2. drive' \in [Slave -> Drives] /\ inputs' \in [Slave -> BOOLEAN]
    BY <2>1, FrameProperties DEF DTypeOK, Reading
  <2>3. bad' \in {0, bad + 1}
    BY <1>9 DEF Prime
  <2>4. /\ cycles' \in 0 .. PrimeCycles /\ bad' \in 0 .. FaultCycles
        /\ wkc' \in 0 .. WkcFaultCycles
    BY <1>9, <2>1, <2>3, SetupAssumption DEF Prime, Faulted, DTypeOK
  <2> QED
    BY <1>9, <2>1, <2>2, <2>4 DEF Prime, history, DTypeOK
<1>10. CASE PrimeFails \/ Primed \/ Stop \/ Raises
  BY <1>0, <1>10 DEF PrimeFails, Primed, Stop, Raises, Goto, KeepFlags, exchange, history, DTypeOK
<1>11. CASE CloseMapped
  <2>1. op' \in BOOLEAN /\ out' \in [Slave -> [halt : BOOLEAN, target : Int]]
    <3>1. [s \in Slave |-> HaltOutput(s)] \in [Slave -> [halt : BOOLEAN, target : Int]]
      BY DEF HaltOutput, DTypeOK, Drives
    <3>2. op' = op /\ (out' = out \/ out' = [s \in Slave |-> HaltOutput(s)])
      BY <1>11 DEF CloseMapped
    <3> QED
      BY <3>1, <3>2 DEF DTypeOK
  <2>2. drive' \in [Slave -> Drives]
    <3>1. CASE drive' = drive
      BY <3>1 DEF DTypeOK
    <3>2. CASE \E heard \in Reached : drive' = Frame(out', heard)
      BY <2>1, <3>2, FrameProperties
    <3> QED
      BY <1>11, <3>1, <3>2 DEF CloseMapped
  <2>3. unheard' \subseteq Slave
    BY <1>11 DEF CloseMapped
  <2> QED
    BY <1>11, <2>1, <2>2, <2>3 DEF CloseMapped, Goto, DTypeOK
<1>12. CASE CloseUnmapped
  <2>1. drive' \in [Slave -> Drives] /\ i' \in Slave /\ at' \in {"master", "close"}
    <3>1. \/ UNCHANGED drive
          \/ drive' = [drive EXCEPT ![i].halt = TRUE]
      BY <1>12 DEF CloseUnmapped, SdoHalt, DTypeOK
    <3>2. drive' \in [Slave -> Drives]
      <4>1. drive[i] \in Drives /\ [drive[i] EXCEPT !.halt = TRUE] \in Drives
        BY DEF DTypeOK, Drives
      <4>2. CASE drive' = [drive EXCEPT ![i].halt = TRUE]
        BY <4>1, <4>2 DEF DTypeOK
      <4> QED
        BY <3>1, <4>2 DEF DTypeOK
    <3>3. at' \in {"master", "close"}
      BY <1>12 DEF CloseUnmapped, Goto
    <3>4. i' \in {1} \/ (i # N /\ i' = i + 1)
      BY <1>12 DEF CloseUnmapped
    <3> QED
      BY <1>0, <3>2, <3>3, <3>4 DEF Slave
  <2>2. unheard' \subseteq Slave
    <3>1. i .. N \subseteq Slave
      BY <1>0 DEF Slave
    <3>2. unheard' = unheard \/ unheard' = i .. N
      BY <1>12 DEF CloseUnmapped
    <3> QED
      BY <3>1, <3>2 DEF DTypeOK
  <2> QED
    BY <1>12, <2>1, <2>2 DEF CloseUnmapped, exchange, DTypeOK
<1>13. CASE CloseMaster
  BY <1>13 DEF CloseMaster, Goto, exchange, history, DTypeOK
<1>14. CASE AccessFails \/ TimesOut
  <2>1. ConfigurationRaises
    BY <1>14 DEF AccessFails, TimesOut
  <2>2. drive' \in [Slave -> Drives]
    BY <2>1 DEF ConfigurationRaises, HalfMapped, DTypeOK, Drives
  <2>3. i' \in Slave /\ at' \in {"mapped", "map", "close"}
    BY <1>0, <2>1, NextDrive DEF ConfigurationRaises, Goto
  <2> QED
    BY <2>1, <2>2, <2>3
    DEF ConfigurationRaises, RaisedNow, exchange, history, DTypeOK, Fallible, Configuring
<1>15. CASE DriveFails
  <2>1. drive' \in [Slave -> Drives]
    BY <1>15 DEF DriveFails, DTypeOK, Drives, States
  <2>2. failedIn' \in [Slave -> 0 .. NeverFailed]
    BY <1>15, SetupAssumption DEF DriveFails, DTypeOK, NeverFailed
  <2> QED
    BY <1>15, <2>1, <2>2 DEF DriveFails, exchange, history, DTypeOK
<1>16. CASE UNCHANGED dvars
  BY <1>16 DEF dvars, exchange, history, DTypeOK
<1> QED
  BY <1>1, <1>2, <1>3, <1>4, <1>5, <1>6, <1>7, <1>8, <1>9, <1>10, <1>11, <1>12, <1>13,
     <1>14, <1>15, <1>16
  DEF DNext, Bridge, Configure, Done

\* Every variable keeps its type.
THEOREM TypeCorrect == DSpec => []DTypeOK
BY Initially, TypeNext, PTL DEF DSpec

(***************************************************************************)
(* What a drive is told.                                                   *)
(***************************************************************************)
\* A drive in CSP has its measured position as target, and so does the process
\* image from the preparation of the outputs to the end of the exchange.
Steady ==
  /\ \A s \in Slave : drive[s].csp => drive[s].target = drive[s].actual
  /\ at \in {"op", "prime"} => \A s \in Slave : out[s].target = drive[s].actual

\* A step that changes neither targets nor the output image.
LEMMA SteadyKept ==
  ASSUME Steady, out' = out, at' \in {"op", "prime"} => at \in {"op", "prime"},
         \A s \in Slave :
           /\ drive'[s].csp = drive[s].csp /\ drive'[s].target = drive[s].target
           /\ drive'[s].actual = drive[s].actual
  PROVE  Steady'
BY DEF Steady

LEMMA SteadyNext == DTypeOK /\ Steady /\ [DNext]_dvars => Steady'
<1> SUFFICES ASSUME DTypeOK, Steady, [DNext]_dvars PROVE Steady'
  OBVIOUS
<1>0. \A s \in Slave : drive[s] \in Drives
  BY DEF DTypeOK
<1>1. CASE OpenSocket \/ Attach \/ Identify \/ ConfirmMode \/ Mapped \/ PrimeFails \/ Primed
           \/ Stop \/ Raises \/ CloseMaster
  <2>1. UNCHANGED <<drive, out>> /\ at' \notin {"op", "prime"}
    BY <1>1 DEF OpenSocket, Attach, Identify, ConfirmMode, Next1, Mapped, PrimeFails, Primed,
       Stop, Raises, CloseMaster, Goto, KeepFlags, exchange
  <2> QED
    BY <2>1, SteadyKept
<1>2. CASE MapPdos \/ Supervise \/ WriteTarget \/ Shutdown \/ SwitchOn \/ EnableOperation
  <2>1. PICK from \in Configuring, to \in Configuring, d \in Drives :
          /\ Step(from, to, d) /\ d.actual = drive[i].actual
          /\ d.csp => (drive[i].csp /\ d.target = drive[i].target) \/ d.target = d.actual
    BY <1>2, ConfigurationSteps
  <2>2. drive'[i] = d /\ (\A s \in Slave \ {i} : drive'[s] = drive[s]) /\ out' = out /\ at' = to
    BY <2>1, StepProperties
  <2>3. at' \notin {"op", "prime"}
    BY <2>2 DEF Configuring
  <2> QED
    BY <2>1, <2>2, <2>3 DEF Steady, DTypeOK
<1>4. CASE ResetFault
  <2>1. \A s \in Slave : /\ drive'[s].csp = drive[s].csp /\ drive'[s].target = drive[s].target
                         /\ drive'[s].actual = drive[s].actual
    BY <1>0, <1>4 DEF ResetFault, DTypeOK, Drives
  <2> QED
    BY <1>4, <2>1, SteadyKept DEF ResetFault, Goto, exchange
<1>5. CASE PrepareOutputs
  BY <1>5 DEF PrepareOutputs, FirstTarget, Steady, Goto
<1>6. CASE RequestOp \/ Prime
  <2>1. PICK heard \in Reached :
          /\ op' \in BOOLEAN /\ drive' = Frame(out, heard) /\ out' = out /\ at \in {"op", "prime"}
    BY <1>6 DEF RequestOp, Prime, DTypeOK
  <2>2. \A s \in Slave :
          /\ drive'[s].csp = drive[s].csp /\ drive'[s].actual = drive[s].actual
          /\ drive'[s].target \in {drive[s].target, out[s].target}
    BY <2>1, FrameProperties DEF DTypeOK
  <2> QED
    BY <2>1, <2>2 DEF Steady
<1>7. CASE CloseMapped
  <2>1. at' = "master"
    BY <1>7 DEF CloseMapped, Goto
  <2>2. CASE UNCHANGED <<out, drive>>
    BY <2>1, <2>2, SteadyKept
  <2>3. CASE \E heard \in Reached :
               /\ op' \in BOOLEAN /\ drive' = Frame(out', heard)
               /\ out' = [s \in Slave |-> HaltOutput(s)]
    <3>1. PICK heard \in Reached : drive' = Frame(out', heard)
      BY <2>3
    <3>2. /\ out' \in [Slave -> [halt : BOOLEAN, target : Int]]
          /\ \A s \in Slave : out'[s].target = drive[s].actual
      BY <1>0, <2>3 DEF HaltOutput, Drives
    <3>3. \A s \in Slave :
            /\ drive'[s].csp = drive[s].csp /\ drive'[s].actual = drive[s].actual
            /\ drive'[s].target \in {drive[s].target, out'[s].target}
      BY <2>3, <3>1, <3>2, FrameProperties
    <3> QED
      BY <2>1, <3>2, <3>3 DEF Steady
  <2> QED
    BY <1>7, <2>2, <2>3 DEF CloseMapped, DTypeOK
<1>8. CASE CloseUnmapped
  <2>1. \A s \in Slave : /\ drive'[s].csp = drive[s].csp /\ drive'[s].target = drive[s].target
                         /\ drive'[s].actual = drive[s].actual
    <3>1. drive' = drive \/ drive' = [drive EXCEPT ![i].halt = TRUE]
      BY <1>8 DEF CloseUnmapped, SdoHalt, DTypeOK
    <3>2. CASE drive' = [drive EXCEPT ![i].halt = TRUE]
      BY <1>0, <3>2 DEF DTypeOK, Drives
    <3> QED
      BY <3>1, <3>2
  <2> QED
    BY <1>8, <2>1, SteadyKept DEF CloseUnmapped, Goto, exchange
<1>9. CASE AccessFails \/ TimesOut
  <2>1. ConfigurationRaises
    BY <1>9 DEF AccessFails, TimesOut
  <2>2. \A s \in Slave : /\ drive'[s].csp = drive[s].csp /\ drive'[s].target = drive[s].target
                         /\ drive'[s].actual = drive[s].actual
    BY <1>0, <2>1 DEF ConfigurationRaises, HalfMapped, DTypeOK, Drives
  <2> QED
    BY <2>1, <2>2, SteadyKept DEF ConfigurationRaises, Next1, Goto, exchange
<1>10. CASE DriveFails
  <2>1. \A s \in Slave : /\ drive'[s].csp = drive[s].csp /\ drive'[s].target = drive[s].target
                         /\ drive'[s].actual = drive[s].actual
    BY <1>0, <1>10 DEF DriveFails, DTypeOK, Drives
  <2> QED
    BY <1>10, <2>1, SteadyKept DEF DriveFails, exchange
<1>11. CASE UNCHANGED dvars
  BY <1>11 DEF dvars, exchange, Steady
<1> QED
  BY <1>1, <1>2, <1>4, <1>5, <1>6, <1>7, <1>8, <1>9, <1>10, <1>11
  DEF DNext, Bridge, Configure, Done

\* Whatever targets the drives retained, whatever fails and whenever the bridge
\* is stopped, no drive that follows its target is sent anywhere.
THEOREM HoldStill == DSpec => []HoldsStill
<1>1. DInit => Steady
  BY DEF DInit, Steady
<1>2. Steady => HoldsStill
  BY DEF Steady, HoldsStill, Following
<1> QED
  BY <1>1, <1>2, SteadyNext, TypeCorrect, PTL DEF DSpec

(***************************************************************************)
(* Closing.                                                                *)
(***************************************************************************)
\* A drive follows its target only once the bridge knows the slaves, and there is
\* no process image before.  While close() goes through the drives over SDO the
\* ones before drive i are halted.
Halted ==
  /\ at \in {"identify", "mapped"} \cup Configuring \/ mapped => known
  /\ \A s \in Slave : drive[s].csp => known
  /\ at = "mapped" => i = 1
  /\ at = "close" /\ ~mapped => \A s \in Slave : s < i => drive[s].halt
  /\ EveryExitHalts

\* A step that is not part of close().
LEMMA HaltedKept ==
  ASSUME Halted, known' = known, mapped' = mapped, at' # "master",
         at' \in {"identify", "mapped"} \cup Configuring =>
           at \in {"identify", "mapped"} \cup Configuring,
         \A s \in Slave : drive'[s].csp => drive[s].csp \/ known,
         at' \in {"mapped", "close"} => i' = 1
  PROVE  Halted'
<1>1. \A s \in Slave : Slave \subseteq Int /\ ~(s < 1)
  BY DEF Slave
<1> QED
  BY <1>1 DEF Halted, EveryExitHalts

LEMMA HaltedNext == DTypeOK /\ Halted /\ [DNext]_dvars => Halted'
<1> SUFFICES ASSUME DTypeOK, Halted, [DNext]_dvars PROVE Halted'
  OBVIOUS
<1>0. i \in Slave /\ (\A s \in Slave : drive[s] \in Drives) /\ Slave \subseteq Int /\ N \in Nat
  BY SetupAssumption DEF DTypeOK, Slave
<1>1. CASE OpenSocket \/ Stop \/ Raises \/ PrimeFails \/ Primed \/ ConfirmMode \/ PrepareOutputs
  <2>1. /\ UNCHANGED <<known, mapped, drive>> /\ at' # "master"
        /\ at' \in {"identify", "mapped"} \cup Configuring =>
             at \in {"identify", "mapped"} \cup Configuring
        /\ at' \in {"mapped", "close"} => i' = 1
    BY <1>1 DEF OpenSocket, Stop, Raises, PrimeFails, Primed, ConfirmMode, Next1,
       PrepareOutputs, Goto, KeepFlags, Configuring
  <2> QED
    BY <2>1, HaltedKept
<1>2. CASE Attach
  BY <1>2 DEF Attach, Goto, Configuring, Halted, EveryExitHalts
<1>3. CASE Identify
  <2>1. UNCHANGED <<known, mapped, drive>> /\ at = "identify" /\ at' \in {"identify", "map"}
    BY <1>3 DEF Identify, Goto, KeepFlags
  <2> QED
    BY <2>1, HaltedKept
<1>4. CASE MapPdos \/ Supervise \/ WriteTarget \/ Shutdown \/ SwitchOn \/ EnableOperation
  <2>1. UNCHANGED <<known, mapped>> /\ at \in Configuring /\ at' \in Configuring
    BY <1>4, ConfigurationSteps, StepProperties
  <2>2. known /\ at' \notin {"mapped", "close", "master"}
    BY <2>1 DEF Configuring, Halted
  <2> QED
    BY <2>1, <2>2, HaltedKept
<1>5. CASE ResetFault \/ AccessFails \/ TimesOut
  <2>1. /\ UNCHANGED <<known, mapped>> /\ at \in Configuring
        /\ at' \in {"shutdown", "mapped", "map", "close"}
        /\ at' \in {"mapped", "close"} => i' = 1
    BY <1>5 DEF ResetFault, AccessFails, TimesOut, ConfigurationRaises, Next1, Goto, Configuring
  <2>2. known
    BY <2>1 DEF Halted
  <2> QED
    BY <2>1, <2>2, HaltedKept
<1>6. CASE Mapped
  <2>1. /\ at = "mapped" /\ known' = known /\ UNCHANGED drive /\ i' = 1 /\ known
        /\ at' \in {"close", "prepare"}
    BY <1>6 DEF Mapped, Goto, Halted
  <2> QED
    BY <1>0, <2>1 DEF Halted, EveryExitHalts, Configuring, Slave
<1>7. CASE RequestOp \/ Prime
  <2>1. /\ UNCHANGED <<known, mapped>> /\ at' = "prime"
        /\ \E heard \in Reached : op' \in BOOLEAN /\ drive' = Frame(out, heard)
    BY <1>7 DEF RequestOp, Prime, Goto, DTypeOK
  <2>2. \A s \in Slave : drive'[s].csp = drive[s].csp
    BY <2>1, FrameProperties DEF DTypeOK
  <2> QED
    BY <2>1, <2>2, HaltedKept DEF Configuring
<1>8. CASE CloseMapped
  <2>1. /\ mapped /\ UNCHANGED <<known, mapped, op>> /\ at' = "master" /\ op' \in BOOLEAN
    BY <1>8 DEF CloseMapped, Goto, DTypeOK
  <2>2. CASE UNCHANGED drive /\ unheard' = Slave
    BY <2>1, <2>2 DEF Halted, EveryExitHalts, Configuring
  <2>3. CASE \E heard \in Reached :
               /\ drive' = Frame(out', heard) /\ unheard' = Slave \ heard
               /\ out' = [s \in Slave |-> HaltOutput(s)]
    <3>1. PICK heard \in Reached : drive' = Frame(out', heard) /\ unheard' = Slave \ heard
      BY <2>3
    <3>2. /\ out' \in [Slave -> [halt : BOOLEAN, target : Int]]
          /\ \A s \in Slave : out'[s].halt
      BY <1>0, <2>3 DEF HaltOutput, Drives
    <3>3. \A s \in Slave :
            /\ drive'[s].csp = drive[s].csp
            /\ op' /\ s \in heard /\ drive'[s].state = "enabled" => drive'[s].halt
      BY <2>1, <3>1, <3>2, FrameProperties
    <3>4. EveryExitHalts'
      BY <2>1, <3>1, <3>3 DEF EveryExitHalts, Following
    <3> QED
      BY <2>1, <3>3, <3>4 DEF Halted, Configuring
  <2> QED
    BY <1>8, <2>2, <2>3 DEF CloseMapped
<1>9. CASE CloseUnmapped
  <2>1. /\ at = "close" /\ ~mapped /\ UNCHANGED <<known, mapped, op>>
        /\ at' \in {"master", "close"}
    BY <1>9 DEF CloseUnmapped, Goto
  <2>2. CASE known /\ drive' = [drive EXCEPT ![i] = SdoHalt(@)]
             /\ IF i = N THEN at' = "master" ELSE at' = "close" /\ i' = i + 1
    <3>1. \A s \in Slave : /\ drive'[s].csp = drive[s].csp
                           /\ s <= i => drive'[s].halt
      <4>1. drive'[i].halt /\ drive'[i].csp = drive[i].csp
        BY <1>0, <2>2 DEF SdoHalt, DTypeOK, Drives
      <4>2. \A s \in Slave \ {i} : drive'[s] = drive[s]
        BY <2>2 DEF DTypeOK
      <4>3. \A s \in Slave : s < i => drive[s].halt
        BY <2>1 DEF Halted
      <4>4. \A s \in Slave : s <= i => s = i \/ (s # i /\ s < i)
        BY <1>0
      <4> QED
        BY <4>1, <4>2, <4>3, <4>4
    <3>2. i = N => \A s \in Slave : s <= i
      BY <1>0 DEF Slave
    <3>3. EveryExitHalts'
      BY <2>2, <3>1, <3>2 DEF EveryExitHalts, Following
    <3>4. at' = "close" => \A s \in Slave : s < i' => drive'[s].halt
      BY <1>0, <2>2, <3>1
    <3> QED
      BY <2>1, <2>2, <3>1, <3>3, <3>4 DEF Halted, Configuring
  <2>3. CASE known /\ at' = "master" /\ UNCHANGED drive /\ unheard' = i .. N
    <3>1. \A s \in Slave : drive[s].halt \/ s \in i .. N
      BY <1>0, <2>1 DEF Halted, Slave
    <3> QED
      BY <2>1, <2>3, <3>1 DEF Halted, EveryExitHalts, Following, Configuring
  <2>4. CASE ~known /\ at' = "master" /\ UNCHANGED drive
    BY <2>1, <2>4 DEF Halted, EveryExitHalts, Following, Configuring
  <2> QED
    BY <1>9, <2>2, <2>3, <2>4 DEF CloseUnmapped, Goto
<1>10. CASE CloseMaster
  BY <1>10 DEF CloseMaster, Goto, Halted, EveryExitHalts, Configuring
<1>11. CASE DriveFails
  <2>1. UNCHANGED <<at, i, known, mapped, op, unheard>>
    BY <1>11 DEF DriveFails
  <2>2. \A s \in Slave : /\ drive'[s].halt = drive[s].halt /\ drive'[s].csp = drive[s].csp
                         /\ drive'[s].state = "enabled" => drive[s].state = "enabled"
    BY <1>11 DEF DriveFails, DTypeOK, Drives
  <2> QED
    BY <2>1, <2>2 DEF Halted, EveryExitHalts, Following
<1>12. CASE UNCHANGED dvars
  BY <1>12 DEF dvars, history, Halted, EveryExitHalts, Following
<1> QED
  BY <1>1, <1>2, <1>3, <1>4, <1>5, <1>6, <1>7, <1>8, <1>9, <1>10, <1>11, <1>12
  DEF DNext, Bridge, Configure, Done

\* Whichever way out close() takes and however far it gets, every drive that its
\* halt request got to has stopped following; the start that ends between mapping
\* and OP is the one from which nobody is asked.
THEOREM Closes == DSpec => []EveryExitHalts
<1>1. DInit => Halted
  BY DEF DInit, Halted, EveryExitHalts, Configuring
<1>2. Halted => EveryExitHalts
  BY DEF Halted
<1> QED
  BY <1>1, <1>2, HaltedNext, TypeCorrect, PTL DEF DSpec

(***************************************************************************)
(* What readiness means.                                                   *)
(***************************************************************************)
Configured(s) == drive[s].csp /\ drive[s].map = "ours" /\ drive[s].supervised

\* How far the configuration of drive i has come, and that the drives before it
\* are done, as long as nothing has raised.
Progress ==
  /\ at \in Configuring /\ ~raised => \A s \in Slave : s < i => Configured(s)
  /\ at \in Configuring \ {"map"} => drive[i].map = "ours"
  /\ at \in Configuring \ {"map", "supervise"} => drive[i].supervised
  /\ at \in Configuring \ {"map", "supervise", "target"} => drive[i].csp
  /\ (at = "mapped" /\ ~raised) \/ at \in Image => \A s \in Slave : Configured(s)

\* A step that leaves mapping, supervision and mode alone, and does not advance.
LEMMA ProgressKept ==
  ASSUME Progress, raised' = raised,
         \/ at' = at /\ i' = i
         \/ at' \in Closing \/ (at' \in Image /\ at \in Image)
         \/ at' \in {"attach", "identify"},
         \A s \in Slave :
           /\ drive'[s].csp = drive[s].csp /\ drive'[s].map = drive[s].map
           /\ drive'[s].supervised = drive[s].supervised,
         i \in Slave
  PROVE  Progress'
BY DEF Progress, Configured, Configuring, Image, Running, Closing

LEMMA ProgressNext == DTypeOK /\ Progress /\ [DNext]_dvars => Progress'
<1> SUFFICES ASSUME DTypeOK, Progress, [DNext]_dvars PROVE Progress'
  OBVIOUS
<1>0. i \in Slave /\ (\A s \in Slave : drive[s] \in Drives) /\ Slave \subseteq Int /\ 1 \in Slave
  BY SetupAssumption DEF DTypeOK, Slave
<1>1. CASE OpenSocket \/ Attach \/ Stop \/ Raises \/ PrimeFails \/ Primed \/ CloseMaster
  <2>1. /\ UNCHANGED <<drive, raised>>
        /\ at' \in Closing \/ (at' \in Image /\ at \in Image) \/ at' \in {"attach", "identify"}
    BY <1>1 DEF OpenSocket, Attach, Stop, Raises, PrimeFails, Primed, CloseMaster, Goto,
       KeepFlags, Image, Running, Closing
  <2> QED
    BY <1>0, <2>1, ProgressKept
<1>2. CASE Identify
  <2>1. /\ UNCHANGED <<drive, raised>>
        /\ at' = "identify" \/ (at' = "map" /\ i' = 1)
    BY <1>2 DEF Identify, Goto, KeepFlags
  <2> QED
    BY <1>0, <2>1 DEF Progress, Configuring, Image, Running, Slave
<1>3. CASE MapPdos
  <2>1. /\ at' = "supervise" /\ UNCHANGED <<i, raised>> /\ at = "map"
        /\ drive' = [drive EXCEPT ![i] = [drive[i] EXCEPT !.map = "ours"]]
    BY <1>3 DEF MapPdos, Step, Goto, KeepFlags, d0
  <2>2. drive'[i].map = "ours" /\ \A s \in Slave : s < i => drive'[s] = drive[s]
    BY <1>0, <2>1 DEF DTypeOK, Drives
  <2> QED
    BY <1>0, <2>1, <2>2 DEF Progress, Configured, Configuring, Image, Running
<1>4. CASE Supervise
  <2>1. /\ at' = "target" /\ UNCHANGED <<i, raised>> /\ at = "supervise"
        /\ drive' = [drive EXCEPT ![i] = [drive[i] EXCEPT !.supervised = TRUE]]
    BY <1>4 DEF Supervise, Step, Goto, KeepFlags, d0
  <2>2. /\ drive'[i].map = drive[i].map /\ drive'[i].supervised
        /\ \A s \in Slave : s < i => drive'[s] = drive[s]
    BY <1>0, <2>1 DEF DTypeOK, Drives
  <2> QED
    BY <1>0, <2>1, <2>2 DEF Progress, Configured, Configuring, Image, Running
<1>5. CASE WriteTarget
  <2>1. /\ at' = "reset" /\ UNCHANGED <<i, raised>> /\ at = "target"
        /\ drive' = [drive EXCEPT ![i] =
                       [drive[i] EXCEPT !.target = drive[i].actual, !.csp = TRUE]]
    BY <1>5 DEF WriteTarget, AtMeasured, Step, Goto, KeepFlags, d0
  <2>2. /\ drive'[i].map = drive[i].map /\ drive'[i].supervised = drive[i].supervised
        /\ drive'[i].csp /\ \A s \in Slave : s < i => drive'[s] = drive[s]
    BY <1>0, <2>1 DEF DTypeOK, Drives
  <2> QED
    BY <1>0, <2>1, <2>2 DEF Progress, Configured, Configuring, Image, Running
<1>6. CASE ResetFault \/ Shutdown \/ SwitchOn \/ EnableOperation
  <2>1. /\ at \in {"reset", "shutdown", "switch_on", "enable"}
        /\ at' \in {"shutdown", "switch_on", "enable", "confirm"}
        /\ UNCHANGED <<i, raised>>
    BY <1>6 DEF ResetFault, Shutdown, SwitchOn, EnableOperation, Step, Goto, KeepFlags
  <2>2. \A s \in Slave : /\ drive'[s].csp = drive[s].csp /\ drive'[s].map = drive[s].map
                         /\ drive'[s].supervised = drive[s].supervised
    <3>1. CASE ResetFault
      BY <1>0, <3>1 DEF ResetFault, DTypeOK, Drives
    <3>2. CASE Shutdown
      BY <1>0, <3>2 DEF Shutdown, Step, d0, DTypeOK, Drives
    <3>3. CASE SwitchOn
      BY <1>0, <3>3 DEF SwitchOn, Step, d0, DTypeOK, Drives
    <3>4. CASE EnableOperation
      BY <1>0, <3>4 DEF EnableOperation, Step, d0, DTypeOK, Drives
    <3> QED
      BY <1>6, <3>1, <3>2, <3>3, <3>4
  <2> QED
    BY <1>0, <2>1, <2>2 DEF Progress, Configured, Configuring, Image, Running
<1>7. CASE ConfirmMode
  <2>1. /\ UNCHANGED <<drive, raised>> /\ Configured(i) /\ at = "confirm"
    BY <1>7 DEF ConfirmMode, KeepFlags, Progress, Configuring, Configured
  <2>2. \/ i = N /\ at' = "mapped" /\ i' = 1
        \/ at' = "map" /\ i' = i + 1
    BY <1>7 DEF ConfirmMode, Next1, Goto
  <2>3. ~raised => \A s \in Slave : s <= i => Configured(s)
    BY <1>0, <2>1 DEF Progress, Configuring
  <2>4. \A s \in Slave : Configured(s)' = Configured(s)
    BY <2>1 DEF Configured
  <2> QED
    BY <1>0, <2>1, <2>2, <2>3, <2>4 DEF Progress, Configuring, Image, Running, Slave
<1>8. CASE Mapped
  <2>1. /\ at = "mapped" /\ UNCHANGED <<drive, raised>>
        /\ at' = "close" \/ (at' = "prepare" /\ ~raised)
    BY <1>8 DEF Mapped, Goto
  <2> QED
    BY <2>1 DEF Progress, Configured, Configuring, Image, Running
<1>9. CASE PrepareOutputs
  BY <1>0, <1>9, ProgressKept DEF PrepareOutputs, Goto, Image, Running
<1>10. CASE RequestOp \/ Prime \/ CloseMapped
  <2>1. \/ drive' = drive
        \/ \E o \in [Slave -> [halt : BOOLEAN, target : Int]], heard \in Reached :
             op' \in BOOLEAN /\ drive' = Frame(o, heard)
    <3>1. CASE RequestOp \/ Prime
      BY <3>1 DEF RequestOp, Prime, DTypeOK
    <3>2. CASE CloseMapped
      <4>1. [s \in Slave |-> HaltOutput(s)] \in [Slave -> [halt : BOOLEAN, target : Int]]
        BY <1>0 DEF HaltOutput, Drives
      <4> QED
        BY <3>2, <4>1 DEF CloseMapped, DTypeOK
    <3> QED
      BY <1>10, <3>1, <3>2
  <2>2. \A s \in Slave : /\ drive'[s].csp = drive[s].csp /\ drive'[s].map = drive[s].map
                         /\ drive'[s].supervised = drive[s].supervised
    BY <2>1, FrameProperties
  <2>3. raised' = raised /\ (at' \in Closing \/ (at' \in Image /\ at \in Image))
    BY <1>10 DEF RequestOp, Prime, CloseMapped, Goto, exchange, Image, Running, Closing
  <2> QED
    BY <1>0, <2>2, <2>3, ProgressKept
<1>11. CASE CloseUnmapped
  <2>1. \A s \in Slave : /\ drive'[s].csp = drive[s].csp /\ drive'[s].map = drive[s].map
                         /\ drive'[s].supervised = drive[s].supervised
    <3>1. drive' = drive \/ drive' = [drive EXCEPT ![i].halt = TRUE]
      BY <1>11 DEF CloseUnmapped, SdoHalt, DTypeOK
    <3>2. CASE drive' = [drive EXCEPT ![i].halt = TRUE]
      BY <1>0, <3>2 DEF DTypeOK, Drives
    <3> QED
      BY <3>1, <3>2
  <2>2. raised' = raised /\ at' \in Closing
    BY <1>11 DEF CloseUnmapped, Goto, Closing
  <2> QED
    BY <1>0, <2>1, <2>2, ProgressKept
<1>12. CASE AccessFails \/ TimesOut
  <2>1. raised' /\ at' \in {"mapped", "map", "close"}
    BY <1>12 DEF AccessFails, TimesOut, ConfigurationRaises, RaisedNow, Next1, Goto
  <2> QED
    BY <2>1 DEF Progress, Configuring, Image, Running
<1>13. CASE DriveFails
  <2>1. \A s \in Slave : /\ drive'[s].csp = drive[s].csp /\ drive'[s].map = drive[s].map
                         /\ drive'[s].supervised = drive[s].supervised
    BY <1>0, <1>13 DEF DriveFails, DTypeOK, Drives
  <2> QED
    BY <1>0, <1>13, <2>1, ProgressKept DEF DriveFails
<1>14. CASE UNCHANGED dvars
  BY <1>14 DEF dvars, Progress, Configured
<1> QED
  BY <1>1, <1>2, <1>3, <1>4, <1>5, <1>6, <1>7, <1>8, <1>9, <1>10, <1>11, <1>12, <1>13, <1>14
  DEF DNext, Bridge, Configure, Done

\* Readiness is published only with every drive mapped, supervised and in CSP,
\* whichever accesses failed and in whatever order config_map raised it.
THEOREM Ready == DSpec => []ReadyMeansConfigured
<1>1. DInit => Progress
  BY DEF DInit, Progress, Configuring, Image, Running
<1>2. Progress => ReadyMeansConfigured
  BY DEF Progress, ReadyMeansConfigured, Configured, Image, Running
<1> QED
  BY <1>1, <1>2, ProgressNext, TypeCorrect, PTL DEF DSpec

\* A drive in Fault that the inputs show has been counted in every cycle since,
\* the ones aside that lost frames hid; one that they do not show has been hidden
\* by lost frames ever since it failed.
Counted ==
  /\ at \notin Running \cup Closing => cycles = 0
  /\ at = "op" => cycles = 0
  /\ at = "ready" => cycles = PrimeCycles
  /\ at = "prime" => \A s \in Slave : drive[s].state = "fault" =>
       IF inputs[s] THEN wkc >= cycles - failedIn[s]
       ELSE bad + WkcFaultCycles - 1 >= cycles - failedIn[s]

LEMMA CountedNext == DTypeOK /\ Counted /\ NoFaultedReady /\ [DNext]_dvars
                     => Counted' /\ NoFaultedReady'
<1> SUFFICES ASSUME DTypeOK, Counted, NoFaultedReady, [DNext]_dvars
             PROVE  Counted' /\ NoFaultedReady'
  OBVIOUS
<1>0. /\ cycles \in Nat /\ bad \in Nat /\ wkc \in Nat
      /\ PrimeCycles \in Nat /\ FaultCycles \in Nat \ {0} /\ WkcFaultCycles \in Nat \ {0}
      /\ \A s \in Slave : drive[s] \in Drives /\ failedIn[s] \in Nat
  BY SetupAssumption DEF DTypeOK, NeverFailed
<1>1. CASE cycles' = 0 /\ at' \notin {"prime", "ready"}
  BY <1>1 DEF Counted, NoFaultedReady, Running, Closing
<1>2. CASE at' \in Closing
  BY <1>2 DEF Counted, NoFaultedReady, Running, Closing
<1>3. CASE OpenSocket \/ Attach \/ Identify \/ Configure \/ Mapped \/ PrepareOutputs
           \/ AccessFails \/ TimesOut
  <2>1. /\ cycles' = cycles /\ at \notin Running \cup Closing /\ at' \notin {"prime", "ready"}
    <3>1. CASE MapPdos \/ Supervise \/ WriteTarget \/ Shutdown \/ SwitchOn \/ EnableOperation
      <4>1. cycles' = cycles /\ at \in Configuring /\ at' \in Configuring
        BY <3>1, ConfigurationSteps, StepProperties
      <4> QED
        BY <4>1 DEF Configuring, Running, Closing
    <3>2. CASE OpenSocket \/ Attach \/ Identify \/ ResetFault \/ ConfirmMode \/ Mapped
               \/ PrepareOutputs
      BY <3>2 DEF OpenSocket, Attach, Identify, ResetFault, ConfirmMode, Next1, Mapped,
         PrepareOutputs, Goto, KeepFlags, exchange, Running, Closing
    <3>3. CASE AccessFails \/ TimesOut
      BY <3>3 DEF AccessFails, TimesOut, ConfigurationRaises, Next1, Goto, exchange,
         Configuring, Running, Closing
    <3> QED
      BY <1>3, <3>1, <3>2, <3>3 DEF Configure
  <2> QED
    BY <1>1, <2>1 DEF Counted
<1>4. CASE RequestOp
  <2>1. cycles' = 0 /\ bad' = bad /\ wkc' = wkc /\ at' = "prime" /\ failedIn' = failedIn
    BY <1>4 DEF RequestOp, Goto, history, Counted
  <2> QED
    BY <1>0, <2>1 DEF Counted, NoFaultedReady, Running
<1>5. CASE Prime
  <2>1. PICK heard, read \in Reached :
          /\ drive' = Frame(out, heard) /\ inputs' = Reading(read)
          /\ wkc' = IF heard = Slave /\ read = Slave THEN 0 ELSE wkc + 1
    BY <1>5 DEF Prime
  <2>2. PICK other \in OtherBits : bad' = IF BadCycle(other) THEN bad + 1 ELSE 0
    BY <1>5 DEF Prime
  <2>3. /\ at = "prime" /\ at' = "prime" /\ cycles' = cycles + 1 /\ failedIn' = failedIn
        /\ op' \in BOOLEAN /\ wkc < WkcFaultCycles
    BY <1>0, <1>5 DEF Prime, history, Faulted, DTypeOK
  <2>4. \A s \in Slave : drive'[s].state = drive[s].state
    BY <2>1, <2>3, FrameProperties DEF DTypeOK
  <2>5. ASSUME NEW s \in Slave, drive'[s].state = "fault"
        PROVE  IF inputs'[s] THEN wkc' >= cycles' - failedIn'[s]
               ELSE bad' + WkcFaultCycles - 1 >= cycles' - failedIn'[s]
    <3>1. /\ inputs'[s] = (IF s \in read THEN FALSE ELSE inputs[s])
          /\ IF inputs[s] THEN wkc >= cycles - failedIn[s]
             ELSE bad + WkcFaultCycles - 1 >= cycles - failedIn[s]
      BY <2>1, <2>3, <2>4, <2>5 DEF Reading, Counted
    <3>2. CASE inputs'[s]
      <4>1. wkc' = wkc + 1 /\ inputs[s]
        BY <2>1, <3>1, <3>2
      <4>2. wkc >= cycles - failedIn[s]
        BY <3>1, <4>1
      <4>3. wkc' >= cycles' - failedIn'[s]
        BY <1>0, <2>3, <4>1, <4>2
      <4> QED
        BY <3>2, <4>3
    <3>3. CASE ~inputs'[s]
      <4>1. bad' = bad + 1
        BY <2>2, <3>3 DEF BadCycle
      <4>2. \/ wkc >= cycles - failedIn[s]
            \/ bad + WkcFaultCycles - 1 >= cycles - failedIn[s]
        BY <3>1
      <4>3. bad' + WkcFaultCycles - 1 >= cycles' - failedIn'[s]
        BY <1>0, <2>3, <4>1, <4>2
      <4> QED
        BY <3>3, <4>3
    <3> QED
      BY <3>1, <3>2, <3>3
  <2> QED
    BY <2>3, <2>5 DEF Counted, NoFaultedReady, Running
<1>6. CASE Primed
  <2>1. /\ at = "prime" /\ at' = "ready" /\ cycles = PrimeCycles /\ ~Faulted
        /\ UNCHANGED <<drive, cycles, failedIn>>
    BY <1>6 DEF Primed, Goto, KeepFlags, exchange, history
  <2>2. ASSUME NEW s \in Slave, drive[s].state = "fault"
        PROVE  failedIn[s] > PrimeCycles - FaultCycles - (WkcFaultCycles - 1)
    <3>1. /\ bad < FaultCycles /\ wkc < WkcFaultCycles
          /\ \/ wkc >= cycles - failedIn[s]
             \/ bad + WkcFaultCycles - 1 >= cycles - failedIn[s]
      BY <1>0, <2>1, <2>2 DEF Counted, Faulted
    <3> QED
      BY <1>0, <2>1, <3>1
  <2> QED
    BY <2>1, <2>2 DEF Counted, NoFaultedReady, Running
<1>7. CASE PrimeFails \/ Stop \/ Raises \/ CloseMapped \/ CloseUnmapped \/ CloseMaster
  BY <1>2, <1>7 DEF PrimeFails, Stop, Raises, CloseMapped, CloseUnmapped, CloseMaster, Goto,
     Closing
<1>8. CASE DriveFails
  <2>1. UNCHANGED <<at, cycles, bad, wkc, inputs>>
    BY <1>8 DEF DriveFails, exchange
  <2>2. PICK f \in Slave : /\ drive' = [drive EXCEPT ![f].state = "fault"]
                           /\ failedIn' = [failedIn EXCEPT ![f] = cycles]
    BY <1>8 DEF DriveFails
  <2>3. \A s \in Slave : \/ drive'[s] = drive[s] /\ failedIn'[s] = failedIn[s]
                         \/ failedIn'[s] = cycles
    BY <2>2 DEF DTypeOK
  <2>4. at = "prime" => \A s \in Slave : drive'[s].state = "fault" =>
          IF inputs[s] THEN wkc >= cycles - failedIn'[s]
          ELSE bad + WkcFaultCycles - 1 >= cycles - failedIn'[s]
    BY <1>0, <2>3 DEF Counted
  <2>5. at = "ready" => \A s \in Slave :
          drive'[s].state = "fault" =>
            failedIn'[s] > PrimeCycles - FaultCycles - (WkcFaultCycles - 1)
    BY <1>0, <2>3 DEF Counted, NoFaultedReady
  <2> QED
    BY <2>1, <2>4, <2>5 DEF Counted, NoFaultedReady
<1>9. CASE UNCHANGED dvars
  BY <1>9 DEF dvars, exchange, history, Counted, NoFaultedReady
<1> QED
  BY <1>3, <1>4, <1>5, <1>6, <1>7, <1>8, <1>9 DEF DNext, Bridge, Done

\* A drive in Fault when readiness is published failed too late for the debounce of
\* bad states, behind that of lost frames, to reach its limit, or after the exchange.
THEOREM ReadyIsFresh == DSpec => []NoFaultedReady
<1>1. DInit => Counted /\ NoFaultedReady
  BY DEF DInit, Counted, NoFaultedReady, Running
<1> QED
  BY <1>1, CountedNext, TypeCorrect, PTL DEF DSpec
=============================================================================
