------------------------ MODULE HardwareSession_proofs ------------------------
(***************************************************************************)
(* Theorems about HardwareSession, for any number of launches, any         *)
(* configurations, trajectory, tolerances and drive coordinates.           *)
(***************************************************************************)
EXTENDS HardwareSession, TLAPS

\* Between model and drive coordinates nothing is lost.
LEMMA Coordinates ==
  /\ PickReady \in Int
  /\ \A q \in Int : DriveOf(q) \in Int /\ ModelOf(q) \in Int /\ ModelOf(DriveOf(q)) = q
<1>1. PickReady \in Int
  BY SessionsAssumption DEF PickReady
<1>2. CASE Sign = 1
  BY <1>1, <1>2, SessionsAssumption DEF DriveOf, ModelOf
<1>3. CASE Sign = -1
  BY <1>1, <1>3, SessionsAssumption DEF DriveOf, ModelOf
<1> QED
  BY <1>2, <1>3, SessionsAssumption

(***************************************************************************)
(* Types.                                                                  *)
(***************************************************************************)
BridgePlaces == {"off", "loading", "startup", "connecting", "cyclic", "fault", "closing",
                 "failing", "gone"}
Players == [at : {"off", "waiting", "streaming", "done"}, next : 0 .. Len(Trajectory),
            run : 0 .. MaxRuns]

LEMMA TypeInit == SInit => STypeOK
<1> SUFFICES ASSUME SInit PROVE STypeOK
  OBVIOUS
<1>1. NoMarker \in Markers /\ NoFacts \in [arm : BOOLEAN, gripper : BOOLEAN]
  BY DEF NoMarker, Markers, NoFacts
<1>2. NoPlayer \in Players
  <2>1. 0 \in 0 .. Len(Trajectory) /\ 0 \in 0 .. MaxRuns
    BY SessionsAssumption
  <2> QED
    BY <2>1 DEF NoPlayer, Players
<1>3. pose \in Int /\ run \in 0 .. MaxRuns /\ readied \in 0 .. run
  BY SessionsAssumption DEF SInit
<1> QED
  BY <1>1, <1>2, <1>3 DEF SInit, STypeOK, Players

\* A published command.
LEMMA PublishProperties ==
  ASSUME STypeOK, NEW q \in Int, Publish(q)
  PROVE  /\ pose' \in Int
         /\ control' = control \/ (control = "active" /\ control' = "halted")
         /\ pose' # pose => control = "active" /\ bridge = "cyclic"
BY Coordinates DEF Publish, STypeOK

LEMMA AdvanceProperties ==
  ASSUME NEW p \in Players, p.next >= 1
  PROVE  /\ Advance(p) \in Players /\ Advance(p).run = p.run
         /\ Advance(p).at \in {"streaming", "done"}
         /\ Advance(p).at = "streaming" => Advance(p).next >= 1
<1>1. Len(Trajectory) \in Nat /\ p.next \in 1 .. Len(Trajectory)
  BY SessionsAssumption DEF Players
<1>2. CASE p.next = Len(Trajectory)
  BY <1>1, <1>2 DEF Advance, Players
<1>3. CASE p.next # Len(Trajectory)
  <2>1. p.next + 1 \in 0 .. Len(Trajectory) /\ p.next + 1 >= 1
    BY <1>1, <1>3
  <2>2. Advance(p) = [p EXCEPT !.at = "streaming", !.next = p.next + 1]
    BY <1>3 DEF Advance
  <2> QED
    BY <2>1, <2>2 DEF Players
<1> QED
  BY <1>2, <1>3

\* The sample a streaming player is at exists, and a bridge has a launch.
Typed ==
  /\ STypeOK
  /\ player.at = "streaming" => player.next >= 1
  /\ bridge # "off" => run >= 1

LEMMA PlayerSteps ==
  ASSUME Typed, Player
  PROVE  /\ player' \in Players /\ player'.at \in {"streaming", "done"}
         /\ player'.at = "streaming" => player'.next >= 1
         /\ \E q \in Int : Publish(q)
         /\ StartOnce => player'.run = run
         /\ OnTimer => player'.run = player.run /\ player.at = "streaming"
         /\ PlayerOnly
<1>0. Trajectory # <<>> /\ Trajectory \in Seq(Int) /\ Len(Trajectory) \in Nat \ {0}
  BY SessionsAssumption
<1>1. CASE StartOnce
  <2> DEFINE p == [player EXCEPT !.next = 1, !.run = run]
  <2>1. p \in Players /\ p.next = 1 /\ p.run = run
    <3>1. player \in Players /\ run \in 0 .. MaxRuns /\ 1 \in 0 .. Len(Trajectory)
      BY <1>0 DEF Typed, STypeOK, Players
    <3> QED
      BY <3>1 DEF Players
  <2>2. player' = Advance(p) /\ Publish(Trajectory[1]) /\ PlayerOnly
    BY <1>1 DEF StartOnce
  <2>3. ~OnTimer
    BY <1>1 DEF StartOnce, OnTimer
  <2>4. Trajectory[1] \in Int
    BY <1>0
  <2> HIDE DEF p
  <2>5. /\ Advance(p) \in Players /\ Advance(p).run = run
        /\ Advance(p).at \in {"streaming", "done"}
        /\ Advance(p).at = "streaming" => Advance(p).next >= 1
    BY <2>1, AdvanceProperties
  <2> QED
    BY <2>2, <2>3, <2>4, <2>5
<1>2. CASE OnTimer
  <2>1. player \in Players /\ player.next \in 1 .. Len(Trajectory)
    <3>1. player \in Players /\ player.next >= 1
      BY <1>2 DEF OnTimer, Typed, STypeOK, Players
    <3>2. player.next \in 0 .. Len(Trajectory)
      BY <3>1, Zenon DEF Players
    <3> QED
      BY <1>0, <3>1, <3>2
  <2>2. player' = Advance(player) /\ Publish(Trajectory[player.next]) /\ PlayerOnly
    BY <1>2 DEF OnTimer
  <2>3. ~StartOnce
    BY <1>2 DEF StartOnce, OnTimer
  <2>4. Trajectory[player.next] \in Int
    BY <1>0, <2>1
  <2> QED
    BY <1>2, <2>1, <2>2, <2>3, <2>4, AdvanceProperties DEF OnTimer
<1> QED
  BY <1>1, <1>2 DEF Player

LEMMA TypeNext == Typed /\ [SNext]_svars => Typed'
<1> SUFFICES ASSUME Typed, [SNext]_svars PROVE Typed'
  OBVIOUS
<1>0. STypeOK
  BY DEF Typed
<1> USE DEF STypeOK
<1>1. CASE LoadConfig
  BY <1>0, <1>1 DEF LoadConfig, BridgeOnly, launchVars, armVars, Typed, Markers, NoMarker
<1>2. CASE LoadConfigFails
  BY <1>0, <1>2 DEF LoadConfigFails, BridgeOnly, launchVars, armVars, Typed
<1>3. CASE Startup
  <2>1. pose' \in Int
    BY <1>0, <1>3, Coordinates DEF Startup, PickReadyTarget
  <2>2. facts' \in [arm : BOOLEAN, gripper : BOOLEAN] /\ referenced' \in BOOLEAN
    BY <1>0, <1>3 DEF Startup, Homes
  <2> QED
    BY <1>0, <1>3, <2>1, <2>2 DEF Startup, BridgeOnly, launchVars, Typed, Markers, NoMarker
<1>4. CASE StartupFails
  <2>1. pose' \in Int /\ referenced' \in BOOLEAN
    BY <1>0, <1>4, SessionsAssumption DEF StartupFails, Homes
  <2> QED
    BY <1>0, <1>4, <2>1 DEF StartupFails, BridgeOnly, launchVars, Typed
<1>5. CASE BecomeReady
  <2>1. run \in 1 .. MaxRuns /\ config.motion \in BOOLEAN /\ ModelOf(pose) \in Int
    BY <1>0, <1>5, Coordinates, SessionsAssumption DEF BecomeReady, Typed
  <2>2. marker' \in Markers
    BY <1>0, <1>5, <2>1 DEF BecomeReady, Markers
  <2> QED
    BY <1>0, <1>5, <2>1, <2>2 DEF BecomeReady, BridgeOnly, launchVars, armVars, Typed
<1>6. CASE BridgeFaults
  BY <1>0, <1>6 DEF BridgeFaults, BridgeOnly, launchVars, armVars, Typed
<1>7. CASE RunFails \/ Interrupted
  <2>1. /\ UNCHANGED <<launchVars, player, killed, facts, armVars, readied>>
        /\ bridge' \in {"closing", "gone"} /\ bridge # "off"
        /\ marker' \in {marker, NoMarker} /\ failed' \in BOOLEAN
    BY <1>0, <1>7 DEF RunFails, Interrupted, Close, MarkerAfterClose, BridgeOnly, InRun, Alive
  <2> QED
    BY <1>0, <2>1 DEF launchVars, armVars, Typed, Markers
<1>8. CASE Closed
  BY <1>0, <1>8 DEF Closed, BridgeOnly, launchVars, armVars, Typed
<1>9. CASE WriteStartupFailure
  <2>1. run \in 1 .. MaxRuns
    BY <1>0, <1>9 DEF WriteStartupFailure, Typed
  <2>2. marker' \in Markers
    BY <1>9, <2>1 DEF WriteStartupFailure, Markers
  <2> QED
    BY <1>0, <1>9, <2>2 DEF WriteStartupFailure, BridgeOnly, launchVars, armVars, Typed
<1>10. CASE Killed
  BY <1>0, <1>10 DEF Killed, Alive, launchVars, armVars, Typed
<1>11. CASE Launch
  <2>1. run' \in 0 .. MaxRuns /\ run' >= 1 /\ readied \in 0 .. run'
    BY <1>0, <1>11, SessionsAssumption DEF Launch
  <2> QED
    BY <1>0, <1>11, <2>1 DEF Launch, NoFacts, armVars, Typed
<1>12. CASE WaiterReads \/ BridgeExits \/ CtrlC \/ ConfigureController \/ ActivateController
            \/ HardwareError \/ Teardown
  <2>1. /\ UNCHANGED <<run, config>> /\ LaunchOnly
        /\ launch' \in {"off", "up", "down"} /\ waiter' \in {"off", "waiting", "ok", "failed"}
        /\ control' \in {"off", "starting", "inactive", "active", "halted"}
    BY <1>0, <1>12 DEF WaiterReads, BridgeExits, CtrlC, ConfigureController, ActivateController,
       HardwareError, Teardown
  <2> QED
    BY <1>0, <2>1 DEF LaunchOnly, bridgeVars, armVars, Typed
<1>13. CASE LaunchEnds
  BY <1>0, <1>13 DEF LaunchEnds, armVars, Typed
<1>14. CASE PowerCycle
  <2>1. pose' \in Int /\ referenced' \in BOOLEAN
    BY <1>14, SessionsAssumption DEF PowerCycle
  <2> QED
    BY <1>0, <1>14, <2>1 DEF PowerCycle, launchVars, bridgeVars, Typed
<1>15. CASE Player
  <2>1. PICK q \in Int : Publish(q)
    BY <1>15, PlayerSteps
  <2>2. pose' \in Int /\ control' \in {control, "halted"}
    BY <1>0, <2>1, PublishProperties
  <2>3. /\ player' \in Players /\ PlayerOnly
        /\ player'.at = "streaming" => player'.next >= 1
    BY <1>15, PlayerSteps
  <2> QED
    BY <1>0, <2>2, <2>3 DEF PlayerOnly, bridgeVars, Players, Typed
<1>16. CASE StartPlayer
  <2>1. player' \in Players
    <3>1. 1 \in 0 .. Len(Trajectory)
      BY SessionsAssumption
    <3> QED
      BY <1>0, <1>16, <3>1 DEF StartPlayer, Players
  <2> QED
    BY <1>0, <1>16, <2>1 DEF StartPlayer, PlayerOnly, bridgeVars, Players, Typed
<1>17. CASE StopPlayer
  <2>1. player' \in Players /\ player'.at = "off"
    <3>1. 0 \in 0 .. Len(Trajectory)
      BY SessionsAssumption
    <3> QED
      BY <1>0, <1>17, <3>1 DEF StopPlayer, Players
  <2> QED
    BY <1>0, <1>17, <2>1 DEF StopPlayer, PlayerOnly, bridgeVars, Players, Typed
<1>18. CASE UNCHANGED svars
  BY <1>0, <1>18 DEF svars, launchVars, bridgeVars, armVars, Typed
<1> QED
  BY <1>1, <1>2, <1>3, <1>4, <1>5, <1>6, <1>7, <1>8, <1>9, <1>10, <1>11, <1>12, <1>13, <1>14,
     <1>15, <1>16, <1>17, <1>18
  DEF SNext, Bridge, Stack, Operator, Faults

LEMMA TypedAlways == SSpec => []Typed
<1>1. SInit => Typed
  BY TypeInit DEF SInit, NoPlayer, Typed
<1> QED
  BY <1>1, TypeNext, PTL DEF SSpec

\* Every variable keeps its type.
THEOREM TypeCorrect == SSpec => []STypeOK
<1>1. Typed => STypeOK
  BY DEF Typed
<1> QED
  BY <1>1, TypedAlways, PTL

(***************************************************************************)
(* The marker, the launch, the controllers and the player.                 *)
(***************************************************************************)
\* Between launches nothing runs.
AtRest == launch = "off" => control = "off" /\ bridge = "off"

\* A ready marker is of a launch so far; one of this launch says that this launch
\* was ready and what its homing found, and hides every older one.
MarkerOfRun ==
  /\ marker.kind = "ready" =>
       /\ marker.run <= run
       /\ marker.run = run <=> readied = run
       /\ marker.run = run => marker.arm = facts.arm
  /\ bridge \in {"loading", "startup", "connecting"} => readied < run

\* What an admitted player relies on.
Admitted ==
  /\ player.run <= run
  /\ player.at = "streaming" /\ player.run = run => facts.arm /\ readied = run
  /\ bridge \in {"connecting", "cyclic"} /\ facts.arm => referenced

Owned == AtRest /\ MarkerOwned /\ ControlFollowsReady /\ MarkerOfRun /\ Admitted

LEMMA Numbers ==
  ASSUME Typed
  PROVE  /\ run \in Int /\ readied \in Int /\ readied <= run /\ player.run \in Int
         /\ marker.kind = "ready" => marker.run \in Int
<1>1. STypeOK
  BY DEF Typed
<1>2. run \in Int /\ readied \in Int /\ readied <= run
  BY <1>1, SessionsAssumption DEF STypeOK
<1>3. player.run \in Int
  BY <1>1, SessionsAssumption DEF STypeOK
<1>4. marker.kind = "ready" => marker.run \in Int
  BY <1>1, SessionsAssumption DEF STypeOK, Markers, NoMarker
<1> QED
  BY <1>2, <1>3, <1>4

\* A step of the bridge that writes no marker and ends no cyclic exchange.
LEMMA BridgeGoesOn ==
  ASSUME Typed, Owned, UNCHANGED <<launchVars, player, killed, readied, facts, referenced>>,
         bridge \notin {"off", "cyclic", "fault"}, marker' = marker \/ marker'.kind # "ready",
         \/ bridge' \in {"closing", "failing", "gone"}
         \/ bridge = "loading" /\ bridge' = "startup"
  PROVE  Owned'
<1>1. ~(marker.kind = "ready" /\ ~killed) /\ launch # "off"
  BY DEF Owned, MarkerOwned, AtRest
<1>2. AtRest' /\ MarkerOwned' /\ ControlFollowsReady'
  BY <1>1 DEF Owned, AtRest, MarkerOwned, ControlFollowsReady, launchVars
<1>3. MarkerOfRun'
  BY DEF Owned, MarkerOfRun, launchVars
<1>4. Admitted'
  BY DEF Owned, Admitted, launchVars
<1> QED
  BY <1>2, <1>3, <1>4 DEF Owned

LEMMA OwnedNext == Typed /\ Owned /\ [SNext]_svars => Owned'
<1> SUFFICES ASSUME Typed, Owned, [SNext]_svars PROVE Owned'
  OBVIOUS
<1>n. /\ run \in Int /\ readied \in Int /\ readied <= run /\ player.run \in Int
      /\ marker.kind = "ready" => marker.run \in Int
  BY Numbers
<1>o. AtRest /\ MarkerOwned /\ ControlFollowsReady /\ MarkerOfRun /\ Admitted
  BY DEF Owned
<1>1. CASE LoadConfig \/ LoadConfigFails \/ Closed
  BY <1>1, BridgeGoesOn DEF LoadConfig, LoadConfigFails, Closed, BridgeOnly, armVars, NoMarker
<1>2. CASE Startup
  <2>1. /\ bridge = "startup" /\ bridge' = "connecting" /\ marker' = NoMarker
        /\ facts'.arm => referenced'
        /\ UNCHANGED <<launchVars, player, killed, readied>>
    BY <1>2 DEF Startup, BridgeOnly
  <2> QED
    BY <1>n, <1>o, <2>1 DEF Owned, AtRest, MarkerOwned, ControlFollowsReady, MarkerOfRun,
       Admitted, launchVars, NoMarker
<1>3. CASE StartupFails
  <2>1. /\ bridge = "startup" /\ bridge' = "failing"
        /\ UNCHANGED <<launchVars, player, killed, readied, facts, marker>>
    BY <1>3 DEF StartupFails, BridgeOnly
  <2> QED
    BY <1>n, <1>o, <2>1 DEF Owned, AtRest, MarkerOwned, ControlFollowsReady, MarkerOfRun,
       Admitted, launchVars
<1>4. CASE BecomeReady
  <2>1. /\ bridge = "connecting" /\ bridge' = "cyclic" /\ readied' = run
        /\ marker'.kind = "ready" /\ marker'.run = run /\ marker'.arm = facts.arm
        /\ UNCHANGED <<launchVars, player, killed, facts, referenced>>
    BY <1>4 DEF BecomeReady, BridgeOnly, armVars
  <2> QED
    BY <1>n, <1>o, <2>1 DEF Owned, AtRest, MarkerOwned, ControlFollowsReady, MarkerOfRun,
       Admitted, launchVars
<1>5. CASE BridgeFaults
  <2>1. /\ bridge = "cyclic" /\ bridge' = "fault"
        /\ UNCHANGED <<launchVars, player, killed, facts, marker, readied, referenced>>
    BY <1>5 DEF BridgeFaults, BridgeOnly, armVars
  <2> QED
    BY <1>n, <1>o, <2>1 DEF Owned, AtRest, MarkerOwned, ControlFollowsReady, MarkerOfRun,
       Admitted, launchVars
<1>6. CASE RunFails \/ (Interrupted /\ Close(FALSE))
  <2>1. /\ bridge # "off" /\ bridge' = "closing" /\ marker' = NoMarker
        /\ UNCHANGED <<launchVars, player, killed, facts, readied, referenced>>
    BY <1>6 DEF RunFails, Interrupted, Close, InRun, MarkerAfterClose, BridgeOnly, armVars
  <2> QED
    BY <1>n, <1>o, <2>1 DEF Owned, AtRest, MarkerOwned, ControlFollowsReady, MarkerOfRun,
       Admitted, launchVars, NoMarker
<1>7. CASE Interrupted /\ ~Close(FALSE)
  BY <1>7, BridgeGoesOn DEF Interrupted, Alive, InRun, BridgeOnly, armVars
<1>8. CASE WriteStartupFailure
  BY <1>8, BridgeGoesOn DEF WriteStartupFailure, BridgeOnly, armVars
<1>9. CASE Killed
  <2>1. /\ bridge # "off" /\ bridge' = "gone" /\ killed'
        /\ UNCHANGED <<launchVars, facts, marker, referenced, player, readied>>
    BY <1>9 DEF Killed, Alive, armVars
  <2> QED
    BY <1>n, <1>o, <2>1 DEF Owned, AtRest, MarkerOwned, ControlFollowsReady, MarkerOfRun,
       Admitted, launchVars
<1>10. CASE Launch
  <2>1. /\ launch = "off" /\ launch' = "up" /\ run' = run + 1 /\ bridge' = "loading"
        /\ UNCHANGED <<control, marker, player, readied, killed>>
    BY <1>10 DEF Launch
  <2> QED
    BY <1>n, <1>o, <2>1 DEF Owned, AtRest, MarkerOwned, ControlFollowsReady, MarkerOfRun,
       Admitted
<1>11. CASE \/ WaiterReads \/ BridgeExits \/ CtrlC \/ ConfigureController \/ ActivateController
            \/ HardwareError \/ Teardown
  <2>1. /\ UNCHANGED <<run, bridge, facts, marker, player, readied, killed, referenced>>
        /\ launch' = "off" => launch = "off" /\ control' = control
        /\ control' \in {"off", control} \/ control # "off" \/ readied = run
    BY <1>o, <1>11 DEF WaiterReads, BridgeExits, CtrlC, ConfigureController,
       ActivateController, HardwareError, Teardown, LaunchOnly, bridgeVars, armVars,
       RunMatches, MarkerOfRun, AtRest
  <2> QED
    BY <1>n, <1>o, <2>1 DEF Owned, AtRest, MarkerOwned, ControlFollowsReady, MarkerOfRun,
       Admitted
<1>12. CASE LaunchEnds
  <2>1. /\ bridge \in {"off", "gone"} /\ bridge' = "off" /\ control = "off"
        /\ UNCHANGED <<run, control, facts, marker, player, readied, killed, referenced>>
    BY <1>12 DEF LaunchEnds, Alive, armVars
  <2> QED
    BY <1>n, <1>o, <2>1 DEF Owned, AtRest, MarkerOwned, ControlFollowsReady, MarkerOfRun,
       Admitted
<1>13. CASE PowerCycle
  <2>1. /\ bridge \notin {"connecting", "cyclic"}
        /\ UNCHANGED <<launchVars, bridge, facts, marker, player, readied, killed>>
    BY <1>13 DEF PowerCycle, bridgeVars
  <2> QED
    BY <1>n, <1>o, <2>1 DEF Owned, AtRest, MarkerOwned, ControlFollowsReady, MarkerOfRun,
       Admitted, launchVars
<1>14. CASE Player
  <2>1. PICK q \in Int : Publish(q)
    BY <1>14, PlayerSteps
  <2>2. control' = control \/ control = "active"
    BY <2>1, PublishProperties DEF Typed
  <2>3. /\ UNCHANGED <<launch, run, bridge, facts, marker, referenced, readied, killed>>
        /\ StartOnce => player'.run = run
        /\ OnTimer => player'.run = player.run /\ player.at = "streaming"
    BY <1>14, PlayerSteps DEF PlayerOnly, bridgeVars
  <2>4. StartOnce => facts.arm /\ readied = run
    BY <1>o DEF StartOnce, HardwareExecutionReady, Trusted, ControlFollowsReady, MarkerOfRun
  <2> QED
    BY <1>n, <1>o, <1>14, <2>2, <2>3, <2>4 DEF Player, Owned, AtRest, MarkerOwned,
       ControlFollowsReady, MarkerOfRun, Admitted
<1>15. CASE StartPlayer \/ StopPlayer
  <2>1. /\ UNCHANGED <<launch, run, control, bridge, facts, marker, referenced, readied, killed>>
        /\ \/ player' = [at |-> "waiting", next |-> 1, run |-> run]
           \/ player' = [player EXCEPT !.at = "off", !.next = 0]
    BY <1>15 DEF StartPlayer, StopPlayer, PlayerOnly, bridgeVars
  <2>2. player'.at # "streaming" /\ player'.run \in {player.run, run}
    <3>1. player \in Players
      BY DEF Typed, STypeOK, Players
    <3>2. CASE player' = [at |-> "waiting", next |-> 1, run |-> run]
      BY <3>2
    <3>3. CASE player' = [player EXCEPT !.at = "off", !.next = 0]
      BY <3>1, <3>3 DEF Players
    <3> QED
      BY <2>1, <3>2, <3>3
  <2> QED
    BY <1>n, <1>o, <2>1, <2>2 DEF Owned, AtRest, MarkerOwned, ControlFollowsReady, MarkerOfRun,
       Admitted
<1>16. CASE UNCHANGED svars
  BY <1>o, <1>16 DEF svars, launchVars, bridgeVars, armVars, Owned, AtRest, MarkerOwned,
     ControlFollowsReady, MarkerOfRun, Admitted
<1> QED
  BY <1>1, <1>2, <1>3, <1>4, <1>5, <1>6, <1>7, <1>8, <1>9, <1>10, <1>11, <1>12, <1>13, <1>14,
     <1>15, <1>16
  DEF SNext, Bridge, Stack, Operator, Faults

LEMMA Ownership == SSpec => []Owned
<1>1. SInit => Owned
  BY DEF SInit, Owned, AtRest, MarkerOwned, ControlFollowsReady, MarkerOfRun, Admitted,
     NoMarker, NoFacts, NoPlayer
<1> QED
  BY <1>1, TypedAlways, OwnedNext, PTL DEF SSpec

\* Without a kill no ready marker outlives the bridge that wrote it, and none is
\* of an earlier run.
THEOREM Marker == SSpec => []MarkerOwned
<1>1. Owned => MarkerOwned
  BY DEF Owned
<1> QED
  BY <1>1, Ownership, PTL

\* Whatever markers killed bridges left behind, the controllers start only after
\* the bridge of this launch was ready.
THEOREM ControlWaits == SSpec => []ControlFollowsReady
<1>1. Owned => ControlFollowsReady
  BY DEF Owned
<1> QED
  BY <1>1, Ownership, PTL

\* A player admitted in this launch moves the arm only on homed counters, through
\* kills, power cycles and restarts.
THEOREM ReferencedMotion == SSpec => OnlyReferencedMotion
<1>1. ASSUME Typed, Owned, Player, player.run = run, pose' # pose
      PROVE  referenced
  <2>1. PICK q \in Int : Publish(q)
    BY <1>1, PlayerSteps
  <2>2. bridge = "cyclic"
    BY <1>1, <2>1, PublishProperties DEF Typed
  <2>3. StartOnce => facts.arm
    BY <1>1 DEF StartOnce, HardwareExecutionReady, Trusted, Owned, ControlFollowsReady,
       MarkerOfRun
  <2>4. OnTimer => facts.arm
    BY <1>1 DEF OnTimer, Owned, Admitted
  <2> QED
    BY <1>1, <2>2, <2>3, <2>4 DEF Player, Owned, Admitted
<1>2. Typed /\ Owned => (Player /\ player.run = run /\ pose' # pose => referenced)
  BY <1>1
<1> QED
  BY <1>2, TypedAlways, Ownership, PTL DEF SSpec, OnlyReferencedMotion

(***************************************************************************)
(* The pose in the marker.                                                 *)
(***************************************************************************)
\* From the move to pick-ready to the marker, the arm is at pick-ready.
AtPickReady ==
  config.mode = "home_then_pick_ready" =>
    /\ bridge = "connecting" => pose = PickReadyTarget
    /\ bridge = "cyclic" => marker.kind = "ready" /\ marker.pose = PickReady

LEMMA PickReadyNext == Typed /\ AtPickReady /\ [SNext]_svars => AtPickReady'
<1> SUFFICES ASSUME Typed, AtPickReady, [SNext]_svars PROVE AtPickReady'
  OBVIOUS
<1>1. CASE Startup
  <2>1. /\ bridge' = "connecting" /\ config' = config
        /\ config.mode = "home_then_pick_ready" => pose' = PickReadyTarget
    BY <1>1 DEF Startup, BridgeOnly, launchVars
  <2> QED
    BY <2>1 DEF AtPickReady, PickReadyTarget
<1>2. CASE BecomeReady
  <2>1. /\ bridge = "connecting" /\ bridge' = "cyclic" /\ config' = config
        /\ marker'.kind = "ready" /\ marker'.pose = ModelOf(pose)
    BY <1>2 DEF BecomeReady, BridgeOnly, launchVars
  <2> QED
    BY <2>1, Coordinates DEF AtPickReady, PickReadyTarget
<1>3. CASE bridge' \notin {"connecting", "cyclic"}
  BY <1>3 DEF AtPickReady
<1>4. CASE LoadConfig \/ LoadConfigFails \/ StartupFails \/ Closed \/ WriteStartupFailure
           \/ BridgeFaults \/ RunFails \/ Interrupted \/ Killed \/ Launch \/ LaunchEnds
  BY <1>3, <1>4 DEF LoadConfig, LoadConfigFails, StartupFails, Closed, WriteStartupFailure,
     BridgeFaults, RunFails, Interrupted, Close, Killed, Launch, LaunchEnds
<1>5. CASE WaiterReads \/ BridgeExits \/ CtrlC \/ ConfigureController \/ ActivateController
           \/ HardwareError \/ Teardown
  BY <1>5 DEF WaiterReads, BridgeExits, CtrlC, ConfigureController, ActivateController,
     HardwareError, Teardown, LaunchOnly, bridgeVars, armVars, AtPickReady, PickReadyTarget
<1>6. CASE PowerCycle
  BY <1>3, <1>6 DEF PowerCycle, bridgeVars
<1>7. CASE Player
  <2>1. PICK q \in Int : Publish(q)
    BY <1>7, PlayerSteps
  <2>2. pose' # pose => bridge = "cyclic"
    BY <2>1, PublishProperties DEF Typed
  <2>3. UNCHANGED <<config, bridge, marker>>
    BY <1>7, PlayerSteps DEF PlayerOnly, bridgeVars
  <2> QED
    BY <2>2, <2>3 DEF AtPickReady, PickReadyTarget
<1>8. CASE StartPlayer \/ StopPlayer
  BY <1>8 DEF StartPlayer, StopPlayer, PlayerOnly, bridgeVars, AtPickReady, PickReadyTarget
<1>9. CASE UNCHANGED svars
  BY <1>9 DEF svars, launchVars, bridgeVars, armVars, AtPickReady, PickReadyTarget
<1> QED
  BY <1>1, <1>2, <1>4, <1>5, <1>6, <1>7, <1>8, <1>9
  DEF SNext, Bridge, Stack, Operator, Faults

\* After the move to pick-ready the marker shows the pose the player asks for,
\* for either sign and any zero of the drive.
THEOREM PickReadyShown == SSpec => []PickReadyAdmits
<1>1. SInit => AtPickReady
  BY DEF SInit, AtPickReady
<1>2. AtPickReady => PickReadyAdmits
  <2>1. PickReady \in Int /\ Distance(PickReady, PickReady) = 0 /\ Tolerance \in Nat
    BY Coordinates, SessionsAssumption DEF Distance
  <2> QED
    BY <2>1 DEF AtPickReady, PickReadyAdmits, PickReady
<1> QED
  BY <1>1, <1>2, TypedAlways, PickReadyNext, PTL DEF SSpec
=============================================================================
