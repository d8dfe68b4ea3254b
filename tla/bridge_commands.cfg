SPECIFICATION Spec
CONSTANTS
  j1 = j1
  Joint = {j1}
  TicksPerUnit <- OneTpu
  Sign <- OneSign
  DriveZero <- OneZero
  PosMin <- OneMin
  PosMax <- OneMax
  MaxStep <- OneStep
  FirstTol <- OneTol
  SyncTol <- OneTol
  MaxTracking <- OneTracking
  WatchdogTicks = 1
  WkcFaultCycles = 1
  StateFaultCycles = 2
  TimingFaultCycles = 1
  PrimeCycles = 2
  GraceCycles = 2
  AllowMotion = TRUE
  Candidates <- OneFine
  Seqs = {0}
  Poses <- OnePoses
  Reports <- GoodReports
  Disturbances <- Everything
  MaxMove = 1
  MaxStall = 2
  MaxBurst = 2
INVARIANTS
  TypeOK
  QueuedCommandsNeverAddUp
  EngagedTargetInLimits
  NoStaleCommandDriven
PROPERTIES
  ImplementsGate
