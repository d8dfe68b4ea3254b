SPECIFICATION Spec
CONSTANTS
  j1 = j1
  Joint = {j1}
  TicksPerUnit <- OneTpu
  Sign <- OneSign
  DriveZero <- OneZero
  PosMin <- OneMin
  PosMax <- OneMax
  MaxStep <- OneStep
  FirstTol <- OneTol
  SyncTol <- OneTol
  MaxTracking <- OneTracking
  WatchdogTicks = 1
  WkcFaultCycles = 1
  StateFaultCycles = 1
  TimingFaultCycles = 1
  PrimeCycles = 1
  GraceCycles = 1
  AllowMotion = TRUE
  Candidates <- OneFine
  Seqs = {0}
  Poses <- OneFar
  Reports <- GoodReports
  Disturbances <- Everything
  MaxMove = 1
  MaxStall = 2
  MaxBurst = 1
PROPERTIES
  ResumeJumpBounded
