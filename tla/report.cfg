SPECIFICATION ReportSpec
CONSTANTS
  Disks = {"disk"}
  Drivers = {"driver"}
  Durations = {1, 2}
  Switches = TRUE
  StorageTrace = TRUE
  NotableCap = 2
  SlowCap = 1
  Need = 1
  StorNeed = 0
  FlushWait = 1
  GiveUp = 2
  CaughtUp = 0
  FreezeAge = 1
  Edge = 0
  ShowFirst = 1
  OutlierFactor = 2
  RollupEvery = 1
  WindowLen = 1
  WindowMax = 2
  MaxNow = 3
  MaxEvents = 3
  MaxFreezes = 1
  ShownInFull = 2
  ShownMax = 5
  MaxMetrics = 2
  FeltMs = 100
  CrackleRate = 360
  CrackleMs = 5
  ShareMs = 18000
  LeadRate = 2
  SuspectMs = 50
  BadReady = 50
  BadBlocked = 500
  WaitRows = 1
  ExecWarn = 1
  ExecBad = 4
  ExecBadRate = 60
  MinOnBehalf = 2
  MaxQuietPollers = 2
  MinEvents = 3
  EcoreMin = 2
  PagingBad = 72000
  PagingLead = 18000
  PagingWorst = 200
  PagingFloor = 1000
  SlowBad = 1000
  SlowRate = 12
  Repeated = 3
  MostlyMin = 2
  VramClear = 80
  GpuBound = 97
  GpuWaiting = 60
  GpuWorked = 90
  ThrottledMin = 3
  OldYears = 5
  Runs <- MCRuns
  PCs = {"pc1", "pc2"}
  Machine <- MCMachine
  Problems = {"p", "q", "l"}
  Program <- MCProgram
  AtFirst <- MCAtFirst
  Logged = {"l"}
  Watches = {{"p", "q", "l"}}
  Lengths = {2, 4}
  Saves = {"whole", "not at all", "cut"}
  MaxRate = 3
  WorthTelling = 2
  LookBack = 1
  MaxAge = 1
  NoiseShare = 20
  SameLength = 25
  MaxRuns = 3
  MaxChanges = 1
  MaxDays = 3
INVARIANTS LogInOrder FoldedAreSummarised OnlyVictimsDiscounted
INVARIANTS EveryMomentIsAccounted NothingRealIsHidden
INVARIANTS ChangeIsReal
CHECK_DEADLOCK FALSE
