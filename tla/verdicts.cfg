SPECIFICATION VerdictsSpec
CONSTANTS
  SchedThreads = {1, 2, 3}
  Probe = 1
  Procs = {1}
  Pin = 1
  IdleTid = 0
  Reasons = {"lock"}
  Interval = 1
  OneMs = 1
  SlackShare = 20
  MinStall = 2
  Jumps = {1}
  MaxRecords = 7
  MaxTick = 8
  LateThreads = {1, 2}
  WaitsRecords = 5
  WaitsTick = 4
  Owners <- MCOwners
  Newcomers = {2}
  OwnTool = 0
  NoProgram = 9
  HeldUp = {"lock"}
  FeltReady = 2
  FeltBlocked = 2
  MaxBlocked = 3
  MaxLines = 1
  Reaches = {3}
  Fronts = {1, 9}
  MaxMoments = 2
  FrontPids = {pid1, pid2}
  Apps = {"game", "lockapp"}
  NotUsed = {"lockapp"}
  SampleEvery = 2
  SampleLate = 1
  Stale = 4
  MaxSamples = 2
  NameRefresh = 1
  Lags = {1, 2}
  Backs = {0, 1}
  MaxTime = 7
  MaxChanges = 3
  Cpus = {p0, p1}
  Modules = {"d", "e"}
  Clock = "clock"
  Doings <- MCDoings
  Requests <- MCRequests
  Refs <- MCRefs
  Verdicts = {"none", "not woken", "queued"}
  StallLen = 5
  Unit = 4
  CoverRule = 35
  ShareRule = 40
  SliceShare = 60
  PagingCover = 50
  Saturated = 25
  PeggedBusy = 90
  OthersIdle = 50
  DarkBelow = 30
  MinSamples = 4
  MinDpcs = 4
  Slices = 4
  MinExpected = 2
  SliceLen = 2
  MinRefEvents = 3
  SteadyShare = 80
  SilentBelow = 10
  ReducedBelow = 50
  Lead = 2
  Slack = 2
  MaxTurns = 1
  Threads = {a, b}
  Nobody = Nobody
  Drives = {1}
  Program <- MCProgram
  Tool = "own"
  System = "system"
  IoWarn = 1
  StuckMin = 1
  ReadyBefore = 0
  ReadyAfter = 1
  LockAfter = 1
  SleepGap = 2
  WakeMin = 1
  Spinning = {1}
  ThrashLook = 3
  MinEach = 1
  MinFar = 1
  BusyOthers = 2
  RingKeep = 4
  Lag = 1
  Ops = {"read"}
  MaxWaits = 2
  MaxIos = 2
  MaxClock = 4
SYMMETRY MCSym
INVARIANTS LatenessIsTold WaitsAreReal KeptWaitingIsTold FrontIsReal
INVARIANTS BlameIsEarned NobodyIsFramed CoreHolderIsReal
INVARIANTS StuckIsReal EveryVictimIsNamed ChainIsReal
CHECK_DEADLOCK FALSE
