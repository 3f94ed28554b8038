SPECIFICATION KernelTraceSpec
CONSTANTS
  Tids = {t1, t2}
  LongKinds = {"io"}
  SwitchCap = 2
  ReadyCap = 2
  SwitchKeep = 2
  LongKeep = 3
  PruneEvery = 1
  Disorder = 1
  Slop = 1
  LookBefore = 0
  LookAfter = 1
  MaxTs = 5
  MaxEvents = 5
  Keys = {k1, k2, k3, k4}
  Files = {"a", "b"}
  Pids = {1}
  Durations = {1, 2}
  NameCap = 3
  WaitCap = 2
  PidCap = 1
  MaxSteps = 3
  StackTids = {t1, t2}
  Cpus = {1}
  Irps = {1}
  Sets = {{"DiskInit"}, {"CSwitch", "Ready"}, {"CSwitch", "Fault"}}
  Slots = 2
  InitCap = 1
  RingCap = 1
  KeepWait = 1
  IoWarn = 2
  FaultLate = 1
  Slack = 0
  RunKeep = 5
  InKeep = 2
  StackPruneEvery = 0
  MaxWalks = 1
  MaxStackTs = 5
INVARIANTS CoverIsHonest WindowIsComplete StuckRecordsComplete DropsAreAccounted
INVARIANTS NamedWaitingIsItsOwn WaitersAreNamed
INVARIANTS IssuingStackIsItsOwn WaitStackIsItsOwn SwitchInsCoverHonestly
SYMMETRY Names
CHECK_DEADLOCK FALSE
