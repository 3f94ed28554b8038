SPECIFICATION StopSpec
CONSTANTS
  Cpus = {1}
  KernelEvery = 0
  SchedEvery = 1
  StallMin = 1
  SchedMin = 1
  MaxLate = 1
  MaxDelay = 1
  Gap = 0
  Slack = 0
  CaughtUp = 0
  RipeAge = 0
  GiveUp = 3
  TwinWait = 2
  FreezeMin = 2
  RefLen = 3
  RefClear = 0
  RefMin = 1
  MarkBefore = 2
  MarkAfter = 0
  MarkRipe = 1
  MarkGiveUp = 2
  MarkMin = 1
  MinorKeep = 9
  TickGap = 2
  StopWait = 2
  MaxNow = 2
  MaxStalls = 1
  MaxMarks = 1
PROPERTIES StopReportsAll PromiseKept
CHECK_DEADLOCK FALSE
