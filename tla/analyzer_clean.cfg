SPECIFICATION Spec
CONSTANTS
  Cpus = {1}
  KernelEvery = 0
  SchedEvery = 1
  StallMin = 1
  SchedMin = 1
  MaxLate = 4
  MaxDelay = 1
  Gap = 0
  Slack = 1
  CaughtUp = 0
  RipeAge = 0
  GiveUp = 3
  TwinWait = 2
  FreezeMin = 2
  RefLen = 3
  RefClear = 0
  RefMin = 1
  MarkBefore = 1
  MarkAfter = 0
  MarkRipe = 1
  MarkGiveUp = 3
  MarkMin = 1
  MinorKeep = 9
  TickGap = 2
  StopWait = 2
  MaxNow = 8
  MaxStalls = 1
  MaxMarks = 1
PROPERTY CleanMeansNoStall
CHECK_DEADLOCK FALSE
