SPECIFICATION Spec
CONSTANTS
  Cpus = {1}
  KernelEvery = 1
  SchedEvery = 9
  StallMin = 2
  SchedMin = 3
  MaxLate = 2
  MaxDelay = 1
  Gap = 0
  Slack = 0
  CaughtUp = 0
  RipeAge = 0
  GiveUp = 1
  TwinWait = 1
  FreezeMin = 2
  RefLen = 3
  RefClear = 0
  RefMin = 1
  MarkBefore = 1
  MarkAfter = 0
  MarkRipe = 0
  MarkGiveUp = 1
  MarkMin = 1
  MinorKeep = 6
  TickGap = 1
  StopWait = 2
  MaxNow = 7
  MaxStalls = 2
  MaxMarks = 2
PROPERTIES MarksKeptInLine CleanMeansNoBlip
CHECK_DEADLOCK FALSE
