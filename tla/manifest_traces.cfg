SPECIFICATION ManifestTracesSpec
CONSTANTS
  Irps = {1}
  Sizes = {1}
  Pointers = {"irp", "none"}
  Started = 1
  ReqCaps = {1, 2}
  Keep = 4
  PruneEvery = 1
  FlushWait = 1
  Slop = 2
  Near = 0
  Byte = 1
  ResetCap = 2
  Disorder = 1
  MaxNow = 6
  MaxReqs = 2
  MaxPieces = 2
  MaxRetries = 2
  Pids = {1}
  GpuTids = {1}
  GpuKeep = 5
  GpuPruneEvery = 1
  HalfMs = 2
  MaxResident = 3
  GapMin = 2
  GapFactor = 2
  GpuDisorder = 1
  GpuStep = 2
  MaxGpuTs = 9
  GpuEvents = 5
  MaxOps = 3
  ResidencyTs = 6
  GpuCap <- MCGpuCap
INVARIANTS OwnPiecesSeen InsideIsOwnTime RetriesConserved
INVARIANTS DisplayStopIsReal ResidencyIsItsOwn
CHECK_DEADLOCK FALSE
