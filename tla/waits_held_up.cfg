SPECIFICATION WaitsSpec
CONSTANTS
  SchedThreads = {1, 2}
  Probe = 1
  Procs = {1}
  Pin = 1
  IdleTid = 0
  Reasons = {"lock", "timer"}
  Interval = 1
  OneMs = 1
  SlackShare = 20
  MinStall = 2
  Jumps = {1}
  MaxRecords = 7
  MaxTick = 7
  Owners <- MCOwners
  Newcomers = {2}
  OwnTool = 0
  NoProgram = 9
  HeldUp = {"lock"}
  FeltReady = 2
  FeltBlocked = 1
  MaxBlocked = 9
  MaxLines = 1
  Reaches = {9}
  Fronts = {1, 9}
  MaxMoments = 1
INVARIANT HeldUpIsTold
CHECK_DEADLOCK FALSE
