SPECIFICATION Spec
CONSTANTS
  Procs = {1, 2}
  Guis = {1}
  Attempts = 2
  MaxRuns = 3
  MaxKills = 1
  MaxPanics = 1
  MaxCuts = 1
INVARIANTS OneRunAtATime NothingOutlivesRun LeftoversAreTakenOver
PROPERTY StopEndsRun
CHECK_DEADLOCK FALSE
