SPECIFICATION BaselineSpec
CONSTANTS
  PCs = {"pc1", "pc2"}
  Machine <- MCMachine
  Problems = {"p", "q", "l"}
  Program <- MCProgram
  AtFirst <- MCAtFirst
  Logged = {"l"}
  Watches = {{"p", "q", "l"}, {"l", "q"}}
  Lengths = {2, 3, 4}
  Saves = {"whole", "not at all", "cut"}
  MaxRate = 3
  WorthTelling = 2
  LookBack = 1
  MaxAge = 1
  NoiseShare = 20
  SameLength = 25
  MaxRuns = 2
  MaxChanges = 1
  MaxDays = 3
INVARIANT FixIsShown
CHECK_DEADLOCK FALSE
