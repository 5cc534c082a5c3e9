SPECIFICATION Spec
CONSTANTS
  Tasks <- DiamondTasks
  Depends <- DiamondDepends
  Setscene <- DiamondSetscene
  Leader <- DiamondLeader
  HardDeps <- DiamondHard
  Targets <- ImageTarget
  NumberTasks = 2
  Halts = {TRUE, FALSE}
  Forbidden = {"d"}
  Limited = {"p", "q"}
  LimitedTo = 1
  MaxDebt = 2
INVARIANTS
  InputsPresent
  AfterDependencies
  DecidedOnce
CHECK_DEADLOCK FALSE
