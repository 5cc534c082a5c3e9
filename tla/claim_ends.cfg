SPECIFICATION FairSpec
CONSTANTS
  Tasks <- SdkTasks
  Depends <- SdkDepends
  Setscene <- SdkSetscene
  Leader <- SdkLeader
  HardDeps <- SdkHard
  Targets <- ImageTarget
  NumberTasks = 2
  Halts = {FALSE}
  Forbidden = {"f"}
  Limited = {}
  LimitedTo = 1
  MaxDebt = 1
PROPERTY Terminates
CHECK_DEADLOCK FALSE
