SPECIFICATION FairSpec
CONSTANTS
  Tasks <- TwinTasks
  Depends <- TwinDepends
  Setscene <- TwinSetscene
  Leader <- TwinLeader
  HardDeps <- TwinHard
  Targets <- ImageTarget
  NumberTasks = 2
  Halts = {TRUE, FALSE}
  Forbidden = {}
  Limited = {}
  LimitedTo = 1
  MaxDebt = 0
INVARIANTS
  TypeOK
  
  KeepsGoing
  WaitsForProcesses
PROPERTY
  Terminates
CHECK_DEADLOCK FALSE
