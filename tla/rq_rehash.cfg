SPECIFICATION MSpec
CONSTANTS
  Tasks <- LibTasks
  Depends <- LibDepends
  Setscene <- LibSetscene
  Leader <- LibLeader
  HardDeps <- LibHard
  Targets <- LibTarget
  NumberTasks = 2
  Halts = {TRUE, FALSE}
  Forbidden = {}
  Limited = {}
  LimitedTo = 1
  MaxDebt = 1
  Reporting = {"x", "a"}
INVARIANTS
  SlotBound
  SceneExcludesReal
  InputsPresent
  HonestEnd
PROPERTIES
  RehashedInTime
CHECK_DEADLOCK FALSE
