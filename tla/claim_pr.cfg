SPECIFICATION Spec
CONSTANTS
  Packages = {p}
  Checksums = {a, b}
  ImportValues = {}
  ReadOnlyModes = {FALSE}
  MaxValue = 4
  MaxStarts = 3
  MaxCrashes = 1
INVARIANTS
  ReturnedNeverDecremented
CHECK_DEADLOCK FALSE
