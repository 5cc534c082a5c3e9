SPECIFICATION Spec
CONSTANTS
  Packages = {p}
  Checksums = {a, b}
  ImportValues = {1}
  ReadOnlyModes = {TRUE, FALSE}
  MaxValue = 3
  MaxStarts = 3
  MaxCrashes = 1
SYMMETRY Interchangeable
INVARIANTS
  NeverDecremented
  OneBuildPerRevision
  ExportKeepsRevisions
PROPERTIES
  ImplementsContract
CHECK_DEADLOCK FALSE
