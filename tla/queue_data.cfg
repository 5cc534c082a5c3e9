SPECIFICATION Spec
CONSTANTS
  Tasks <- MCTasks
  Metadata <- MCMetadata
  Recipe <- MCRecipe
  Name <- MCName
  Requests <- MCRequests
  Restorable <- MCRestorable
INVARIANTS
  QueueIsSound
  RecursionIsLeast
  CollapsedByPaths
PROPERTIES
  Ends
CHECK_DEADLOCK FALSE
