CONSTANTS
  WorldSize = 3
  Self = 1
  Handles = {}
  HandleGroup <- MCHandleGroup
  Controllers = {"MPI"}
  TimelineDynamic = FALSE
  MaxId = 4
  AddArgs <- MCAddArgs

SPECIFICATION Spec

INVARIANTS
  ReadIsSnapshot

\* A process crashed by the overflow of line 408 takes no further step.
CHECK_DEADLOCK FALSE
