CONSTANTS
  WorldSize = 3
  Self = 1
  h1 = h1
  h2 = h2
  Handles = {h1, h2}
  HandleGroup <- MCHandleGroup
  Controllers = {"MPI", "Gloo"}
  TimelineDynamic = TRUE
  MaxId = 4
  None = None
  Dynamic = Dynamic
  CommArgs <- MCCommArgs
  ProcessSetsArgs <- MCProcessSetsArgs
  AddArgs <- MCAddArgs
  Built <- MCBuilt
  MaxInits = 3

SPECIFICATION Spec

PROPERTIES InitRefusedWhenInitialized

\* An exited interpreter takes no further steps.
CHECK_DEADLOCK FALSE
