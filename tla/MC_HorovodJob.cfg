CONSTANTS
  WorldSize = 3
  MaxId = 4
  None = None
  Dynamic = Dynamic
  JobComms <- MCJobComms
  JobSetsArgs <- MCJobSetsArgs
  Script <- MCScript
SPECIFICATION Spec
INVARIANTS TypeOK
\* Every process has made its calls and shut down: the job is over.
CHECK_DEADLOCK FALSE
