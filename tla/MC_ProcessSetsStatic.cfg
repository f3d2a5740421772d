CONSTANTS
  WorldSize = 3
  BaseLists <- MCBaseLists

SPECIFICATION Spec

INVARIANTS
  TypeOK
  ArraysCarrySets

\* init() returns once on every process; then the job's processes go on
\* to other work that is not modelled here.
CHECK_DEADLOCK FALSE
