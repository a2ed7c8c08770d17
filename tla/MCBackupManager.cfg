\* Passes, restores and submissions interleaved, and the process ends at any
\* point, twice.
CONSTANTS
  Generations = 2
  Files = 12
  MaxChanges = 2
  MaxPasses = 4
  MaxEnds = 2
SPECIFICATION Spec
CHECK_DEADLOCK FALSE
INVARIANTS
  TypeOK
  NewestInOrder
  NewestSurvives
PROPERTIES
  UndisturbedRestoreIsWhole
  RestoresCompletedDumps
