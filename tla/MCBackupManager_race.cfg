\* What a restore brings back, against README.md:103.
CONSTANTS
  Generations = 1
  Files = 6
  MaxChanges = 2
  MaxPasses = 2
  MaxEnds = 0
SPECIFICATION Spec
CHECK_DEADLOCK FALSE
PROPERTIES
  RestoredWhole
