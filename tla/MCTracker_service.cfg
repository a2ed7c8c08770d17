\* A connection when main returns, against tracker.cpp:80.
CONSTANTS
  AddKey = {a1}
  SetRankingLength = {}
  StopMessage = {}
  OtherMessage = {}
  NoMessage = NoMessage
  Worker = {w1, w2}
  Faults = FALSE
SPECIFICATION Spec
CHECK_DEADLOCK FALSE
INVARIANTS
  NoServiceAfterReturn
