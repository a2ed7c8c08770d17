\* A query after a restore that failed, against README.md:96.
CONSTANTS
  AddKey = {a1}
  SetRankingLength = {}
  StopMessage = {}
  OtherMessage = {}
  NoMessage = NoMessage
  Worker = {w1}
  Faults = TRUE
SPECIFICATION Spec
CHECK_DEADLOCK FALSE
PROPERTIES
  QueryAnswered
