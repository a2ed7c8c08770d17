\* Two workers, restores that fail, clients that close their connections in the end.
CONSTANTS
  AddKey = {a1, a2}
  SetRankingLength = {l1}
  StopMessage = {}
  OtherMessage = {}
  NoMessage = NoMessage
  Worker = {w1, w2}
  Faults = TRUE
SPECIFICATION ClosingSpec
CHECK_DEADLOCK FALSE
INVARIANTS
  TypeOK
PROPERTIES
  ShutdownCompletes
  TwoKeysWakeTheConnection
  NoBackupOnceStopped
