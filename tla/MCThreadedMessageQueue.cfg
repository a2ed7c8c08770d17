\* Four messages, one of each command, and a second key.
CONSTANTS
  AddKey = {a1, a2}
  SetRankingLength = {l1}
  StopMessage = {s1}
  OtherMessage = {o1}
  NoMessage = NoMessage
SPECIFICATION QueueSpec
CHECK_DEADLOCK FALSE
INVARIANTS
  QueueTypeOK
  NothingLostOrSwapped
  EveryMessageDeletedOnce
  QuietAfterStop
PROPERTIES
  HandledUnlessStopped
  StopReturns
  MailboxSpec
