\* The repository's own client programs, three connections.
CONSTANTS
  Client = {"main", "thread", "command"}
  Scripts <- MCScripts
  ReadSize = 8
  MaxBuffer = 10
SPECIFICATION Spec
CHECK_DEADLOCK FALSE
INVARIANTS
  TypeOK
  PayloadIsBody
  HandedOnce
  ReplyIsOwn
PROPERTIES
  ClientsFinish
