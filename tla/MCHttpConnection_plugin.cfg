\* A client whose Content-Length is not the last line, against README.md:97.
CONSTANTS
  Client = {"plugin"}
  Scripts <- OtherScripts
  ReadSize = 8
  MaxBuffer = 10
SPECIFICATION Spec
CHECK_DEADLOCK FALSE
INVARIANTS
  PostedTextIsReported
