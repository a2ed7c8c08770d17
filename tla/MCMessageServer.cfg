\* Every payload of up to five tokens, twice.
CONSTANTS
  Word = {w1}
  Number = {80}
  Comma = Comma
  MaxPayload = 5
  MaxRequests = 2
  Sizes = {12, 0, 65536, 65566}
  ReportSize = 10
  MaxReportSize = 20
SPECIFICATION Spec
CHECK_DEADLOCK FALSE
INVARIANTS
  TypeOK
  LinesReadBack
  SizeInForce
