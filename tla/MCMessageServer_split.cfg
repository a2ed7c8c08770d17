\* Payloads of three components, against messageserver.cpp:55.
CONSTANTS
  Word = {w1, w2}
  Number = {80}
  Comma = Comma
  MaxPayload = 5
  MaxRequests = 1
  Sizes = {12}
  ReportSize = 10
  MaxReportSize = 20
SPECIFICATION Spec
CHECK_DEADLOCK FALSE
PROPERTIES
  SplitInThree
