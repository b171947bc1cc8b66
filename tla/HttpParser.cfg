SPECIFICATION Spec
CONSTANTS
  Connections <- AllConnections
  MaxU = 255
  MaxHeader = 50
  DocumentedTest = FALSE
  Outcomes = {"ok", "pause", "fail"}
INVARIANTS
  Transparent
  NothingLost
  AssertsHold
PROPERTIES
  Ends
  ImplementsDecoder
CHECK_DEADLOCK FALSE
