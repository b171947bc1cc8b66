SPECIFICATION Spec
CONSTANTS
  Connections <- LongConnections
  MaxU = 255
  MaxHeader = 50
  DocumentedTest = FALSE
  Outcomes = {"ok", "pause"}
INVARIANTS
  HeaderBounded
CHECK_DEADLOCK FALSE
