SPECIFICATION Spec
CONSTANTS
  Connections <- UpgradeConnections
  MaxU = 255
  MaxHeader = 50
  DocumentedTest = TRUE
  Outcomes = {"ok"}
INVARIANTS
  UpgradeHasExited
CHECK_DEADLOCK FALSE
