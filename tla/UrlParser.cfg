SPECIFICATION Spec
CONSTANTS
  Chars = {"a", "1", ":", "/", "?", "#", "@", "[", "]"}
  MaxLen = 9
  MaxField <- Bounds
  MaxPort = 11
INVARIANTS
  FieldsTile
  PortIsField
CHECK_DEADLOCK FALSE
