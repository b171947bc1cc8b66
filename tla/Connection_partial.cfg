\* async_write_some may transmit less than it was given.
CONSTANTS
  ReadTimeout = 1
  HandshakeTimeout = 1
  BufSize = 2
  MaxChunk = 2
  MaxBytes = 3
  PartialWrites = TRUE
SPECIFICATION Spec
INVARIANT WireGapFree
CHECK_DEADLOCK FALSE
