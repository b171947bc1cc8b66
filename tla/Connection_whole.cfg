\* Every write transmits the whole buffer.
CONSTANTS
  ReadTimeout = 1
  HandshakeTimeout = 1
  BufSize = 2
  MaxChunk = 2
  MaxBytes = 3
  PartialWrites = FALSE
SPECIFICATION FairSpec
PROPERTIES
  SilentPeerDropped
  StopReleases
  EverythingSent
  ImplementsStream
CHECK_DEADLOCK FALSE
