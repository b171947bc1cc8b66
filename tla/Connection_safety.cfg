\* Writes may be partial; the buffer holds one chunk and part of another.
CONSTANTS
  ReadTimeout = 2
  HandshakeTimeout = 1
  BufSize = 3
  MaxChunk = 2
  MaxBytes = 4
  PartialWrites = TRUE
SPECIFICATION Spec
INVARIANTS
  TypeOK
  WriteSerial
  NoReentry
  StashValid
  NoLostWrite
  NoLinger
  TimerArmed
  ReadPosted
  WireInOrder
PROPERTIES
  BufferStable
  DrainedStop
  NoEarlyTimeout
CHECK_DEADLOCK FALSE
