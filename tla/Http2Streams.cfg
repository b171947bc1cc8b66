CONSTANTS
  StreamIds = {1, 3, 5}
  MaxStreams = 2
  MaxData = 1
SPECIFICATION Spec
INVARIANTS
  TypeOK
  MapIsOpenStreams
  NoLeak
  CallsInOrder
  EndReported
PROPERTY NotSentCloses
CHECK_DEADLOCK FALSE
