SPECIFICATION Spec
CONSTANT Heads <- AllHeads
INVARIANTS
  LineRead
  
  IndexInBounds
CHECK_DEADLOCK FALSE
