CONSTANTS
  PoolSize = 2
  Callers <- Owners
  Scripts <- OwnerScripts
  Endpoints = 2
  MayThrow = TRUE
  MaxAccepts = 3
SPECIFICATION Spec
INVARIANTS
  TypeOK
  OneThreadPerService
  Balanced
  GetOnce
  KeepsAccepting
  JoinIsFinal
PROPERTIES
  NoSpin
  CallsReturn
CHECK_DEADLOCK FALSE
