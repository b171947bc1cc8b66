CONSTANTS
  PoolSize = 2
  Callers <- Testers
  Scripts <- TestScripts
  Endpoints = 1
  MayThrow = FALSE
  MaxAccepts = 1
SPECIFICATION Spec
INVARIANT GetOnce
CHECK_DEADLOCK FALSE
