SPECIFICATION Spec
CONSTANT Heads <- Misspelled
INVARIANT MethodSpelled
CHECK_DEADLOCK FALSE
