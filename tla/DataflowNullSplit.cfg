SPECIFICATION Spec
CONSTANT
    Methods <- NullSplit
INVARIANT
    RenamingSound
CHECK_DEADLOCK FALSE
