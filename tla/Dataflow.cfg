SPECIFICATION Spec
CONSTANT
    Methods <- MCMethods
INVARIANTS
    ChainsExact
    RenamingSound
    PropagationSound
    DeclaredBeforeUse
CHECK_DEADLOCK FALSE
