SPECIFICATION Spec
CONSTANTS
    Inputs <- MCAll
    Declares <- MCDeclares
    MaxDexes = 6
CHECK_DEADLOCK FALSE
INVARIANTS
    SessionExact
    SalvageSound
    ArtViewExact
