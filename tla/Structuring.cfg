SPECIFICATION Spec
CONSTANTS
    Snapshots <- MCSnapshots
INVARIANTS
    DominatorsExact
    PassesConverge
    EmittersAgree
    NothingLost
    WrittenMeansGraph
PROPERTY
    FlowPreserved
CHECK_DEADLOCK FALSE
