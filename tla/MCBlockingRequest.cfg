SPECIFICATION Spec
CONSTANTS
    Instance = {i, j}
    FirstRecheck = 2
    Frequencies <- MCFrequencies
    Unasked = Unasked
    Faults = {"request", "hold", "start", "expire"}
INVARIANTS
    OptionalNeverGates
    TimeoutExplained
    NoBusyLoop
PROPERTIES
    PollerEnds
    ReadyIsNoticed
