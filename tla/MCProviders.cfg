SPECIFICATION Spec
CONSTANTS
    Caller = {c1, c2}
    MaxWire = 2
    MaxEdits = 2
    Configs <- MCConfigs
INVARIANTS
    SettledAsAsked
    StoppedEventIsReal
    OperatorNotLeftPaused
    CacheIsFresh
PROPERTIES
    EveryStopIsSeen
    StatusSettles
    KeepsStreamContract
