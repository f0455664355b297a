SPECIFICATION Spec
CONSTANTS
    NoEntry = NoEntry
    Key = {k1, k2}
    Durations = {0, 2}
    MaxTime = 3
    MaxPuts = 3
INVARIANTS
    StoredEntryHasTimeout
    OnlyOverdueNotified
PROPERTIES
    NotifiedByItsRemoval
    KeepsPromise
CHECK_DEADLOCK FALSE
