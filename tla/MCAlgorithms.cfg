SPECIFICATION AlgorithmsSpec
CONSTANTS
    Deadlines = {1, 2, 3, 4}
    MaxLen = 7
    Node = {a, b, c}
    Root = a
    DayMinutes = 4
    WeekDays = 2
    Durations = {1, 3}
    MaxTime = 12
    NoSession = NoSession
    Faults = {"inspect"}
INVARIANTS
    HeapOrdered
    ResolvesReachable
    FindsCycles
    WindowIsRight
    LastsToWindowEnd
    HeldWarm
PROPERTIES
    HeapKeepsElements
