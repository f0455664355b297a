SPECIFICATION Spec
CONSTANTS
    a = a
    b = b
    c = c
    d = d
    m = m
    Instance = {a, b, c, d, m}
    Managed = {a, b}
    OneShot = {m}
    Graphs <- AllGraphs
    Condition <- Conditions
    Faults <- SomeFaults
INVARIANTS
    OneDependencyStart
    HandledOnce
    NoStragglers
    StartedInOrder
PROPERTIES
    StartsEnd
    StartsSucceed
