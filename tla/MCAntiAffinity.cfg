SPECIFICATION Spec
CONSTANTS
    a = a
    d = d
    g = g
    Instance = {a, d}
    Group = {g}
    Members <- OneGroup
    Labels <- YieldsToG
    Tracked = {d}
    Environments <- BusyOrRough
    MaxNotices = 1
    Request = {r1}
    Restorer = Restorer
    NoInstance = NoInstance
INVARIANTS
    RestoresOnlySuppressed
PROPERTIES
    ReconcileReturns
    MarkIsCleared
