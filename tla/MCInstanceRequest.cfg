SPECIFICATION Spec
CONSTANTS
    NoStart = NoStart
    NoSession = NoSession
    Instance = {i1}
    Request = {r1, r2}
    Start = {s1, s2}
    External = {"start", "stop"}
    Faults = {"get", "start", "lateStart", "inspect", "put", "stop"}
    RejectUnlabeled = TRUE
    MaxStops = 1
    MaxEvents = 1
INVARIANTS
    OneStartInFlight
PROPERTIES
    KeepsSingleFlight
    RequestsReturn
    FailureIsReported
