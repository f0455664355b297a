SPECIFICATION PollingSpec
CONSTANTS
    NoStart = NoStart
    NoSession = NoSession
    Instance = {i1}
    Request = {r1, r2}
    Start = {s1, s2}
    External = {}
    Faults = {"start"}
    RejectUnlabeled = FALSE
    MaxStops = 1
    MaxEvents = 1
PROPERTIES
    FailedStartIsRetried
