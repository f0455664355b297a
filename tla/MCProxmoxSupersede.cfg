SPECIFICATION Spec
CONSTANTS
    Caller = {c1, c2}
    MaxWire = 2
    MaxEdits = 2
    Configs <- PlainLxc
INVARIANTS
    StopKept
