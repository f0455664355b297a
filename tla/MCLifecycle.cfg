SPECIFICATION Spec
CONSTANTS
    MaxEvents = 1
    MaxStops = 1
PROPERTY
    NoOrphan
