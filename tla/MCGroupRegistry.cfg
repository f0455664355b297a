SPECIFICATION Spec
CONSTANTS
    Instance = {i, j}
    Group = {g, h}
    Changing = {j}
    MaxNotices = 2
    Faults = {"notice", "list", "skip"}
INVARIANTS
    GroupsAreFit
PROPERTIES
    MembersAreKept
    Converges
