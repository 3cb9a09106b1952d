SPECIFICATION WordSpec
CONSTANTS
    p1 = p1
    p2 = p2
    NoPid = NoPid
    Deleted = Deleted
    Pids <- TwoPids
    NumSlots = 2
    Window = 1
    MaxCommands = 1
INVARIANT JobsAreChildren
CHECK_DEADLOCK FALSE
