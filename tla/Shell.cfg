SPECIFICATION Spec
CONSTANTS
    p1 = p1
    p2 = p2
    NoPid = NoPid
    Deleted = Deleted
    Pids <- TwoPids
    NumSlots = 2
    Window = 1
    MaxCommands = 4
INVARIANTS
    TypeOK
    JobsAreChildren
    JobsListed
    ForegroundReaped
    ListedIsRecallable
PROPERTIES
    FailuresMarked
    PromptReturns
CHECK_DEADLOCK FALSE
