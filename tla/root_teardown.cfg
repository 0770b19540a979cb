\* Downloads after probe, and an unbinding whenever it likes.
SPECIFICATION FairSpec
CONSTANTS
    MaxGroups = 4
    Spawners = {0}
    Failing = {"leaf", "ioctl"}
    LeavesFail = {}
    NoMemory = {1}
    Downloads = 2
    GiveUps = TRUE
    Unbind = TRUE
    EarlyIoctl = FALSE
    BusyUnbind = TRUE
    NoGroup = NoGroup
INVARIANTS
    UsedIsListed
    RemoveLeavesNothing
PROPERTIES
    DependentsFirst
    RemoveEnds
CHECK_DEADLOCK FALSE
