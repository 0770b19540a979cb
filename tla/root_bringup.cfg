\* Bringup at probe: nested creations, failing ones and failing leaves.
SPECIFICATION FairSpec
CONSTANTS
    MaxGroups = 3
    Spawners = {0, 1}
    Failing = {"leaf"}
    LeavesFail = {0, 1, 2}
    NoMemory = {}
    Downloads = 0
    GiveUps = FALSE
    Unbind = FALSE
    EarlyIoctl = FALSE
    BusyUnbind = FALSE
    NoGroup = NoGroup
INVARIANTS
    PendingExact
PROPERTIES
    WaitMeansUp
    WaitEnds
CHECK_DEADLOCK FALSE
