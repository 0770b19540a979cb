\* Two processes and the driver: use, and the end of it.
SPECIFICATION FairSpec
CONSTANTS
    File = {f1, f2, f3}
    MaxDone = 2
INVARIANTS
    RefExact
    ExclusiveAlone
    NoLostClose
    NodeOutlivesUsers
PROPERTIES
    ImplementsAccess
    DestroyEnds
CHECK_DEADLOCK FALSE
