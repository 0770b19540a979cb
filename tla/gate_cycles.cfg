\* Two downloads beside the creation of another gate.
SPECIFICATION FairSpec
CONSTANTS
    Event = {e1, e2, e3, e4, e5, e6}
    NoEvent = NoEvent
    Cycles = 2
    Gates = 1
PROPERTIES
    OpenMeansGranted
    CloseEnds
CHECK_DEADLOCK FALSE
