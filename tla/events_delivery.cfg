\* Two events beside children that join and leave.
SPECIFICATION FairSpec
CONSTANTS
    Event = {e1, e2}
    NoEvent = NoEvent
    MaxSubdevs = 3
    Leaving = {0, 1, 2}
    NoSubdev = NoSubdev
INVARIANTS
    EveryoneTold
PROPERTIES
    EventsHandled
CHECK_DEADLOCK FALSE
