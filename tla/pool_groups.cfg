\* The pool of groups: two threads of the root driver create, get and put, one removes.
SPECIFICATION FairSpec
CONSTANTS
    c1 = c1
    c2 = c2
    root = root
    leaf = leaf
    Thread = {remover, c1, c2}
    Subdev = {d1, d2}
    Holder = {root, leaf}
    HolderOf <- MCSameHolder
    Adders = {c1}
    Deleters = {remover}
    Finishers = {}
    Clients = {c1, c2}
    Killable = FALSE
    MaxDone = 1
    NoThread = NoThread
    NoSubdev = NoSubdev
INVARIANTS
    HeldStaysListed
    KrefExact
    NoLostWakeup
PROPERTIES
    ImplementsContract
    DelTerminates
