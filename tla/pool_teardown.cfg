\* The pool of leaves of a group: teardown beside creation and clients.
SPECIFICATION Spec
CONSTANTS
    c1 = c1
    c2 = c2
    root = root
    leaf = leaf
    Thread = {adder, remover, c1, c2}
    Subdev = {d1, d2}
    Holder = {root, leaf}
    HolderOf <- MCTwoHolders
    Adders = {adder}
    Deleters = {remover}
    Finishers = {remover}
    Clients = {c1, c2}
    Killable = TRUE
    MaxDone = 1
    NoThread = NoThread
    NoSubdev = NoSubdev
INVARIANTS
    FiniLeavesNothing
PROPERTIES
    ClosingPoolOnlyShrinks
CHECK_DEADLOCK FALSE
