\* The hardware channel between a client and a listener here, and a peer that
\* asks twice, answers with what may be too big and may time out.
SPECIFICATION Spec
CONSTANTS
    Caller = {c1, lsn}
    Listener = lsn
    Peer = peer
    NoMsg = NoMsg
    Sws = {FALSE}
    MaxCalls = 1
    PeerAsks = 2
    TxLen = 2
    RxLen = 2
    Again = 1
    Bigs = {FALSE, TRUE}
    SameBuffer = TRUE
    GivesUp = TRUE
    MaxQueue = 1
INVARIANTS
    NoLostCompletion
    NoRequestStranded
\* The leaf is stopped and a caller has made its calls: the end of a behaviour.
CHECK_DEADLOCK FALSE
