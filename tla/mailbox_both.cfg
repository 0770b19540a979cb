\* A client that uses both channels, answers of three packets that fit, hardware
\* that may not answer for a while, and a peer and a daemon that may stop at any
\* time, the peer in the middle of an answer too.
SPECIFICATION FairSpec
CONSTANTS
    Caller = {c1, lsn}
    Listener = lsn
    Peer = peer
    NoMsg = NoMsg
    Sws = {FALSE, TRUE}
    MaxCalls = 2
    PeerAsks = 0
    TxLen = 1
    RxLen = 3
    Again = 0
    Bigs = {FALSE}
    SameBuffer = TRUE
    GivesUp = TRUE
    MaxQueue = 1
PROPERTIES
    WholeMessages
    CallsEnd
\* The leaf is stopped and a caller has made its calls: the end of a behaviour.
CHECK_DEADLOCK FALSE
