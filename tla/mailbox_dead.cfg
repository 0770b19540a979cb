\* One thread that posts over the hardware channel, to hardware that may stop to
\* answer.
SPECIFICATION FairSpec
CONSTANTS
    Caller = {c1, lsn}
    Listener = lsn
    Peer = peer
    NoMsg = NoMsg
    Sws = {FALSE}
    MaxCalls = 1
    PeerAsks = 0
    TxLen = 2
    RxLen = 2
    Again = 1
    Bigs = {FALSE}
    SameBuffer = TRUE
    GivesUp = FALSE
    MaxQueue = 1
PROPERTY
    SendTimesOut
\* The leaf is stopped and a caller has made its calls: the end of a behaviour.
CHECK_DEADLOCK FALSE
