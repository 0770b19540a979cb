\* Each part with enough calls for two of them to meet, and one fault.
SPECIFICATION FairSpec
CONSTANTS
    Slave = {0, 1}
    Page = 2
    Large = 2
    Huge = 4
    Sector = 4
    Size = 8
    MaxFaults = 1
    FlashCalls = 2
    Writer = {w1, w2}
    Mishaps = {"error", "late", "killed"}
    NoPacket = NoPacket
    CmcCalls = 2
    Freq = {0, 10, 20, 24, 25, 40, 100, 101, 335, 375, 400, 404, 645, 650, 700}
    NoThread = NoThread
    Fractions = FALSE
    ClocksCalls = 3
    BufSz = 32
    MaxSize = 200
    Two32 = 256
    Two64 = 1024
    Depth = 5
    IdWords = 3
    Word = 4
    IcapCalls = 2
    Drv = {"axigate", "cmc", "clock"}
    Mapped = {"gate", "cmc_reg", "cmc_reset", "clk_a", "clk_b"}
    Broken = {"deep"}
    MaxNodes = 1
    MaxRounds = 1
INVARIANTS
    LeavesExact
    BitstreamTrue
PROPERTIES
    FlashTrue
    FirmwareSound
    HoldEnds
    VerdictTrue
    CreateEnds
CHECK_DEADLOCK FALSE
