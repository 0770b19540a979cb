\* Downloads: two downloads by a process and by the peer beside the shell's bringup, twice,
\* and an unbinding.  Service: two requests of any kind
\* beside the sysfs nodes, a hot reset, a download and an unbinding.
SPECIFICATION MCSpec
CONSTANTS
    A = A
    B = B
    C = C
    shell = shell
    junk = junk
    plp = plp
    ulp1 = ulp1
    Uuid = {A, B, C}
    NoUuid = NoUuid
    Image = {shell, junk, plp, ulp1}
    NoImage = NoImage
    Uuids <- MCUuids
    Shells = {shell, junk}
    Valid = {shell}
    Packages = {plp, ulp1}
    MaxDownloads = 2
    MaxRegions = 6
    Kinds = {"test", "data", "icap", "probe", "load", "reset"}
    MaxRequests = 2
    MaxTests = 1
    MaxCalls = 1
    Unbind = TRUE
INVARIANTS
    RegionsConsistent
    ServiceSafe
PROPERTIES
    NothingBehindGate
    DownloadsEnd
    RequestsServed
CHECK_DEADLOCK FALSE
