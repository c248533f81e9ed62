\* The bridge is unplugged once.
CONSTANTS
    Tx = {t}
    Sign = {}
    Typed = {}
    Connect = {}
    Query = {}
    Beat = beat
    Nobody = nobody
    FifoBytes = 4
    MaxFaults = 0
    ReadySkips = 3
    MaxOrphans = 3
    MaxWaiting = 3
    Unplugging = TRUE
SPECIFICATION FairSpec
PROPERTIES
    LinkRecovers
CHECK_DEADLOCK FALSE
