\* A transaction and a query, two disturbances.
CONSTANTS
    Tx = {t}
    Sign = {}
    Typed = {}
    Connect = {}
    Query = {q}
    Beat = beat
    Nobody = nobody
    FifoBytes = 4
    MaxFaults = 2
    ReadySkips = 3
    MaxOrphans = 3
    MaxWaiting = 3
    Unplugging = FALSE
SPECIFICATION FairSpec
PROPERTIES
    EveryRequestSettles
    LinkRecovers
CHECK_DEADLOCK FALSE
