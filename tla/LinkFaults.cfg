\* Two transactions, two disturbances.
CONSTANTS
    Tx = {t, u}
    Sign = {}
    Typed = {}
    Connect = {}
    Query = {}
    Beat = beat
    Nobody = nobody
    FifoBytes = 4
    MaxFaults = 2
    ReadySkips = 3
    MaxOrphans = 3
    MaxWaiting = 3
    Unplugging = TRUE
SPECIFICATION Spec
INVARIANTS
    NoOrphanStealsAnswer
    AnswersAreOwn
    HeartbeatSparesResult
PROPERTIES
    ImplementsSigningService
CHECK_DEADLOCK FALSE
