\* One request of each kind that is shown to the user, one disturbance.
CONSTANTS
    Tx = {t}
    Sign = {}
    Typed = {y}
    Connect = {c}
    Query = {}
    Beat = beat
    Nobody = nobody
    FifoBytes = 4
    MaxFaults = 1
    ReadySkips = 3
    MaxOrphans = 3
    MaxWaiting = 3
    Unplugging = TRUE
SPECIFICATION Spec
INVARIANTS
    TypeOK
    NoOrphanStealsAnswer
    AnswersAreOwn
    HeartbeatSparesResult
PROPERTIES
    ImplementsSigningService
CHECK_DEADLOCK FALSE
