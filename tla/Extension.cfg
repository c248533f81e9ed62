\* Two handlers overlap; one chain the extension lists and one it does not.
CONSTANTS
    Jobs = {j1, j2}
    Origins = {o1, o2}
    Wallets = {w1}
    Chains = {1, 2}
    Listed = {1, 3}
    Mainnet = 3
    None = None
SPECIFICATION Spec
SYMMETRY Symmetry
INVARIANTS
    TypeOK
    OnlyApprovedAuthorized
    StoreHoldsReports
    AnswersToApproved
    OneActiveRequest
    LockIsReleased
