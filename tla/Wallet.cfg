\* Two wallets, two PINs, two listed chains; salts enough that a fresh one always
\* exists beside those a torn write can leave behind.
CONSTANTS
    Seeds = {s1, s2}
    Pins = {p1, p2}
    Salts = {n1, n2, n3}
    NChains = 2
    Blank = Blank
    Torn = Torn
    NoSeed = NoSeed
    NoPin = NoPin
SPECIFICATION Spec
SYMMETRY Symmetry
INVARIANTS
    TypeOK
    SecretsOnlyWhileKeyed
    ReadyKeyIsShownKey
    OnlyWholeSessionAccepted
    KeptKeyIsRecoverable
    LockIsPersisted
PROPERTIES
    ImplementsKeyVault
