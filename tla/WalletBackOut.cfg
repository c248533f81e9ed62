\* One wallet is enough: what counts is the order of the keys pressed.
CONSTANTS
    Seeds = {s1}
    Pins = {p1, p2}
    Salts = {n1, n2}
    NChains = 1
    Blank = Blank
    Torn = Torn
    NoSeed = NoSeed
    NoPin = NoPin
SPECIFICATION UserSpec
INVARIANT BackOutCancelsSession
