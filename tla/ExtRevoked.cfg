\* Two handlers overlap; one chain the extension lists and one it does not.
CONSTANTS
    Jobs = {j1, j2}
    Origins = {o1}
    Wallets = {w1, w2}
    Chains = {1, 2}
    Listed = {1, 3}
    Mainnet = 3
    None = None
SPECIFICATION Spec
INVARIANT RevokedStaysOut
