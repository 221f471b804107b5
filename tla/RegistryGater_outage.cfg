SPECIFICATION LiveSpec
CONSTANTS
    w1 = w1
    w2 = w2
    c1 = c1
    c2 = c2
    NoWallet = NoWallet
    Wallets = {w1, w2}
    Types <- KeyTypes
    Short <- ShortKeys
    Peers <- Owners
    Checkers = {c1}
    RegistryFails = TRUE
    RaceKills = FALSE
    CacheCleared = FALSE
    LookupsAreShort = FALSE
INVARIANTS
    SteadyWalletsCached
PROPERTIES
    RevokedWalletForgotten
    StopReturns
