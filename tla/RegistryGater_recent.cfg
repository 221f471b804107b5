SPECIFICATION Spec
CONSTANTS
    w1 = w1
    w2 = w2
    c1 = c1
    c2 = c2
    NoWallet = NoWallet
    Wallets = {w1, w2}
    Types <- KeyTypes
    Short <- ShortKeys
    Peers <- OwnerAndStrangers
    Checkers = {c1, c2}
    RegistryFails = TRUE
    RaceKills = TRUE
    CacheCleared = TRUE
    LookupsAreShort = TRUE
INVARIANTS
    TypeOK
    CacheIsRecent
    OnlyOwnersAdmitted
PROPERTIES
    AdmitsRecentOnly
