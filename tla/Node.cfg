SPECIFICATION LiveSpec
CONSTANTS
    p1 = p1
    p2 = p2
    r1 = r1
    r2 = r2
    w1 = w1
    w2 = w2
    Nobody = Nobody
    NoWallet = NoWallet
    Peers = {p1, p2}
    Rounds = {r1, r2}
    Limit = 1
    MaxAdvertisers = 1
    Wallets = {w1, w2}
    WalletOf <- Wallet
    Registries <- Lists
    PeersDrop = TRUE
INVARIANTS
    TypeOK
    FailedConnectIsOffline
    DisconnectedIsOffline
PROPERTIES
    CallsReturn
    RoundsEnd
    AdvertisedPeersConnected
