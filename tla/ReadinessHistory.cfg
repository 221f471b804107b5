SPECIFICATION HistorySpec
CONSTANTS
    p1 = p1
    k1 = k1
    k2 = k2
    d1 = d1
    d2 = d2
    r1 = r1
    r2 = r2
    App = App
    NoRetry = NoRetry
    NoConn = NoConn
    Conns = {k1, k2}
    RemotePeer <- RemoteEnd
    Peers = {p1}
    BootstrapNodes <- OneNode
    Delayers = {d1, d2}
    Retriers = {r1, r2}
    FirstAnswers = {"error", "empty", "nodes"}
    AnswerChanges <- Shrinks
    EarlyConns = {k1, k2}
    PeersDrop = TRUE
SYMMETRY AllAlike
INVARIANTS
    TypeOK
    HandleIsRunningRetry
    AtMostOneRetry
    ReadyUnlessOutdated
