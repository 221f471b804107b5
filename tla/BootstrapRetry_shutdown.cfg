SPECIFICATION LiveSpec
CONSTANTS
    p1 = p1
    p2 = p2
    k1 = k1
    k2 = k2
    k3 = k3
    d1 = d1
    d2 = d2
    r1 = r1
    r2 = r2
    App = App
    NoRetry = NoRetry
    NoConn = NoConn
    Conns = {k1}
    RemotePeer <- RemoteEnd
    Peers = {p1}
    BootstrapNodes <- OneNode
    Delayers = {d1}
    Retriers = {r1, r2}
    FirstAnswers = {"error", "empty", "nodes"}
    AnswerChanges <- Anything
    EarlyConns = {}
    PeersDrop = TRUE
PROPERTIES
    RetriesStopAfterShutdown
    KeepsPromises
