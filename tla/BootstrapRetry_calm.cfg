SPECIFICATION ReachableSpec
CONSTANTS
    p1 = p1
    p2 = p2
    k1 = k1
    k2 = k2
    k3 = k3
    d1 = d1
    d2 = d2
    r1 = r1
    r2 = r2
    App = App
    NoRetry = NoRetry
    NoConn = NoConn
    Conns = {k1, k3}
    RemotePeer <- RemoteEnd
    Peers = {p1, p2}
    BootstrapNodes <- TwoNodes
    Delayers = {d1, d2}
    Retriers = {r1, r2}
    FirstAnswers = {"empty", "nodes"}
    AnswerChanges <- Grows
    EarlyConns = {}
    PeersDrop = FALSE
INVARIANTS
    RetryWhileNotReady
PROPERTIES
    RetryEndsWhenReady
    EventuallyReady
