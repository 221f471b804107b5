SPECIFICATION NodeSpec
CONSTANTS
    User = User
    h1 = h1
    h2 = h2
    h3 = h3
    s1 = s1
    s2 = s2
    s3 = s3
    None = None
    Topics = {"t", "u"}
    Clients = {User}
    Handles = {h1, h2}
    Subs = {s1, s2}
    Valid = {"valid"}
    Ignored = {"own", "bad"}
    Own = "own"
    Buffer = 1
    CtxCancels = FALSE
    HandlerPanics = FALSE
    NilHandlers = FALSE
INVARIANTS
    NodeAgreesWithDB
    RecordedSubscriptionsListen
    CallsSucceed
