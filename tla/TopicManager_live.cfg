SPECIFICATION LiveSpec
CONSTANTS
    c1 = c1
    c2 = c2
    h1 = h1
    h2 = h2
    h3 = h3
    s1 = s1
    s2 = s2
    s3 = s3
    None = None
    Topics = {"t"}
    Clients = {c1, c2}
    Handles = {h1, h2}
    Subs = {s1}
    Valid = {"valid"}
    Ignored = {"own", "bad"}
    Own = "own"
    Buffer = 1
    CtxCancels = TRUE
    HandlerPanics = FALSE
    NilHandlers = FALSE
PROPERTIES
    CallsReturn
    KeepsSubscriptions
    CancelledListenersEnd
