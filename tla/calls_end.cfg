SPECIFICATION FairSpec
CONSTANTS
    c1 = c1
    c2 = c2
    c3 = c3
    t1 = t1
    t2 = t2
    m1 = m1
    m2 = m2
    s1 = s1
    h1 = h1
    h2 = h2
    Call = {c1, c3}
    ToolName = {t1, t2}
    Mount = {}
    Session = {s1}
    NoSession = NoSession
    Handle = {h1, h2}
    session <- Chats
    handle <- OneHandle
    HasHost = {c1}
    Override <- NoOverride
    MaxTurns <- FewTurns
    NoUsage = NoUsage
    Reported <- Tokens
    MaxCount = 3
    MaxBatch = 2
    MaxCanned = 0
    transport <- MCTransport
    serves <- MCServes
INVARIANTS
    CallsTypeOK
    EachCallIsInvokedOnce
PROPERTIES
    EveryCallEnds
CHECK_DEADLOCK FALSE
