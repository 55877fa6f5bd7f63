SPECIFICATION Spec
CONSTANTS
    c1 = c1
    c2 = c2
    c3 = c3
    t1 = t1
    t2 = t2
    m1 = m1
    m2 = m2
    s1 = s1
    h1 = h1
    h2 = h2
    Call = {c1, c2}
    ToolName = {t1, t2}
    Mount = {m1, m2}
    Session = {s1}
    NoSession = NoSession
    Handle = {h1, h2}
    session <- Chats
    handle <- OneHandle
    HasHost = {c1}
    Override <- OwnTools
    MaxTurns <- FewTurns
    NoUsage = NoUsage
    Reported <- One
    MaxCount = 1
    MaxBatch = 1
    MaxCanned = 1
    transport <- MCTransport
    serves <- MCServes
INVARIANTS
    OfferedToolsAreKnown
    MountedServersAreCancellable
CHECK_DEADLOCK FALSE
