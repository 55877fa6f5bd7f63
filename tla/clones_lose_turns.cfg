SPECIFICATION Spec
CONSTANTS
    c1 = c1
    c2 = c2
    c3 = c3
    t1 = t1
    t2 = t2
    m1 = m1
    m2 = m2
    s1 = s1
    h1 = h1
    h2 = h2
    Call = {c1, c3}
    ToolName = {t1}
    Mount = {}
    Session = {s1}
    NoSession = NoSession
    Handle = {h1, h2}
    session <- Sends
    handle <- WithClone
    HasHost = {c1, c3}
    Override <- NoOverride
    MaxTurns <- OneTurn
    NoUsage = NoUsage
    Reported <- One
    MaxCount = 3
    MaxBatch = 1
    MaxCanned = 0
    transport <- MCTransport
    serves <- MCServes
INVARIANT
    RepliedSendsStayInHistory
CHECK_DEADLOCK FALSE
