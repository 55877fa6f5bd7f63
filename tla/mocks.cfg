SPECIFICATION Spec
CONSTANTS
    c1 = c1
    c2 = c2
    Caller = {c1, c2}
    ToolName = {"t1"}
    Mount = {"m1"}
    Method = {"chat", "structured"}
    Initial = 1
    Tokens = 2
    MaxCount = 4
    MaxSeeded = 2
    MaxCalls = 1
INVARIANTS
    MocksTypeOK
    AnswersMatchCalls
    MockUsageIsExact
PROPERTIES
    MockImplementsHost
CHECK_DEADLOCK FALSE
