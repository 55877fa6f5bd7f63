SPECIFICATION CliSpec
CONSTANTS
    a = a
    b = b
    ruleA = ruleA
    ruleB = ruleB
    NoRun = NoRun
    NoStats = NoStats
    Run = {r1, r2}
    Finding = {1, 2}
    Fingerprint = {a, b}
    RuleId = {ruleA, ruleB}
    fingerprint <- MCFingerprint
    severity <- MCSeverity
    confidence <- MCConfidence
    ruleId <- MCRuleId
    DetectorCount <- MCDetectorCount
    Strict = {}
    Suppress <- MCSuppress
    Viewer = {v1}
    Triaged = {a}
INVARIANTS
    CliTypeOK
    ShownStatsDescribeShownFindings
CHECK_DEADLOCK FALSE
