SPECIFICATION FairSpec
CONSTANTS
    r1 = r1
    a = a
    b = b
    ruleA = ruleA
    ruleB = ruleB
    NoRun = NoRun
    NoStats = NoStats
    Run = {r1, r2}
    Finding = {1, 2, 4}
    Fingerprint = {a, b}
    RuleId = {ruleA, ruleB}
    fingerprint <- MCFingerprint
    severity <- MCSeverity
    confidence <- MCConfidence
    ruleId <- MCRuleId
    DetectorCount <- MCDetectorCount
    Strict = {r2}
    Suppress <- MCSuppress
INVARIANTS
    IInv
    TypeOK
    FinishedIsComplete
    SupersessionIsSound
    ReportMatchesScan
    CompletedScanStaysFinished
    FinishedRanEveryDetector
PROPERTIES
    FinishedIsFinal
    ImplementsLedger
    EveryScanSettles
    OrphansAreAborted
CHECK_DEADLOCK FALSE
