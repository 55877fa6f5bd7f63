SPECIFICATION FairSpec
CONSTANTS
    Requests <- MCRequests
    Defaults <- MCDefaults
    Timeout = 1
    MaxTime = 3
    MaxReported = 2
INVARIANTS
    DetectorsTypeOK
    OkMeansEveryFile
    OneLateRequest
    RefusesWhatSchemaRefuses
    RequestedDetectorsRan
PROPERTIES
    EndsUnlessSubprocessHangs
CHECK_DEADLOCK FALSE
