SPECIFICATION FairSpec
CONSTANTS
    Requests <- MCRequests
    Defaults <- MCDefaults
    Timeout = 1
    MaxTime = 3
    MaxReported = 2
PROPERTY
    DeadlineEndsDetector
CHECK_DEADLOCK FALSE
