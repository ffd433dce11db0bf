SPECIFICATION FairSpec
CONSTANTS
    Ticket <- MCTicket
    Backlogs <- MCBacklogs
    Options <- MCOptions
    CheckLists <- MCCheckLists
    TokenMounted = TRUE
    MaxMergePolls = 1
    MaxRemediationAttempts = 1
    MaxRetries = 1
    MaxFrames = 2
    MaxDisturbances = 1
INVARIANTS LaunchedOnce PassedMeansMerged
PROPERTIES LaunchedAfterDependencies LoopEnds
CHECK_DEADLOCK FALSE
