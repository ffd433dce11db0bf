SPECIFICATION FairSpec
CONSTANTS
    Plans <- MCPlans
    Modes = {"static", "dynamic"}
    RetryLimit = 1
    MaxResumes = 1
CHECK_DEADLOCK FALSE
INVARIANTS RecordedWorkIsPushed UpstreamWorkPassed GreenRunIsDelivered
PROPERTIES RemoteRunEnds
