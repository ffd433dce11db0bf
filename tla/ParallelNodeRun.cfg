SPECIFICATION FairSpec
CONSTANTS
    Parents = {"p", "q"}
    Children = {"a", "b", "d"}
    Kids <- MCKids
    Index <- MCIndex
    Category <- MCCategory
    Configs <- MCConfigs
    MaxParallel = 2
    MaxAttempts <- MCMaxAttempts
    MaxCrashes <- MCMaxCrashes
CHECK_DEADLOCK FALSE
INVARIANTS WorktreesAreRegistered
PROPERTIES RetainedWorkKept FanOutEnds
