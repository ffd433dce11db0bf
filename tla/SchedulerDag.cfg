SPECIFICATION FairSpec
CONSTANTS
    Nodes <- DagNodes
    Needs <- DagNeeds
    Index <- DagIndex
    Category <- DagCategory
    Categories = {"green"}
    CategoryCap <- DagCaps
    ParallelNodes = {"build"}
    DrainMergeNodes = {"merge"}
    FailFastModes = {TRUE, FALSE}
    MaxParallel = 2
    MaxRestarts = 1
INVARIANTS NeedsSatisfied PassIsComplete OutcomeIsDurable
PROPERTIES DurablyPassedNeverReRuns DrainsBeforeStopping FailFastStops RunEnds
