SPECIFICATION Spec
CONSTANTS
    Nodes <- DagNodes
    Needs <- DagNeeds
    Index <- DagIndex
    Category <- DagCategory
    Categories = {"green"}
    CategoryCap <- DagCaps
    ParallelNodes = {"build"}
    DrainMergeNodes = {"merge"}
    FailFastModes = {FALSE}
    MaxParallel = 2
    MaxRestarts = 1
INVARIANTS DurablePassWasGated
