SPECIFICATION FairSpec
CONSTANTS
    Nodes <- ChainNodes
    Needs <- ChainNeeds
    Gates <- ChainGates
    Units <- ChainUnits
    Implements <- ChainImplements
    UnitGates <- ChainUnitGates
    Writable = {"impl"}
    Coverage = {}
    ParallelNodes = {"fan"}
    MaxAttempts <- ChainAttempts
    RetryOn <- ChainRetryOn
    AttemptCap = 3
INVARIANT PassedMeansGated
PROPERTIES PromiseKept NodesEnd
