SPECIFICATION FairSpec
CONSTANTS
    n1 = n1
    n2 = n2
    Node = {n1, n2}
    Model = {"a", "b"}
    Profiles <- MCProfiles
    MaxContinuations = 2
    MaxEvents = 2
    Required = TRUE
    Event <- MCEvent
INVARIANTS TurnsAreEnded ReturnedResultIsSound GoalPassedOnStandingVerdict
PROPERTIES IdleMeansSilence AgentWorkEnds
CHECK_DEADLOCK FALSE
