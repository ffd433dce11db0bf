SPECIFICATION LiveSpec
CONSTANTS
    SchedulingRoles <- MCSchedulingRoles
    WorkspaceWrite <- MCWorkspaceWrite
    CoverageProfiles <- MCCoverageProfiles
    Slug <- MCSlug
    Answers <- MCAnswers
    Backlog <- MCBacklog
    Tasks <- MCTasks
    TicketPlan <- MCTicketPlan
    ImplementationProfile = "moka-code-writer"
    MaxWaves = 7
    RetryLimit = 1
    Workers = {w1, w2}
    MaxFailures = 1
    MaxFaults = 1
INVARIANTS
    PlanOrderSound
    VerifiedAfterImplementation
    DeliveryIsLast
PROPERTIES
    PublishedPlanStands
    RunDrains
CHECK_DEADLOCK FALSE
