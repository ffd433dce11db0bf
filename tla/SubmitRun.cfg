SPECIFICATION FairSpec
CONSTANTS
    c1 = c1
    c2 = c2
    Client = {c1, c2}
    Requests <- MCRequests
    Ticket <- MCTicket
    Backlog <- MCBacklog
    Sessions <- MCSessions
    Judge <- MCJudge
INVARIANTS PlanAppliedInOrder OnlyUnacknowledgedMapsLeak
PROPERTY SubmissionEnds
CHECK_DEADLOCK FALSE
