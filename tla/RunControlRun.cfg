SPECIFICATION FairSpec
CONSTANTS
    Nodes <- MCNodes
    Hooked <- MCHooked
    MaxEvents = 2
    MaxControl = 1
INVARIANTS RunVerdictStands KilledRunStaysAborted StallIsRecorded
PROPERTY StopTerminates
CHECK_DEADLOCK FALSE
