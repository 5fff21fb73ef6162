SPECIFICATION Spec
CONSTANTS
    MaxIncidents = 1
    Limit = 1
    MaxPolls = 2
    MaxMoves = 1
    MaxFailures = 0
INVARIANTS
    SummaryHonest
CHECK_DEADLOCK FALSE
