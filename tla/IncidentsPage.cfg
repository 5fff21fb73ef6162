SPECIFICATION Spec
CONSTANTS
    MaxIncidents = 2
    Limit = 1
    MaxPolls = 2
    MaxMoves = 2
    MaxFailures = 1
INVARIANTS
    TypeOK
    RowsWereTrue
    SteadyShownOnce
    SteadyNoticed
PROPERTIES
    CatchesUp
CHECK_DEADLOCK FALSE
