SPECIFICATION Spec
CONSTANTS
    NumFiles = 2
    Shapes <- SomeShapes
    Queries <- SomeQueries
    MaxRecords = 4
    MaxTorn = 1
    MaxQueries = 2
INVARIANTS
    PageExact
    SeesStored
CHECK_DEADLOCK FALSE
