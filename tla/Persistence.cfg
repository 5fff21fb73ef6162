SPECIFICATION Spec
CONSTANTS
    MaxSaves = 4
    MaxFailures = 3
INVARIANTS
    TypeOK
    AlwaysLoadable
    ReplacedUnlessRefused
CHECK_DEADLOCK FALSE
